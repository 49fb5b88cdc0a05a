---------------------------- MODULE MCFilingHop ----------------------------
(* Every history of up to four filings over three days, a window of two, and *)
(* every window of dates, for 8-Ks with their amendments or for any form;    *)
(* directories with and without the filing's own document.                   *)
EXTENDS FilingHop

MCForms == {"8-K/A", "10-K"}
MCHistories ==
  {h \in UNION {[1..n -> [form : MCForms, date : Dates]] : n \in 0..4} :
     \A i \in 1..(Len(h) - 1) : h[i].date >= h[i + 1].date}
MCQueries == [form : {"8-K", NoForm}, from : Dates \union {NoDate},
              to : Dates \union {NoDate}, paginate : BOOLEAN]
MCListings == { <<>>, <<"wrapper", "exhibit", "other", "body">>, <<"text", "wrapper">> }
MCIndexNames == {"body"}
MCGuesses == {NoName, "unlisted"}
=============================================================================
