--------------------------- MODULE MCRegistryHop ---------------------------
(* Searches with up to three hits among companies of one core with different *)
(* words dropped, of a core that contains it, and of another; no hit number. *)
EXTENDS RegistryHop

Named(core, dropped) == [core |-> core, dropped |-> dropped]
MCNames == {Named("wejo", "limited"), Named("wejo", "group limited"),
            Named("wejo data", "limited"), Named("marelli", "limited"),
            Named("", "holdings limited")}
MCWithin == {<<c, c>> : c \in {"", "wejo", "wejo data", "marelli"}}
              \union {<<"wejo", "wejo data">>}
Hit(name, number) == [name |-> name, number |-> number]
Ltd == Hit(Named("wejo", "limited"), "n1")
Group == Hit(Named("wejo", "group limited"), "n2")
Data == Hit(Named("wejo data", "limited"), "n3")
Unnumbered == Hit(Named("marelli", "limited"), "")
MCSearches == {<<>>, <<Unnumbered>>, <<Ltd>>, <<Data, Ltd>>, <<Unnumbered, Data>>,
               <<Data, Group, Ltd>>, <<Data, Unnumbered, Ltd>>}
=============================================================================
