--------------------------- MODULE MCIndexVersions ---------------------------
EXTENDS IndexVersions

CONSTANTS c1, c2

OneContent == {[f \in Files |-> c1]}

\* Older indexes of one text, with any of the files, deleted or not.
Legacy ==
  {old \in [active : [Files -> 0 .. 2], text : {[f \in Files |-> c] : c \in Contents},
            deleted : SUBSET Files] :
     /\ IsBaseline(old)
     /\ \A f \in old.deleted : old.active[f] # 0}
=============================================================================
