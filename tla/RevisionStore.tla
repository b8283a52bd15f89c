--------------------------- MODULE RevisionStore ---------------------------
(* What data publication promises a reader, with nothing of how: revisions *)
(* are committed in ascending order, each once and for good, and the       *)
(* visible one has been committed before.  Readers may find nothing (a     *)
(* cache that was lost), and a repair may show an older committed revision *)
(* until the next one.                                                     *)
EXTENDS Naturals

VARIABLES committed,   \* the revisions that have been canonical
          visible      \* the revision readers are given, 0 for none

storeVars == <<committed, visible>>

StoreInit == committed = {} /\ visible = 0

\* A transaction makes one later revision canonical; readers do not see it yet.
Commit ==
    /\ \E r \in committed' : /\ committed' = committed \cup {r}
                             /\ \A c \in committed : c < r
    /\ UNCHANGED visible

\* Readers are given a committed revision, or nothing when the cache is lost.
Show ==
    /\ visible' \in committed \cup {0}
    /\ UNCHANGED committed

StoreNext == Commit \/ Show

StoreSpec == StoreInit /\ [][StoreNext]_storeVars
=============================================================================
