---------------------------- MODULE VersionViews ----------------------------
(* What a version store promises to its users, without commits: branches    *)
(* and HEAD are names of whole snapshots.  Only the operations that say so  *)
(* change what a name shows; squashing history and collecting garbage show  *)
(* nothing.                                                                 *)
EXTENDS Absent, Functions

CONSTANTS Names, Contents   \* branch names; the snapshots there can be

VARIABLES
  view,      \* view[b]: what branch b shows, NULL without a branch
  atHead,    \* what HEAD shows
  on,        \* the branch HEAD is attached to
  kept,      \* the snapshots that some commit holds
  editing    \* whether somebody is rewriting a branch

viewVars == <<view, atHead, on, kept, editing>>

\* Nothing yet, or one snapshot under every name.
ViewsInit ==
  /\ editing = FALSE
  /\ \/ /\ view = [b \in Names |-> NULL]
        /\ atHead = NULL
        /\ on = NULL
        /\ kept = {}
     \/ /\ atHead \in Contents
        /\ view = [b \in Names |-> atHead]
        /\ on \in Names
        /\ kept = {atHead}

\* A commit shows in HEAD and in the attached branch, which showed the same.
Save ==
  /\ on # NULL => view[on] = atHead
  /\ atHead' \in Contents
  /\ kept' = kept \cup {atHead'}
  /\ view' = IF on = NULL THEN view ELSE [view EXCEPT ![on] = atHead']
  /\ UNCHANGED on

Name(b) ==
  /\ view[b] = NULL
  /\ \E t \in kept : view' = [view EXCEPT ![b] = t]
  /\ UNCHANGED <<atHead, on, kept>>

\* The attached branch cannot be dropped.
Drop(b) ==
  /\ on # b
  /\ view' = [view EXCEPT ![b] = NULL]
  /\ UNCHANGED <<atHead, on, kept>>

\* HEAD shows something that b has shown; b may have moved since.
Select(b) ==
  /\ view[b] # NULL
  /\ atHead' \in kept
  /\ on' = b
  /\ UNCHANGED <<view, kept>>

\* A merge takes every URI from one of the two sides and moves HEAD, which
\* showed what the branch showed.
Combine(b) ==
  /\ view[b] # NULL
  /\ view[b] = atHead
  /\ atHead' \in Contents
  /\ \E theirs \in kept : \A u \in DOMAIN theirs : atHead'[u] \in {atHead[u], theirs[u]}
  /\ view' = [view EXCEPT ![b] = atHead']
  /\ kept' = kept \cup {atHead'}
  /\ UNCHANGED on

\* A pick or a rebase rewrites one branch; HEAD follows only if attached to it.
Rewrite(b) ==
  /\ editing
  /\ view[b] # NULL
  /\ view'[b] \in Contents
  /\ view' = [view EXCEPT ![b] = view'[b]]
  /\ kept' = kept \cup {view'[b]}
  /\ atHead' = atHead \/ (on = b /\ atHead' = view'[b])
  /\ UNCHANGED on

\* Commits that no name refers to come and go.
Pile ==
  /\ kept' \subseteq Contents
  /\ Range(view) \cup {atHead} \subseteq Opt(kept')
  /\ kept \subseteq kept' \/ kept' \subseteq kept
  /\ UNCHANGED <<view, atHead, on>>

ViewsNext ==
  /\ editing' \in BOOLEAN
  /\ \/ Save
     \/ \E b \in Names : Name(b) \/ Drop(b) \/ Select(b) \/ Combine(b) \/ Rewrite(b)
     \/ Pile

ViewsSpec == ViewsInit /\ [][ViewsNext]_viewVars
=============================================================================
