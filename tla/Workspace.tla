------------------------------- MODULE Workspace -------------------------------
(***************************************************************************)
(* The pane layout of a window (ui/src/lib/workspace.ts) and how it        *)
(* survives a restart (ui/src/lib/workspace-persist.ts, App.tsx): an       *)
(* autosave that is debounced, saves under way that nobody awaits, a file  *)
(* the shell writes and the localStorage that stands in when a save is     *)
(* refused, and a restore the user can be faster than.                     *)
(*                                                                         *)
(* A pane is named by its place in the tree of splits, the path of 0s and  *)
(* 1s that leads to it, instead of by its random id; a layout maps these   *)
(* paths to what the panes show.  Directions, sizes and function codes are *)
(* left out.                                                               *)
(***************************************************************************)
EXTENDS Integers, SequencesExt

CONSTANTS
  Symbols, Groups,   \* symbols a pane may show; link groups
  MaxDepth,          \* the validator's depth cap
  MaxBroadcast,      \* MAX_BROADCAST_LEAVES
  MaxEdits,          \* bound: edits, over all sessions
  MaxSaves,          \* bound: saves under way
  None

ASSUME WorkspaceAssumption ==
  /\ {MaxDepth, MaxBroadcast, MaxEdits, MaxSaves} \subseteq Nat
  /\ None \notin Symbols

VARIABLES
  tree, focus,   \* the store
  phase,         \* of the app: off, booting (restoring), on (autosaving)
  timer,         \* the debounce timer is set
  saves,         \* layouts whose save_workspace is under way, oldest first
  file,          \* state/workspace-<label>.json
  local,         \* localStorage
  edits,         \* edits made, for the bound
  astray,        \* the next boot does not look where this layout was saved
  left           \* what the last session ended with; None: not saved, restored

storage == <<saves, file, local, astray>>
vars == <<tree, focus, phase, timer, storage, edits, left>>

Leaf == [symbol : Symbols \cup {None}, group : Groups \cup {None}]

Flip(p, i) == [SubSeq(p, 1, i) EXCEPT ![i] = 1 - @]

\* The leaves of a tree whose splits have two children each
IsLayout(t) ==
  /\ \A p \in DOMAIN t : p \in Seq({0, 1}) /\ t[p] \in Leaf
  /\ DOMAIN t # {}
  /\ \A p \in DOMAIN t :
       /\ \A q \in DOMAIN t : ~IsStrictPrefix(p, q)
       /\ \A i \in DOMAIN p : \E q \in DOMAIN t : IsPrefix(Flip(p, i), q)

\* A layout is whole, whatever was split, closed, loaded or restored, and
\* the focus, where routes and shortcuts go, is one of its panes.
TypeOK ==
  /\ IsLayout(tree) /\ focus \in DOMAIN tree
  /\ phase \in {"off", "booting", "on"} /\ timer \in BOOLEAN
  /\ Len(saves) <= MaxSaves
  /\ edits \in 0 .. MaxEdits /\ astray \in BOOLEAN

\* The single HOME leaf
Default == [p \in {<<>>} |-> [symbol |-> None, group |-> None]]

\* A desk the user once built, linked and saved as a preset
Desk(s, g) ==
  [p \in {<<0>>, <<1, 0>>, <<1, 1>>} |->
     [symbol |-> IF p = <<0>> THEN s ELSE None, group |-> g]]

\* setAllLinkGroupsInTree
LinkAll(t, g) == [p \in DOMAIN t |-> [t[p] EXCEPT !.group = g]]

\* The first start, or one after a session that ended with this desk
Init ==
  /\ tree = Default /\ focus = <<>> /\ phase = "off" /\ timer = FALSE
  /\ file \in {None} \cup {Desk(s, g) : s \in Symbols, g \in Groups}
  /\ saves = <<>> /\ local = None
  /\ edits = 0 /\ astray = TRUE /\ left = None

----------------------------------------------------------------------------
(* Pure helpers of workspace.ts *)

\* firstLeafId
First(t) == CHOOSE p \in DOMAIN t : \A i \in DOMAIN p : p[i] = 0

\* p is walked before q
Before(p, q) ==
  \E i \in DOMAIN p \cap DOMAIN q :
    p[i] < q[i] /\ \A j \in 1 .. i - 1 : p[j] = q[j]

\* The leaves a broadcast from p reaches: the first MaxBroadcast others
Reached(t, p) ==
  LET others == {q \in DOMAIN t \ {p} :
                   t[q].group = t[p].group /\ t[p].group # None}
  IN {q \in others :
        Cardinality({r \in others : Before(r, q)}) < MaxBroadcast}

\* Mutant of Retarget: the symbol is broadcast to the focused pane's group
\* after the focused pane has lost it
RetargetUnlinked(t, p, s) ==
  [q \in DOMAIN t |->
     IF q = p THEN [symbol |-> s, group |-> None]
     ELSE IF q \in Reached([t EXCEPT ![p].group = None], p)
          THEN [t[q] EXCEPT !.symbol = s] ELSE t[q]]

\* updateLeaf, and broadcastSymbolToGroup unless the symbol is empty
Retarget(t, p, s) ==
  [q \in DOMAIN t |->
     IF q = p \/ (s # None /\ q \in Reached(t, p))
     THEN [t[q] EXCEPT !.symbol = s] ELSE t[q]]

\* splitFocused: the pane keeps its link, its twin gets none
SplitAt(t, p) ==
  [q \in (DOMAIN t \ {p}) \cup {p \o <<0>>, p \o <<1>>} |->
     IF q = p \o <<0>> THEN t[p]
     ELSE IF q = p \o <<1>> THEN [symbol |-> t[p].symbol, group |-> None]
     ELSE t[q]]

\* Mutant of Without: the parent stays, with one child
WithoutCollapse(t, p) == [q \in DOMAIN t \ {p} |-> t[q]]

\* removeLeaf: the sibling's subtree takes the place of the split
Without(t, p) ==
  LET split == Front(p)
      sibling == Flip(p, Len(p))
      Old(q) == IF IsPrefix(split, q)
                THEN sibling \o SubSeq(q, Len(split) + 1, Len(q)) ELSE q
      stay == {q \in DOMAIN t : ~IsPrefix(split, q)}
      rise == {split \o SubSeq(q, Len(p) + 1, Len(q)) :
                 q \in {q \in DOMAIN t : IsPrefix(sibling, q)}}
  IN [q \in stay \cup rise |-> t[Old(q)]]

\* isValidWorkspaceNode, of what it checks only the depth can go wrong here
Valid(t) == \A p \in DOMAIN t : Len(p) <= MaxDepth

----------------------------------------------------------------------------
(* The user's edits; before autosave starts nothing saves them *)

Mutates(t, f) ==
  /\ phase # "off"
  /\ tree' = t /\ focus' = f
  /\ timer' = (timer \/ phase = "on")
  /\ UNCHANGED <<phase, storage, left>>

Edit(t, f) ==
  /\ edits < MaxEdits /\ edits' = edits + 1
  /\ Mutates(t, f)

SetFocused == \E p \in DOMAIN tree \ {focus} : Mutates(tree, p) /\ UNCHANGED edits

\* setFocusedTarget, and setLeafTarget from a pane's own controls
SetTarget ==
  \E p \in DOMAIN tree, s \in Symbols \cup {None} :
    Edit(Retarget(tree, p, s), focus)

SetLeafLinkGroup ==
  \E p \in DOMAIN tree, g \in Groups \cup {None} :
    Edit([tree EXCEPT ![p].group = g], focus)

SetAllLinkGroups ==
  \E g \in Groups \cup {None} : Edit(LinkAll(tree, g), focus)

\* Nothing keeps the user from splitting deeper than Valid allows; one level
\* more is enough here
SplitFocused ==
  /\ Len(focus) <= MaxDepth
  /\ Edit(SplitAt(tree, focus), focus \o <<1>>)

CloseFocused ==
  /\ focus # <<>>
  /\ LET t == Without(tree, focus) IN Edit(t, First(t))

\* resetTo; loadBuiltinPreset of the default desk
ResetTo == tree # Default /\ Edit(Default, <<>>)

\* loadPreset: loadWorkspace, without the validator
LoadPreset ==
  \E s \in Symbols, g \in Groups :
    LET t == Desk(s, g) IN tree # t /\ Edit(t, First(t))

----------------------------------------------------------------------------
(* Autosave: nobody awaits `persist', but saves go through one queue *)

\* Mutant of TimerFires: what the last save carried is saved again
TimerFiresStale ==
  /\ timer /\ Len(saves) < MaxSaves
  /\ timer' = FALSE
  /\ saves' = Append(saves, IF file = None THEN tree ELSE file)
  /\ UNCHANGED <<tree, focus, phase, file, local, astray, edits, left>>

\* The debounce timer: serializes the tree as it is now
TimerFires ==
  /\ timer /\ Len(saves) < MaxSaves
  /\ timer' = FALSE
  /\ saves' = Append(saves, tree)
  /\ UNCHANGED <<tree, focus, phase, file, local, astray, edits, left>>

SaveLands ==
  /\ saves # <<>> /\ saves' = Tail(saves)
  /\ file' = Head(saves) /\ astray' = FALSE
  /\ UNCHANGED <<tree, focus, phase, timer, local, edits, left>>

\* Mutant of SaveFails: nothing stands in for the file
SaveFailsSilently ==
  /\ saves # <<>> /\ saves' = Tail(saves)
  /\ astray' = (file # None)
  /\ UNCHANGED <<tree, focus, phase, timer, file, local, edits, left>>

\* Rate limit, size cap, disk: localStorage takes the layout, but the next
\* boot reads it only if there is no file
SaveFails ==
  /\ saves # <<>> /\ saves' = Tail(saves)
  /\ local' = Head(saves) /\ astray' = (file # None)
  /\ UNCHANGED <<tree, focus, phase, timer, file, edits, left>>

----------------------------------------------------------------------------
(* Sessions *)

Boot ==
  /\ phase = "off" /\ phase' = "booting"
  /\ tree' = Default /\ focus' = <<>>
  /\ UNCHANGED <<timer, storage, edits, left>>

\* restoreWorkspace, then the route of the window (None: it has no target)
\* replaces what the focused pane shows, then autosave starts.  A layout that
\* does not validate is dropped; a file that cannot be read is passed over
Restore(readable, route) ==
  LET stored == IF file # None /\ readable THEN file ELSE local
      loads == stored # None /\ Valid(stored)
      t == IF loads THEN stored ELSE tree
      f == IF loads THEN First(stored) ELSE focus
  IN
  /\ phase = "booting" /\ phase' = "on"
  /\ focus' = f
  /\ tree' = IF route = <<>> THEN t ELSE Retarget(t, f, route[1])
  /\ astray' = (tree' # IF file # None THEN file ELSE local)
  /\ left' = None
  /\ UNCHANGED <<timer, saves, file, local, edits>>

Routes == {<<>>} \cup {<<s>> : s \in Symbols \cup {None}}

Restores == \E readable \in BOOLEAN, route \in Routes : Restore(readable, route)

\* The app ends: a crash, or a close whose flush is not awaited.  Of the
\* saves under way and the flush, the first so many still land
Quit ==
  /\ phase # "off" /\ phase' = "off"
  /\ \E flush \in IF phase = "on" THEN {<<>>, <<tree>>} ELSE {<<>>} :
       \E n \in 0 .. Len(saves \o flush) :
         file' = IF n = 0 THEN file ELSE (saves \o flush)[n]
  /\ left' = IF phase = "on" /\ ~timer /\ saves = <<>> /\ ~astray
             THEN tree ELSE None
  /\ timer' = FALSE /\ saves' = <<>> /\ astray' = TRUE
  /\ tree' = Default /\ focus' = <<>>
  /\ UNCHANGED <<local, edits>>

----------------------------------------------------------------------------
Edits ==
  \/ SetFocused \/ SetTarget \/ SetLeafLinkGroup \/ SetAllLinkGroups
  \/ SplitFocused \/ CloseFocused \/ ResetTo \/ LoadPreset

Next ==
  \/ Edits
  \/ TimerFires \/ SaveLands \/ SaveFails
  \/ Boot \/ Restores \/ Quit

Spec == Init /\ [][Next]_vars

\* The user pauses, so that the timer fires; a save returns
FairSpec ==
  Spec /\ WF_vars(TimerFires) /\ WF_vars(SaveLands \/ SaveFails)

----------------------------------------------------------------------------
\* The same panes with the same links, showing the same: but the first one,
\* and what is linked with it, follows the route of the window
SamePanes(t, u) ==
  /\ DOMAIN t = DOMAIN u
  /\ LET first == First(u)
     IN \A p \in DOMAIN t :
          /\ t[p].group = u[p].group
          /\ \/ p = first
             \/ (u[p].group # None /\ u[p].group = u[first].group)
             \/ t[p].symbol = u[p].symbol

\* "A refresh keeps the user's split" (docs/round_notes/16.md:95): a session
\* that ended with nothing left to save is restored by the next one, unless
\* its last save was refused while an older file exists, the file cannot be
\* read, or the layout is deeper than the validator allows.
RestoreKeepsTheLayout ==
  [][left # None /\ Valid(left) /\ (\E route \in Routes : Restore(TRUE, route))
       => SamePanes(tree', left)]_vars

\* An edit made while autosave runs reaches the file or localStorage, in
\* spite of refused saves, unless the app ends first.
EditsAreSaved == timer ~> phase = "off" \/ tree \in {file, local}

\* s moves from one origin to all that are linked with it, and to no other
Broadcast(p, s) ==
  \E origin \in DOMAIN tree :
    LET group == {q \in DOMAIN tree \ {origin} :
                    tree[q].group # None /\ tree[q].group = tree[origin].group}
    IN /\ p \in group \cup {origin}
       /\ tree'[origin].symbol = s
       /\ Cardinality(group) <= MaxBroadcast =>
            \A q \in group : tree'[q].symbol = s
       /\ \A q \in DOMAIN tree \ (group \cup {origin}) : tree'[q] = tree[q]

\* "Leaves sharing a non-empty group rebind in lockstep" (workspace.ts:37):
\* a new symbol in one pane shows in all that are linked with it, and in no
\* other; a group of more than MaxBroadcast others is rebound in part.
LinkedInLockstep ==
  [][\A p \in DOMAIN tree \cap DOMAIN tree', s \in Symbols :
       tree[p].symbol # s /\ tree'[p].symbol = s /\ SetTarget => Broadcast(p, s)]_vars
=============================================================================
