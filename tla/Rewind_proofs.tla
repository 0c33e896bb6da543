--------------------------- MODULE Rewind_proofs ---------------------------
(***************************************************************************)
(* Proofs about the record of changes that rewinds go by: it is kept in    *)
(* the tracker, in the checkpoints being saved and in the checkpoints of   *)
(* all sessions, and changes move from one to the next.                    *)
(*                                                                         *)
(* What is in the files does not matter for that.  The parts after it type *)
(* everything, files and rewinds included, tell the story of the files and *)
(* follow a rewind to where it makes them what they were.                  *)
(***************************************************************************)
EXTENDS Rewind, SequenceTheorems, FiniteSetTheorems, WellFoundedInduction, TLAPS

\* Where changes are listed: the tracker, a session's checkpoint in the making,
\* and its checkpoints.
Tracker == <<>>
Places == {Tracker} \union (Session \X Nat)

Record ==
    [x \in Places |->
        IF x = Tracker THEN changes
        ELSE IF x[2] = 0 THEN InFlight(x[1])
        ELSE IF x[2] \in DOMAIN checkpoints[x[1]] THEN checkpoints[x[1]][x[2]].changes
        ELSE <<>>]

ListedIn(H, p) == \E x \in Places : \E i \in DOMAIN H[x] : H[x][i] = p

DistinctIn(H) ==
    \A x, y \in Places : \A i \in DOMAIN H[x], j \in DOMAIN H[y] :
        H[x][i] = H[y][j] => x = y /\ i = j

IsSeq(q) == \E S : q \in Seq(S)

\* The fields of a call and of a checkpoint in the making, with any contents.
ToolValue(v) ==
    \/ v = NoTool
    \/ v \in [step : {"create", "apply", "saving"}, kind : {v.kind}, file : {v.file},
              old : {v.old}, new : {v.new}, patch : Nat]

SaveValue(v) ==
    \/ v = NoSave
    \/ v \in [step : {"state", "file"}, state : {v.state}, changes : {v.changes},
              was : {v.was}, at : {v.at}]

RecordType ==
    /\ changes \in Seq(Nat)
    /\ IsSeq(backups)
    /\ tool = [s \in Session |-> tool[s]] /\ \A s \in Session : ToolValue(tool[s])
    /\ saves = [s \in Session |-> saves[s]] /\ \A s \in Session : SaveValue(saves[s])
    /\ checkpoints = [s \in Session |-> checkpoints[s]]
    /\ \A s \in Session : IsSeq(checkpoints[s])

\* A listed change has a backup.
ListedBackedUp == \A p : ListedIn(Record, p) => p \in 1..Len(backups)

\* What a call is about to list is nowhere on the record yet, and no other
\* call's.
CallsFresh ==
    \A s \in Session : tool[s].step = "saving" =>
        /\ tool[s].patch \in 1..Len(backups)
        /\ ~ListedIn(Record, tool[s].patch)
        /\ \A r \in Session :
             tool[r].step = "saving" /\ tool[r].patch = tool[s].patch => r = s

EditsListed == \A p \in edits : p \in lost \/ ListedIn(Record, p)

RecordInv ==
    /\ RecordType
    /\ ListedBackedUp
    /\ DistinctIn(Record)
    /\ CallsFresh
    /\ EditsListed

-----------------------------------------------------------------------------
\* Sequences of anything.
LEMMA AppendAny ==
    ASSUME NEW q, IsSeq(q), NEW v
    PROVE  /\ IsSeq(Append(q, v))
           /\ Len(q) \in Nat /\ DOMAIN q = 1..Len(q)
           /\ Len(Append(q, v)) = Len(q) + 1
           /\ DOMAIN Append(q, v) = 1..(Len(q) + 1)
           /\ Append(q, v)[Len(q) + 1] = v
           /\ \A i \in DOMAIN q : Append(q, v)[i] = q[i]
<1>1. PICK S : q \in Seq(S)
  BY DEF IsSeq
<1>2. q \in Seq(S \union {v})
  BY <1>1
<1>3. Append(q, v) \in Seq(S \union {v})
  BY <1>2
<1>4. IsSeq(Append(q, v))
  BY <1>3 DEF IsSeq
<1> QED
  BY <1>2, <1>4

\* A list moves to a place that has none.
LEMMA Moved ==
    ASSUME NEW H, NEW G,
           NEW a \in Places, NEW b \in Places, a # b, H[b] = <<>>,
           G[a] = <<>>, G[b] = H[a], \A x \in Places : x # a /\ x # b => G[x] = H[x]
    PROVE  /\ \A p : ListedIn(G, p) <=> ListedIn(H, p)
           /\ DistinctIn(H) => DistinctIn(G)
<1>1. G[a] = <<>> /\ G[b] = H[a] /\ \A x \in Places : x # a /\ x # b => G[x] = H[x]
  OBVIOUS
<1>2. ASSUME NEW p PROVE ListedIn(G, p) <=> ListedIn(H, p)
  <2>1. ASSUME ListedIn(G, p) PROVE ListedIn(H, p)
    BY <1>1, <2>1 DEF ListedIn
  <2>2. ASSUME ListedIn(H, p) PROVE ListedIn(G, p)
    BY <1>1, <2>2 DEF ListedIn
  <2> QED
    BY <2>1, <2>2
<1>3. ASSUME DistinctIn(H) PROVE DistinctIn(G)
  <2> SUFFICES ASSUME NEW x \in Places, NEW y \in Places,
                      NEW i \in DOMAIN G[x], NEW j \in DOMAIN G[y], G[x][i] = G[y][j]
               PROVE  x = y /\ i = j
    BY DEF DistinctIn
  <2>1. x # a /\ y # a
    BY <1>1
  <2> DEFINE from(z) == IF z = b THEN a ELSE z
  <2>2. \A z \in Places : z # a => from(z) \in Places /\ G[z] = H[from(z)]
    BY <1>1
  <2>3. from(x) = from(y) /\ i = j
    BY <1>3, <2>1, <2>2 DEF DistinctIn
  <2> QED
    BY <2>1, <2>3
<1> QED
  BY <1>2, <1>3

\* A list gets a change that is nowhere.
LEMMA Listed ==
    ASSUME NEW H, NEW G, NEW a \in Places, NEW q, q \in Seq(Nat), NEW p \in Nat, H[a] = q,
           ~ListedIn(H, p),
           G[a] = Append(q, p), \A x \in Places : x # a => G[x] = H[x]
    PROVE  /\ \A r : ListedIn(G, r) <=> ListedIn(H, r) \/ r = p
           /\ DistinctIn(H) => DistinctIn(G)
<1>1. G[a] = Append(q, p) /\ \A x \in Places : x # a => G[x] = H[x]
  OBVIOUS
<1>2. /\ DOMAIN G[a] = DOMAIN H[a] \union {Len(q) + 1} /\ G[a][Len(q) + 1] = p
      /\ Len(q) + 1 \notin DOMAIN H[a]
      /\ \A i \in DOMAIN H[a] : G[a][i] = H[a][i]
  BY <1>1
<1>3. ASSUME NEW r PROVE ListedIn(G, r) <=> ListedIn(H, r) \/ r = p
  <2>1. ASSUME ListedIn(G, r) PROVE ListedIn(H, r) \/ r = p
    BY SMTT(30), <1>1, <1>2, <2>1 DEF ListedIn
  <2>2. ASSUME ListedIn(H, r) PROVE ListedIn(G, r)
    BY <1>1, <1>2, <2>2 DEF ListedIn
  <2>3. ListedIn(G, p)
    BY <1>2 DEF ListedIn
  <2> QED
    BY <2>1, <2>2, <2>3
<1>4. ASSUME DistinctIn(H) PROVE DistinctIn(G)
  <2> SUFFICES ASSUME NEW x \in Places, NEW y \in Places,
                      NEW i \in DOMAIN G[x], NEW j \in DOMAIN G[y], G[x][i] = G[y][j]
               PROVE  x = y /\ i = j
    BY DEF DistinctIn
  <2>1. \A z \in Places : \A k \in DOMAIN G[z] :
           \/ k \in DOMAIN H[z] /\ G[z][k] = H[z][k] /\ G[z][k] # p
           \/ z = a /\ k = Len(q) + 1 /\ G[z][k] = p
    BY <1>1, <1>2 DEF ListedIn
  <2> QED
    BY <1>4, <2>1 DEF DistinctIn
<1> QED
  BY <1>3, <1>4

\* A list is lost.
LEMMA Dropped ==
    ASSUME NEW H, NEW G, NEW a \in Places,
           G[a] = <<>>, \A x \in Places : x # a => G[x] = H[x]
    PROVE  /\ \A p : ListedIn(G, p) => ListedIn(H, p)
           /\ \A p : ListedIn(H, p) => ListedIn(G, p) \/ \E i \in DOMAIN H[a] : H[a][i] = p
           /\ DistinctIn(H) => DistinctIn(G)
<1>1. G[a] = <<>> /\ \A x \in Places : x # a => G[x] = H[x]
  OBVIOUS
<1>2. ASSUME NEW p, ListedIn(G, p) PROVE ListedIn(H, p)
  BY <1>1, <1>2 DEF ListedIn
<1>3. ASSUME NEW p, ListedIn(H, p)
      PROVE  ListedIn(G, p) \/ \E i \in DOMAIN H[a] : H[a][i] = p
  BY <1>1, <1>3 DEF ListedIn
<1>4. ASSUME DistinctIn(H) PROVE DistinctIn(G)
  BY <1>1, <1>4 DEF DistinctIn
<1> QED
  BY <1>2, <1>3, <1>4

-----------------------------------------------------------------------------
\* Steps that leave the record alone.

LEMMA SameRecord ==
    ASSUME UNCHANGED <<changes, saves, checkpoints>>
    PROVE  Record' = Record
BY DEF Record, InFlight

LEMMA QuietInv ==
    ASSUME RecordInv,
           UNCHANGED <<changes, saves, checkpoints, edits, lost, backups, tool>>
    PROVE  RecordInv'
<1>1. Record' = Record
  BY SameRecord
<1> QED
  BY <1>1 DEF RecordInv, RecordType, ListedBackedUp, CallsFresh, EditsListed

\* A call begins, goes on or ends; what it may list is new.
LEMMA CallInv ==
    ASSUME RecordInv, NEW s \in Session, NEW v, ToolValue(v),
           tool' = [tool EXCEPT ![s] = v],
           UNCHANGED <<changes, saves, checkpoints, edits, lost>>,
           IsSeq(backups'), Len(backups) \in Nat, Len(backups') \in Nat,
           Len(backups) <= Len(backups'),
           v.step = "saving" => v.patch \in (Len(backups) + 1)..Len(backups')
    PROVE  RecordInv'
<1>1. Record' = Record
  BY SameRecord
<1>2. tool'[s] = v /\ \A r \in Session : r # s => tool'[r] = tool[r]
  BY DEF RecordInv, RecordType
<1>3. RecordType'
  BY <1>2 DEF RecordInv, RecordType
<1>4. 1..Len(backups) \subseteq 1..Len(backups')
  OBVIOUS
<1>5. ListedBackedUp' /\ DistinctIn(Record)' /\ EditsListed'
  BY <1>1, <1>4 DEF RecordInv, ListedBackedUp, EditsListed
<1>6. CallsFresh'
  <2> SUFFICES ASSUME NEW r \in Session, tool'[r].step = "saving"
               PROVE  /\ tool'[r].patch \in 1..Len(backups')
                      /\ ~ListedIn(Record, tool'[r].patch)
                      /\ \A z \in Session :
                           tool'[z].step = "saving" /\ tool'[z].patch = tool'[r].patch => z = r
    BY <1>1 DEF CallsFresh
  <2>1. \A z \in Session : tool[z].step = "saving" => tool[z].patch \in 1..Len(backups)
    BY DEF RecordInv, CallsFresh
  <2>2. \A p : ListedIn(Record, p) => p \in 1..Len(backups)
    BY DEF RecordInv, ListedBackedUp
  <2>3. CASE r = s
    <3>1. v.patch \in (Len(backups) + 1)..Len(backups') /\ tool'[r] = v
      BY <1>2, <2>3
    <3>2. v.patch \notin 1..Len(backups) /\ v.patch \in 1..Len(backups')
      BY <3>1
    <3> QED
      BY <1>2, <2>1, <2>2, <2>3, <3>1, <3>2
  <2>4. CASE r # s
    <3>1. tool'[r] = tool[r]
      BY <1>2, <2>4
    <3>2. \A z \in Session :
             tool'[z].step = "saving" /\ tool'[z].patch = tool'[r].patch => z # s
      BY <1>2, <2>1, <3>1
    <3> QED
      BY <1>2, <1>4, <3>1, <3>2 DEF RecordInv, CallsFresh
  <2> QED
    BY <2>3, <2>4
<1> QED
  BY <1>3, <1>5, <1>6 DEF RecordInv

LEMMA ToolInv ==
    ASSUME RecordInv, NEW s \in Session, UNCHANGED <<sessionVars, rewindVars>>,
           ToolCall(s) \/ ToolCreate(s) \/ ApplyNoBackup(s) \/ ApplyPatch(s)
             \/ ApplyMisfits(s) \/ ApplyFailed(s)
    PROVE  RecordInv'
<1> USE DEF sessionVars
<1>1. IsSeq(backups) /\ ToolValue(NoTool) /\ NoTool.step # "saving" /\ Len(backups) \in Nat
  BY AppendAny DEF RecordInv, RecordType, ToolValue, NoTool
<1>2. CASE ToolCall(s)
  <2>1. PICK step, kind, f, old, new :
            /\ step \in {"create", "apply"}
            /\ tool' = [tool EXCEPT ![s] = [step |-> step, kind |-> kind, file |-> f,
                                            old |-> old, new |-> new, patch |-> 0]]
    BY <1>2 DEF ToolCall, ToolRead, ToolReadSame
  <2> DEFINE v == [step |-> step, kind |-> kind, file |-> f,
                   old |-> old, new |-> new, patch |-> 0]
  <2>2. ToolValue(v) /\ v.step # "saving"
    BY <2>1 DEF ToolValue
  <2>3. tool' = [tool EXCEPT ![s] = v]
    BY <2>1
  <2>4. UNCHANGED <<changes, saves, checkpoints, edits, lost, backups>>
    BY <1>2 DEF ToolCall, ToolRead, ToolReadSame
  <2> HIDE DEF v
  <2>5. IsSeq(backups') /\ Len(backups') = Len(backups) /\ Len(backups) <= Len(backups)
    BY <1>1, <2>4
  <2> QED
    BY <1>1, <2>2, <2>3, <2>4, <2>5, CallInv
<1>3. CASE ToolCreate(s) \/ ApplyNoBackup(s) \/ ApplyFailed(s)
  <2>1. /\ tool' = [tool EXCEPT ![s] = NoTool]
        /\ UNCHANGED <<changes, saves, checkpoints, edits, lost, backups>>
    BY <1>3 DEF ToolCreate, ApplyNoBackup, ApplyFailed, ToolReturns
  <2>2. IsSeq(backups') /\ Len(backups') = Len(backups) /\ Len(backups) <= Len(backups)
    BY <1>1, <2>1
  <2> QED
    BY <1>1, <2>1, <2>2, CallInv
<1>4. ASSUME BackupMade(s)
      PROVE  IsSeq(backups') /\ Len(backups') = Len(backups) + 1
  <2>1. PICK b : backups' = Append(backups, b)
    BY <1>4 DEF BackupMade, Backup
  <2> QED
    BY <1>1, <2>1, AppendAny
<1>5. CASE ApplyMisfits(s)
  <2>1. /\ tool' = [tool EXCEPT ![s] = NoTool]
        /\ UNCHANGED <<changes, saves, checkpoints, edits, lost>>
    BY <1>5 DEF ApplyMisfits, ToolReturns
  <2>2. IsSeq(backups') /\ Len(backups') = Len(backups) + 1
    BY <1>4, <1>5 DEF ApplyMisfits
  <2>3. Len(backups') \in Nat /\ Len(backups) <= Len(backups')
    BY <1>1, <2>2
  <2> QED
    BY <1>1, <2>1, <2>2, <2>3, CallInv
<1>6. CASE ApplyPatch(s)
  <2> DEFINE v == [tool[s] EXCEPT !.step = "saving", !.patch = Len(backups) + 1]
  <2>1. tool' = [tool EXCEPT ![s] = v]
        /\ UNCHANGED <<changes, saves, checkpoints, edits, lost>>
    BY <1>6 DEF ApplyPatch
  <2>2. IsSeq(backups') /\ Len(backups') = Len(backups) + 1
    BY <1>4, <1>6 DEF ApplyPatch
  <2>3. ToolValue(v) /\ v.step = "saving" /\ v.patch = Len(backups) + 1
    <3>1. tool[s] # NoTool /\ ToolValue(tool[s])
      BY <1>6 DEF ApplyPatch, NoTool, RecordInv, RecordType
    <3>2. tool[s] \in [step : {"create", "apply", "saving"}, kind : {tool[s].kind},
                       file : {tool[s].file}, old : {tool[s].old}, new : {tool[s].new},
                       patch : Nat]
      BY <3>1 DEF ToolValue
    <3>3. Len(backups) + 1 \in Nat
      BY <1>1
    <3>4. /\ v \in [step : {"create", "apply", "saving"}, kind : {tool[s].kind},
                    file : {tool[s].file}, old : {tool[s].old}, new : {tool[s].new},
                    patch : Nat]
          /\ v.kind = tool[s].kind /\ v.file = tool[s].file /\ v.old = tool[s].old
          /\ v.new = tool[s].new /\ v.step = "saving" /\ v.patch = Len(backups) + 1
      BY <3>2, <3>3
    <3> HIDE DEF v
    <3> QED
      BY <3>4 DEF ToolValue
  <2> HIDE DEF v
  <2>4. v.patch \in (Len(backups) + 1)..Len(backups')
    BY <1>1, <2>2, <2>3
  <2>5. Len(backups') \in Nat /\ Len(backups) <= Len(backups')
    BY <1>1, <2>2
  <2> QED
    BY <1>1, <2>1, <2>2, <2>3, <2>4, <2>5, CallInv
<1> QED
  BY <1>2, <1>3, <1>5, <1>6

\* The change of a call is listed.
LEMMA ApplyRecordInv ==
    ASSUME RecordInv, NEW s \in Session, ApplyRecord(s), UNCHANGED <<sessionVars, rewindVars>>
    PROVE  RecordInv'
<1> DEFINE p == tool[s].patch
<1>1. /\ tool[s].step = "saving" /\ changes' = Append(changes, p)
      /\ edits' \subseteq edits \union {p}
      /\ tool' = [tool EXCEPT ![s] = NoTool]
      /\ UNCHANGED <<saves, checkpoints, lost, backups>>
  BY DEF ApplyRecord, ToolReturns, sessionVars
<1>2. p \in 1..Len(backups) /\ ~ListedIn(Record, p) /\ changes \in Seq(Nat)
  BY <1>1 DEF RecordInv, CallsFresh, RecordType
<1>3. Len(backups) \in Nat /\ p \in Nat
  BY <1>2, AppendAny DEF RecordInv, RecordType
<1>4. \A r \in Session : tool'[r] = IF r = s THEN NoTool ELSE tool[r]
  BY <1>1 DEF RecordInv, RecordType
<1> HIDE DEF p
<1>5. /\ Record[Tracker] = changes /\ Tracker \in Places
      /\ Record'[Tracker] = Append(changes, p)
      /\ \A x \in Places : x # Tracker => Record'[x] = Record[x]
  BY <1>1 DEF Record, Places, InFlight
<1>6. /\ \A r : ListedIn(Record', r) <=> ListedIn(Record, r) \/ r = p
      /\ DistinctIn(Record')
  BY <1>2, <1>3, <1>5, Listed DEF RecordInv
<1>7. RecordType'
  <2>1. changes' \in Seq(Nat)
    BY <1>1, <1>2, <1>3
  <2> QED
    BY <1>1, <1>4, <2>1 DEF RecordInv, RecordType, ToolValue
<1>8. ListedBackedUp'
  BY <1>1, <1>2, <1>6 DEF RecordInv, ListedBackedUp
<1>9. CallsFresh'
  <2>1. NoTool.step # "saving"
    BY DEF NoTool
  <2> QED
    BY <1>1, <1>4, <1>6, <2>1 DEF RecordInv, CallsFresh, p
<1>10. EditsListed'
  BY <1>1, <1>6 DEF RecordInv, EditsListed
<1> QED
  BY <1>6, <1>7, <1>8, <1>9, <1>10 DEF RecordInv

-----------------------------------------------------------------------------
\* Steps that move changes.

LEMMA MoveInv ==
    ASSUME RecordInv, RecordType', DistinctIn(Record'),
           \A p : ListedIn(Record', p) => ListedIn(Record, p),
           \A p : ListedIn(Record, p) => ListedIn(Record', p) \/ p \in lost',
           lost \subseteq lost', UNCHANGED <<backups, tool, edits>>
    PROVE  RecordInv'
<1>1. ListedBackedUp'
  BY DEF RecordInv, ListedBackedUp
<1>2. CallsFresh'
  BY DEF RecordInv, CallsFresh
<1>3. EditsListed'
  BY DEF RecordInv, EditsListed
<1> QED
  BY <1>1, <1>2, <1>3 DEF RecordInv

LEMMA TakeInv ==
    ASSUME RecordInv, NEW s \in Session, CheckpointTake(s)
    PROVE  RecordInv'
<1> DEFINE place == <<s, 0>>
           v == [step |-> "state", state |-> memory[s], changes |-> changes,
                 was |-> files, at |-> Len(history)]
<1>1. /\ saves[s] = NoSave /\ saves' = [saves EXCEPT ![s] = v] /\ changes' = <<>>
      /\ UNCHANGED <<checkpoints, lost, backups, tool, edits>>
  BY DEF CheckpointTake, Free, Snapshot
<1>2. SaveValue(v) /\ v.step = "state" /\ v.changes = changes
  BY DEF SaveValue
<1> HIDE DEF v
<1>3. \A r \in Session : saves'[r] = IF r = s THEN v ELSE saves[r]
  BY <1>1 DEF RecordInv, RecordType
<1>4. RecordType'
  BY <1>1, <1>2, <1>3 DEF RecordInv, RecordType
<1>5. /\ Tracker \in Places /\ place \in Places /\ Tracker # place
      /\ Record[place] = <<>>
      /\ Record'[Tracker] = <<>> /\ Record'[place] = Record[Tracker]
      /\ \A x \in Places : x # Tracker /\ x # place => Record'[x] = Record[x]
  <2>1. Tracker \in Places /\ place \in Places /\ Tracker # place
    BY DEF Tracker, Places
  <2>2. Record[place] = InFlight(s) /\ Record'[place] = InFlight(s)'
    BY <2>1 DEF Record
  <2>3. InFlight(s) = <<>> /\ InFlight(s)' = changes
    BY <1>1, <1>2, <1>3 DEF InFlight, NoSave
  <2>4. Record'[Tracker] = <<>> /\ Record[Tracker] = changes
    BY <1>1, <2>1 DEF Record
  <2>5. ASSUME NEW x \in Places, x # Tracker, x # place
        PROVE  Record'[x] = Record[x]
    <3>1. x = <<x[1], x[2]>> /\ x[1] \in Session
      BY <2>5 DEF Places
    <3>2. x[2] = 0 => x[1] # s
      BY <2>5, <3>1
    <3>3. x[2] = 0 => InFlight(x[1])' = InFlight(x[1])
      BY <1>3, <3>1, <3>2 DEF InFlight
    <3> QED
      BY <1>1, <2>5, <3>3 DEF Record
  <2> QED
    BY <2>1, <2>2, <2>3, <2>4, <2>5
<1>6. /\ \A p : ListedIn(Record', p) <=> ListedIn(Record, p)
      /\ DistinctIn(Record')
  BY <1>5, Moved DEF RecordInv
<1> QED
  BY <1>1, <1>4, <1>6, MoveInv

LEMMA SaveStateInv ==
    ASSUME RecordInv, NEW s \in Session, CheckpointSaveState(s)
    PROVE  RecordInv'
<1> USE DEF engineVars
<1> DEFINE v == [saves[s] EXCEPT !.step = "file"]
<1>1. /\ saves[s].step = "state" /\ saves' = [saves EXCEPT ![s] = v]
      /\ UNCHANGED <<changes, checkpoints, lost, backups, tool, edits>>
  BY DEF CheckpointSaveState
<1>2. SaveValue(saves[s]) /\ saves[s] # NoSave
  BY <1>1 DEF RecordInv, RecordType, NoSave
<1>3. SaveValue(v) /\ v.step = "file" /\ v.changes = saves[s].changes
  BY <1>2 DEF SaveValue
<1> HIDE DEF v
<1>4. \A r \in Session : saves'[r] = IF r = s THEN v ELSE saves[r]
  BY <1>1 DEF RecordInv, RecordType
<1>5. RecordType'
  BY <1>1, <1>3, <1>4 DEF RecordInv, RecordType
<1>6. \A r \in Session : InFlight(r)' = InFlight(r)
  BY <1>1, <1>3, <1>4 DEF InFlight
<1>7. Record' = Record
  BY <1>1, <1>6 DEF Record, Places
<1> QED
  BY <1>1, <1>5, <1>7, MoveInv DEF RecordInv

LEMMA SaveInv ==
    ASSUME RecordInv, NEW s \in Session, CheckpointSave(s)
    PROVE  RecordInv'
<1> USE DEF engineVars
<1> DEFINE n == Len(checkpoints[s]) + 1
           from == <<s, 0>>
           to == <<s, n>>
<1>1. /\ saves[s].step = "file" /\ saves' = [saves EXCEPT ![s] = NoSave]
      /\ checkpoints' = [checkpoints EXCEPT ![s] = Append(checkpoints[s], saves[s])]
      /\ UNCHANGED <<changes, lost, backups, tool, edits>>
  BY DEF CheckpointSave, NotSavingCheckpoint
<1>2. /\ \A r \in Session : saves'[r] = IF r = s THEN NoSave ELSE saves[r]
      /\ \A r \in Session : checkpoints'[r] = IF r = s THEN Append(checkpoints[s], saves[s])
                                                    ELSE checkpoints[r]
  BY <1>1 DEF RecordInv, RecordType
<1>3. /\ IsSeq(checkpoints'[s]) /\ n \in Nat /\ n # 0
      /\ DOMAIN checkpoints[s] = 1..(n - 1) /\ DOMAIN checkpoints'[s] = 1..n
      /\ checkpoints'[s][n] = saves[s]
      /\ \A i \in 1..(n - 1) : checkpoints'[s][i] = checkpoints[s][i]
  <2> DEFINE q == checkpoints[s]
  <2>1. IsSeq(q) /\ checkpoints'[s] = Append(q, saves[s])
    BY <1>2 DEF RecordInv, RecordType
  <2> HIDE DEF q
  <2>2. /\ IsSeq(Append(q, saves[s]))
        /\ Len(q) \in Nat /\ DOMAIN q = 1..Len(q)
        /\ DOMAIN Append(q, saves[s]) = 1..(Len(q) + 1)
        /\ Append(q, saves[s])[Len(q) + 1] = saves[s]
        /\ \A i \in DOMAIN q : Append(q, saves[s])[i] = q[i]
    BY <2>1, AppendAny
  <2>3. n = Len(q) + 1 /\ q = checkpoints[s]
    BY DEF q
  <2> HIDE DEF n
  <2>4. n \in Nat /\ n # 0 /\ n - 1 = Len(q)
    BY <2>2, <2>3
  <2> QED
    BY <2>1, <2>2, <2>3, <2>4
<1> HIDE DEF n
<1>4. RecordType'
  BY <1>1, <1>2, <1>3 DEF RecordInv, RecordType, SaveValue
<1>5. /\ from \in Places /\ to \in Places /\ from # to
      /\ Record[to] = <<>>
      /\ Record'[from] = <<>> /\ Record'[to] = Record[from]
      /\ \A x \in Places : x # from /\ x # to => Record'[x] = Record[x]
  <2>1. from \in Places /\ to \in Places /\ from # to /\ from # Tracker /\ to # Tracker
    BY <1>3 DEF Places, Tracker
  <2>2. Record[from] = saves[s].changes /\ Record'[from] = <<>>
    <3>1. InFlight(s) = saves[s].changes /\ InFlight(s)' = <<>>
      BY <1>1, <1>2 DEF InFlight, NoSave
    <3> QED
      BY <2>1, <3>1 DEF Record
  <2>3. Record[to] = <<>> /\ Record'[to] = saves[s].changes
    <3>1. n \notin DOMAIN checkpoints[s] /\ n \in DOMAIN checkpoints'[s]
      BY <1>3
    <3> QED
      BY <1>3, <2>1, <3>1 DEF Record
  <2>4. ASSUME NEW x \in Places, x # from, x # to
        PROVE  Record'[x] = Record[x]
    <3>1. CASE x = Tracker
      BY <1>1, <3>1 DEF Record
    <3>2. CASE x # Tracker
      <4>1. x = <<x[1], x[2]>> /\ x[1] \in Session /\ x[2] \in Nat
        BY <3>2 DEF Places
      <4>2. CASE x[2] = 0
        <5>1. x[1] # s
          BY <2>4, <4>1, <4>2
        <5>2. InFlight(x[1])' = InFlight(x[1])
          BY <1>2, <4>1, <5>1 DEF InFlight
        <5> QED
          BY <3>2, <4>2, <5>2 DEF Record
      <4>3. CASE x[2] # 0 /\ x[1] # s
        BY <1>2, <3>2, <4>1, <4>3 DEF Record
      <4>4. CASE x[2] # 0 /\ x[1] = s
        <5>1. x[2] # n
          BY <2>4, <4>1, <4>4
        <5>2. x[2] \in DOMAIN checkpoints'[s] <=> x[2] \in DOMAIN checkpoints[s]
          BY <1>3, <4>1, <5>1
        <5>3. x[2] \in DOMAIN checkpoints[s] => checkpoints'[s][x[2]] = checkpoints[s][x[2]]
          BY <1>3
        <5> QED
          BY <3>2, <4>4, <5>2, <5>3 DEF Record
      <4> QED
        BY <4>2, <4>3, <4>4
    <3> QED
      BY <3>1, <3>2
  <2> QED
    BY <2>1, <2>2, <2>3, <2>4
<1>6. /\ \A p : ListedIn(Record', p) <=> ListedIn(Record, p)
      /\ DistinctIn(Record')
  BY <1>5, Moved DEF RecordInv
<1> QED
  BY <1>1, <1>4, <1>6, MoveInv

LEMMA FailsInv ==
    ASSUME RecordInv, NEW s \in Session, CheckpointFails(s)
    PROVE  RecordInv'
<1> DEFINE from == <<s, 0>>
<1>1. /\ saves[s].step \in {"state", "file"} /\ saves' = [saves EXCEPT ![s] = NoSave]
      /\ lost' = lost \union ToSet(saves[s].changes)
      /\ UNCHANGED <<changes, checkpoints, backups, tool, edits>>
  BY DEF CheckpointFails, NotSavingCheckpoint
<1>2. \A r \in Session : saves'[r] = IF r = s THEN NoSave ELSE saves[r]
  BY <1>1 DEF RecordInv, RecordType
<1>3. RecordType'
  BY <1>1, <1>2 DEF RecordInv, RecordType, SaveValue
<1>4. /\ from \in Places /\ Record'[from] = <<>>
      /\ Record[from] = saves[s].changes
      /\ \A x \in Places : x # from => Record'[x] = Record[x]
  <2>1. from \in Places /\ from # Tracker
    BY DEF Places, Tracker
  <2>2. InFlight(s) = saves[s].changes /\ InFlight(s)' = <<>>
    BY <1>1, <1>2 DEF InFlight, NoSave
  <2>3. ASSUME NEW x \in Places, x # from
        PROVE  Record'[x] = Record[x]
    <3>1. x # Tracker => x = <<x[1], x[2]>> /\ x[1] \in Session
      BY DEF Places
    <3>2. x # Tracker /\ x[2] = 0 => InFlight(x[1])' = InFlight(x[1])
      BY <1>2, <2>3, <3>1 DEF InFlight
    <3> QED
      BY <1>1, <3>2 DEF Record
  <2> QED
    BY <2>1, <2>2, <2>3 DEF Record
<1>5. /\ \A p : ListedIn(Record', p) => ListedIn(Record, p)
      /\ \A p : ListedIn(Record, p) =>
           ListedIn(Record', p) \/ \E i \in DOMAIN Record[from] : Record[from][i] = p
      /\ DistinctIn(Record')
  BY <1>4, Dropped DEF RecordInv
<1>6. \A p : (\E i \in DOMAIN Record[from] : Record[from][i] = p) => p \in lost'
  BY <1>1, <1>4 DEF ToSet
<1>7. \A p : ListedIn(Record, p) => ListedIn(Record', p) \/ p \in lost'
  BY <1>5, <1>6
<1> QED
  BY <1>1, <1>3, <1>5, <1>7, MoveInv

-----------------------------------------------------------------------------
\* The invariant.

LEMMA InitRecordInv == Init => RecordInv
<1> SUFFICES ASSUME Init PROVE RecordInv
  OBVIOUS
<1>1. /\ changes = <<>> /\ backups = <<>> /\ edits = {}
      /\ tool = [s \in Session |-> NoTool] /\ saves = [s \in Session |-> NoSave]
      /\ checkpoints = [s \in Session |-> <<>>]
  BY DEF Init, EngineInit
<1>2. IsSeq(<<>>)
  BY DEF IsSeq
<1>3. RecordType
  BY <1>1, <1>2 DEF RecordType, ToolValue, SaveValue
<1>4. \A x \in Places : Record[x] = <<>>
  <2> SUFFICES ASSUME NEW x \in Places PROVE Record[x] = <<>>
    OBVIOUS
  <2>1. x # Tracker => x[1] \in Session
    BY DEF Places
  <2>2. \A s \in Session : InFlight(s) = <<>>
    BY <1>1 DEF InFlight, NoSave
  <2> QED
    BY <1>1, <2>1, <2>2 DEF Record
<1>5. ListedBackedUp /\ DistinctIn(Record)
  BY <1>4 DEF ListedBackedUp, DistinctIn, ListedIn
<1>6. CallsFresh /\ EditsListed
  BY <1>1 DEF CallsFresh, EditsListed, NoTool
<1> QED
  BY <1>3, <1>5, <1>6 DEF RecordInv

LEMMA NextRecordInv == RecordInv /\ [Next]_vars => RecordInv'
<1> SUFFICES ASSUME RecordInv, [Next]_vars PROVE RecordInv'
  OBVIOUS
<1> USE DEF sessionVars, engineVars, fileVars
<1>1. ASSUME NEW f \in File, Outside(f), UNCHANGED <<sessionVars, rewindVars>>
      PROVE  RecordInv'
  BY <1>1, QuietInv DEF Outside
<1>2. ASSUME NEW s \in Session, Message(s) PROVE RecordInv'
  BY <1>2, QuietInv DEF Message
<1>3. ASSUME NEW s \in Session, Loop(s) PROVE RecordInv'
  <2>1. CASE Recover(s)
    BY <2>1, QuietInv DEF Recover
  <2>2. CASE RunTool(s)
    <3>1. CASE WriteFile(Tool(s))
      <4>1. UNCHANGED <<changes, edits, backups, tool>>
        BY <3>1 DEF WriteFile, SaveTemp, SaveTempFails, SaveRename, SaveRenameFails, SaveRemove
      <4> QED
        BY <2>2, <4>1, QuietInv DEF RunTool
    <3>2. CASE ApplyRecord(s)
      BY <2>2, <3>2, ApplyRecordInv DEF RunTool
    <3>3. CASE ~WriteFile(Tool(s)) /\ ~ApplyRecord(s)
      BY <2>2, <3>3, ToolInv DEF RunTool, ToolStep
    <3> QED
      BY <3>1, <3>2, <3>3
  <2>3. CASE CheckpointTake(s)
    BY <2>3, TakeInv
  <2>4. CASE CheckpointSaveState(s)
    BY <2>4, SaveStateInv
  <2>5. CASE CheckpointSave(s)
    BY <2>5, SaveInv
  <2>6. CASE CheckpointFails(s)
    BY <2>6, FailsInv
  <2> QED
    BY <1>3, <2>1, <2>2, <2>3, <2>4, <2>5, <2>6 DEF Loop
<1>4. ASSUME NEW s \in Session, RewindStep(s) PROVE RecordInv'
  <2>1. CASE RollbackSaves(s)
    <3>1. UNCHANGED <<changes, edits, backups, tool, saves, checkpoints, lost>>
      BY <2>1 DEF RollbackSaves, WriteFile, SaveTemp, SaveTempFails, SaveRename,
                  SaveRenameFails, SaveRemove
    <3> QED
      BY <3>1, QuietInv
  <2>2. CASE RewindStart(s) \/ Rollback(s) \/ RollbackReturns(s)
    BY <2>2, QuietInv DEF RewindStart, Rollback, RollbackReturns
  <2>3. CASE RewindCodeFails(s) \/ RewindSucceeds(s) \/ RewindConversationFails(s)
    BY <2>3, QuietInv DEF RewindCodeFails, RewindSucceeds, RewindCode, RewindConversation,
                          RewindConversationFails
  <2> QED
    BY <1>4, <2>1, <2>2, <2>3 DEF RewindStep
<1>5. CASE UNCHANGED vars
  BY <1>5, QuietInv DEF vars
<1> QED
  BY <1>1, <1>2, <1>3, <1>4, <1>5 DEF Next

THEOREM RecordInvariant == Spec => []RecordInv
BY InitRecordInv, NextRecordInv, PTL DEF Spec

-----------------------------------------------------------------------------
\* A home of a change is a place and a position there.
LEMMA HomesArePlaces ==
    ASSUME RecordInv, NEW p
    PROVE  /\ \A h \in Homes(p) : \E x \in Places : \E i \in DOMAIN Record[x] :
                /\ Record[x][i] = p
                /\ h = IF x = Tracker THEN <<"tracker", i>> ELSE <<x[1], x[2], i>>
           /\ \A x \in Places : \A i \in DOMAIN Record[x] :
                Record[x][i] = p => Homes(p) # {}
<1> DEFINE inTracker == {<<"tracker", i>> : i \in {j \in DOMAIN changes : changes[j] = p}}
           inSave(s) == {<<s, 0, i>> : i \in {j \in DOMAIN InFlight(s) : InFlight(s)[j] = p}}
           inFile(s, k) == {<<s, k, i>> : i \in {j \in DOMAIN checkpoints[s][k].changes :
                                                   checkpoints[s][k].changes[j] = p}}
           inFiles(s) == UNION {inFile(s, k) : k \in DOMAIN checkpoints[s]}
<1> DEFINE inSaves == UNION {inSave(s) : s \in Session}
           inAllFiles == UNION {inFiles(s) : s \in Session}
<1>0. \A h : h \in Homes(p) <=>
         \/ h \in inTracker
         \/ \E s \in Session : h \in inSave(s)
         \/ \E s \in Session : \E k \in DOMAIN checkpoints[s] : h \in inFile(s, k)
  <2>1. Homes(p) = inTracker \union inSaves \union inAllFiles
    BY Zenon DEF Homes
  <2>2. \A s, h : h \in inFiles(s) <=> \E k \in DOMAIN checkpoints[s] : h \in inFile(s, k)
    <3> HIDE DEF inFile
    <3> QED
      BY Zenon
  <2> HIDE DEF inTracker, inSave, inFiles, inFile
  <2>3. \A h : h \in inSaves <=> \E s \in Session : h \in inSave(s)
    BY Zenon
  <2>4. \A h : h \in inAllFiles <=> \E s \in Session : h \in inFiles(s)
    BY Zenon
  <2> HIDE DEF inSaves, inAllFiles
  <2>5. \A h : h \in Homes(p) <=> h \in inTracker \/ h \in inSaves \/ h \in inAllFiles
    BY <2>1
  <2> QED
    BY Zenon, <2>2, <2>3, <2>4, <2>5
<1> HIDE DEF inSaves, inAllFiles
<1> HIDE DEF inFiles
<1>1. Tracker \in Places /\ Record[Tracker] = changes
  BY DEF Places, Record
<1>2. \A s \in Session : <<s, 0>> \in Places /\ <<s, 0>> # Tracker
                         /\ Record[<<s, 0>>] = InFlight(s)
  BY DEF Places, Record, Tracker
<1>3. ASSUME NEW s \in Session, NEW k \in DOMAIN checkpoints[s]
      PROVE  /\ <<s, k>> \in Places /\ <<s, k>> # Tracker
             /\ Record[<<s, k>>] = checkpoints[s][k].changes
  <2>1. k \in Nat /\ k # 0
    BY <1>3, AppendAny DEF RecordInv, RecordType
  <2> QED
    BY <1>3, <2>1 DEF Places, Record, Tracker
<1>4. ASSUME NEW h \in Homes(p)
      PROVE  \E x \in Places : \E i \in DOMAIN Record[x] :
                /\ Record[x][i] = p
                /\ h = IF x = Tracker THEN <<"tracker", i>> ELSE <<x[1], x[2], i>>
  <2>1. CASE h \in inTracker
    BY <1>1, <2>1
  <2>2. ASSUME NEW s \in Session, h \in inSave(s)
        PROVE  \E i \in DOMAIN InFlight(s) : InFlight(s)[i] = p /\ h = <<s, 0, i>>
    BY <2>2
  <2>3. ASSUME NEW s \in Session, NEW k \in DOMAIN checkpoints[s], h \in inFile(s, k)
        PROVE  \E i \in DOMAIN checkpoints[s][k].changes :
                  checkpoints[s][k].changes[i] = p /\ h = <<s, k, i>>
    BY <2>3
  <2> HIDE DEF inTracker, inSave, inFile
  <2>4. CASE \E s \in Session : h \in inSave(s)
    BY <1>2, <2>2, <2>4
  <2>5. CASE \E s \in Session : \E k \in DOMAIN checkpoints[s] : h \in inFile(s, k)
    BY <1>3, <2>3, <2>5
  <2> QED
    BY <1>0, <1>4, <2>1, <2>4, <2>5
<1>5. ASSUME NEW x \in Places, NEW i \in DOMAIN Record[x], Record[x][i] = p
      PROVE  Homes(p) # {}
  <2>1. CASE x = Tracker
    <3>1. <<"tracker", i>> \in inTracker
      BY <1>1, <1>5, <2>1
    <3> QED
      BY <1>0, <3>1
  <2>2. CASE x # Tracker
    <3> DEFINE s == x[1]
               k == x[2]
    <3>1. s \in Session /\ k \in Nat
      BY <2>2 DEF Places
    <3>2. CASE k = 0
      <4>1. i \in DOMAIN InFlight(s) /\ InFlight(s)[i] = p
        BY <1>5, <2>2, <3>2 DEF Record
      <4>2. <<s, 0, i>> \in inSave(s)
        BY <4>1
      <4> HIDE DEF inSave, s, k
      <4> QED
        BY <1>0, <3>1, <4>2
    <3>3. CASE k # 0 /\ k \in DOMAIN checkpoints[s]
      <4>1. /\ i \in DOMAIN checkpoints[s][k].changes
            /\ checkpoints[s][k].changes[i] = p
        BY <1>5, <2>2, <3>3 DEF Record
      <4>2. <<s, k, i>> \in inFile(s, k)
        BY <4>1
      <4> HIDE DEF inFile, s, k
      <4> QED
        BY <1>0, <3>1, <3>3, <4>2
    <3>4. CASE k # 0 /\ k \notin DOMAIN checkpoints[s]
      BY <1>5, <2>2, <3>4 DEF Record
    <3> QED
      BY <3>2, <3>3, <3>4
  <2> QED
    BY <2>1, <2>2
<1> QED
  BY <1>4, <1>5

\* An edit that edit_file reported stays on record or its checkpoint was lost
\* (EditsOnRecord), for any sessions, files and bounds.
THEOREM EditsStayOnRecord == Spec => []EditsOnRecord
<1>1. RecordInv => EditsOnRecord
  <2> SUFFICES ASSUME RecordInv, NEW p \in edits, p \notin lost
               PROVE  Homes(p) # {}
    BY DEF EditsOnRecord
  <2>1. ListedIn(Record, p)
    BY DEF RecordInv, EditsListed
  <2> QED
    BY <2>1, HomesArePlaces DEF ListedIn
<1> QED
  BY <1>1, RecordInvariant, PTL

\* No rewind meets a change twice: it is listed in one place, once
\* (OnRecordOnce), for any sessions, files and bounds.
THEOREM RecordedOnce == Spec => []OnRecordOnce
<1>1. RecordInv => OnRecordOnce
  <2> SUFFICES ASSUME RecordInv, NEW p
               PROVE  Cardinality(Homes(p)) <= 1
    BY DEF OnRecordOnce
  <2>1. \A g, h \in Homes(p) : g = h
    <3> SUFFICES ASSUME NEW g \in Homes(p), NEW h \in Homes(p) PROVE g = h
      OBVIOUS
    <3>1. PICK x \in Places : \E k \in DOMAIN Record[x] :
              /\ Record[x][k] = p
              /\ g = IF x = Tracker THEN <<"tracker", k>> ELSE <<x[1], x[2], k>>
      BY HomesArePlaces
    <3>2. PICK y \in Places : \E k \in DOMAIN Record[y] :
              /\ Record[y][k] = p
              /\ h = IF y = Tracker THEN <<"tracker", k>> ELSE <<y[1], y[2], k>>
      BY HomesArePlaces
    <3>3. PICK i \in DOMAIN Record[x] :
              /\ Record[x][i] = p
              /\ g = IF x = Tracker THEN <<"tracker", i>> ELSE <<x[1], x[2], i>>
      BY <3>1
    <3>4. PICK j \in DOMAIN Record[y] :
              /\ Record[y][j] = p
              /\ h = IF y = Tracker THEN <<"tracker", j>> ELSE <<y[1], y[2], j>>
      BY <3>2
    <3>5. x = y /\ i = j
      BY <3>3, <3>4 DEF RecordInv, DistinctIn
    <3> QED
      BY <3>3, <3>4, <3>5
  <2>2. Homes(p) = {} \/ \E h : Homes(p) = {h}
    BY <2>1
  <2>3. Cardinality(Homes(p)) \in {0, 1}
    BY <2>2, FS_EmptySet, FS_Singleton
  <2> QED
    BY <2>3
<1> QED
  BY <1>1, RecordInvariant, PTL

-----------------------------------------------------------------------------
\* What sequences of sequences are made of.

LEMMA LeastNatural ==
    ASSUME NEW S \in SUBSET Nat, S # {}
    PROVE  \E x \in S : \A y \in S : x <= y
<1>1. PICK x \in S : \A y \in S : ~(<<y, x>> \in OpToRel(<, Nat))
  BY WFMin, NatLessThanWellFounded
<1>2. x \in Nat /\ \A y \in S : y \in Nat /\ ~(y < x)
  BY <1>1 DEF OpToRel
<1>3. \A y \in S : x <= y
  BY ONLY <1>2
<1> QED
  BY <1>1, <1>3

LEMMA WiderSeq ==
    ASSUME NEW S, NEW T, S \subseteq T, NEW q \in Seq(S)
    PROVE  q \in Seq(T)
<1>1. \A i \in 1..Len(q) : q[i] \in T
  OBVIOUS
<1> QED
  BY <1>1

LEMMA ConcatType ==
    ASSUME NEW T, NEW q \in Seq(T), NEW r \in Seq(T)
    PROVE  q \o r \in Seq(T)
OBVIOUS

\* FlattenSeq has a value for every sequence of sequences, made step by step.
LEMMA FlattenSteps ==
    ASSUME NEW T, NEW seqs \in Seq(Seq(T)), Len(seqs) # 0
    PROVE  \E f : /\ FlattenSeq(seqs) = f[Len(seqs)]
                  /\ \A i \in 1..Len(seqs) :
                       /\ f[i] \in Seq(T)
                       /\ f[i] = IF i = 1 THEN seqs[1] ELSE f[i - 1] \o seqs[i]
<1> DEFINE F(f, i) == IF i = 1 THEN seqs[i] ELSE f[i - 1] \o seqs[i]
           Joins(f, n) == f = [i \in 1..n |-> F(f, i)]
           Typed(f, n) == \A i \in 1..n : f[i] \in Seq(T)
           Bad == {n \in Nat : n <= Len(seqs) /\ ~\E f : Joins(f, n)}
<1>1. Len(seqs) \in Nat /\ \A i \in 1..Len(seqs) : seqs[i] \in Seq(T)
  OBVIOUS
<1>2. Bad = {}
  <2> SUFFICES ASSUME Bad # {} PROVE FALSE
    OBVIOUS
  <2>1. PICK n \in Bad : \A m \in Bad : n <= m
    BY LeastNatural
  <2>2. n \in Nat /\ n <= Len(seqs) /\ ~\E f : Joins(f, n)
    BY <2>1
  <2>3. n # 0
    <3>1. Joins(<<>>, 0)
      OBVIOUS
    <3> QED
      BY <2>2, <3>1
  <2>4. n - 1 \in Nat /\ n - 1 <= Len(seqs) /\ n - 1 \notin Bad
    <3>1. n - 1 \in Nat /\ n - 1 <= Len(seqs) /\ ~(n <= n - 1)
      BY <1>1, <2>2, <2>3
    <3> HIDE DEF Bad
    <3> QED
      BY <2>1, <3>1
  <2>5. PICK f : Joins(f, n - 1)
    <3> HIDE DEF Joins
    <3> QED
      BY <2>4
  <2> DEFINE g == [i \in 1..n |-> F(f, i)]
  <2>6. \A i \in 1..n : F(g, i) = F(f, i)
    <3> SUFFICES ASSUME NEW i \in 1..n PROVE F(g, i) = F(f, i)
      OBVIOUS
    <3>1. CASE i = 1
      BY <3>1
    <3>2. CASE i # 1
      <4>1. i - 1 \in 1..n /\ i - 1 \in 1..(n - 1)
        BY <2>2, <3>2
      <4>2. g[i - 1] = F(f, i - 1)
        BY <4>1
      <4>3. f[i - 1] = F(f, i - 1)
        BY <2>5, <4>1
      <4>4. g[i - 1] = f[i - 1]
        BY <4>2, <4>3
      <4> HIDE DEF g
      <4> QED
        BY <4>4
    <3> QED
      BY <3>1, <3>2
  <2>7. Joins(g, n)
    BY <2>6
  <2> QED
    BY <2>2, <2>7
<1>3. ASSUME NEW f, Joins(f, Len(seqs)) PROVE Typed(f, Len(seqs))
  <2> DEFINE Wrong == {i \in 1..Len(seqs) : f[i] \notin Seq(T)}
  <2>0. \A i \in 1..Len(seqs) : f[i] = F(f, i)
    BY <1>3
  <2>1. CASE Wrong # {}
    <3>1. Wrong \in SUBSET Nat
      BY <1>1
    <3>2. PICK i \in Wrong : \A j \in Wrong : i <= j
      BY <2>1, <3>1, LeastNatural
    <3>3. i \in 1..Len(seqs) /\ f[i] = F(f, i) /\ f[i] \notin Seq(T)
      BY <2>0, <3>2
    <3>4. i # 1
      BY <1>1, <3>3
    <3>5. i - 1 \in 1..Len(seqs) /\ i - 1 \notin Wrong
      <4>1. i - 1 \in 1..Len(seqs) /\ ~(i <= i - 1)
        BY <1>1, <3>3, <3>4
      <4> HIDE DEF Wrong
      <4> QED
        BY <3>2, <4>1
    <3>6. f[i - 1] \in Seq(T)
      BY <3>5
    <3>7. f[i] = f[i - 1] \o seqs[i]
      BY <3>3, <3>4
    <3> QED
      BY <1>1, <3>3, <3>6, <3>7, ConcatType
  <2> QED
    BY <2>1
<1> DEFINE flatten[i \in 1..Len(seqs)] ==
               IF i = 1 THEN seqs[i] ELSE flatten[i - 1] \o seqs[i]
<1>4. FlattenSeq(seqs) = flatten[Len(seqs)]
  BY DEF FlattenSeq
<1>5. flatten = CHOOSE f : Joins(f, Len(seqs))
  BY Zenon DEF flatten
<1>6. \E f : Joins(f, Len(seqs))
  <2>1. Len(seqs) \notin Bad
    BY <1>2
  <2> HIDE DEF Joins
  <2> QED
    BY <1>1, <2>1
<1> HIDE DEF flatten
<1>7. Joins(flatten, Len(seqs))
  <2> HIDE DEF Joins
  <2> QED
    BY <1>5, <1>6
<1>8. Typed(flatten, Len(seqs))
  BY <1>3, <1>7
<1>9. \A i \in 1..Len(seqs) :
         flatten[i] = IF i = 1 THEN seqs[1] ELSE flatten[i - 1] \o seqs[i]
  BY <1>7
<1> QED
  BY <1>4, <1>8, <1>9

\* The sequences of seqs one after another make a sequence of the same members.
LEMMA FlattenType ==
    ASSUME NEW T, NEW seqs \in Seq(Seq(T))
    PROVE  FlattenSeq(seqs) \in Seq(T)
<1>1. CASE Len(seqs) = 0
  BY <1>1 DEF FlattenSeq
<1>2. CASE Len(seqs) # 0
  <2>1. PICK f : /\ FlattenSeq(seqs) = f[Len(seqs)]
                 /\ \A i \in 1..Len(seqs) : f[i] \in Seq(T)
    BY <1>2, FlattenSteps
  <2> QED
    BY <1>2, <2>1
<1> QED
  BY <1>1, <1>2

\* A sequence read backwards has the same members.
LEMMA ReverseType ==
    ASSUME NEW T, NEW q \in Seq(T)
    PROVE  Reverse(q) \in Seq(T)
<1>1. \A i \in 1..Len(q) : (Len(q) - i) + 1 \in 1..Len(q)
  OBVIOUS
<1>2. \A i \in 1..Len(q) : q[(Len(q) - i) + 1] \in T
  BY <1>1
<1> QED
  BY <1>2 DEF Reverse

\* Nothing of q is in S, or the last of it that is, is v.
NoneOf(q, S) == \A i \in 1..Len(q) : q[i] \notin S

LastOf(q, S, v) ==
    /\ v \in S
    /\ \E i \in 1..Len(q) : q[i] = v /\ \A j \in (i + 1)..Len(q) : q[j] \notin S

LEMMA LastOfConcat ==
    ASSUME NEW T, NEW q \in Seq(T), NEW r \in Seq(T), NEW S, NEW v
    PROVE  /\ NoneOf(q, S) /\ NoneOf(r, S) => NoneOf(q \o r, S)
           /\ LastOf(q, S, v) /\ NoneOf(r, S) => LastOf(q \o r, S, v)
           /\ LastOf(r, S, v) => LastOf(q \o r, S, v)
<1> DEFINE c == q \o r
<1>1. /\ Len(q) \in Nat /\ Len(r) \in Nat /\ Len(c) = Len(q) + Len(r)
      /\ \A i \in 1..Len(q) : c[i] = q[i]
      /\ \A i \in 1..Len(r) : c[Len(q) + i] = r[i]
  OBVIOUS
<1> HIDE DEF c
<1>2. \A i \in 1..Len(c) : i \in 1..Len(q) \/ i - Len(q) \in 1..Len(r)
  BY <1>1
<1>3. \A i \in 1..Len(c) : i \notin 1..Len(q) => c[i] = r[i - Len(q)] /\ i - Len(q) \in 1..Len(r)
  <2> SUFFICES ASSUME NEW i \in 1..Len(c), i \notin 1..Len(q)
               PROVE  c[i] = r[i - Len(q)] /\ i - Len(q) \in 1..Len(r)
    OBVIOUS
  <2>1. i - Len(q) \in 1..Len(r) /\ Len(q) + (i - Len(q)) = i
    BY <1>1, <1>2
  <2> QED
    BY <1>1, <2>1
<1>4. ASSUME NoneOf(q, S), NoneOf(r, S) PROVE NoneOf(c, S)
  BY <1>1, <1>3, <1>4 DEF NoneOf
<1>5. ASSUME LastOf(q, S, v), NoneOf(r, S) PROVE LastOf(c, S, v)
  <2>1. PICK i \in 1..Len(q) : q[i] = v /\ \A j \in (i + 1)..Len(q) : q[j] \notin S
    BY <1>5 DEF LastOf
  <2>2. i \in 1..Len(c) /\ c[i] = v
    BY <1>1, <2>1
  <2>3. \A j \in (i + 1)..Len(c) : c[j] \notin S
    <3> SUFFICES ASSUME NEW j \in (i + 1)..Len(c) PROVE c[j] \notin S
      OBVIOUS
    <3>1. CASE j \in 1..Len(q)
      BY <1>1, <2>1, <3>1
    <3>2. CASE j \notin 1..Len(q)
      <4>1. j \in 1..Len(c)
        BY <1>1
      <4> QED
        BY <1>3, <1>5, <3>2, <4>1 DEF NoneOf
    <3> QED
      BY <3>1, <3>2
  <2> QED
    BY <1>5, <2>2, <2>3 DEF LastOf
<1>6. ASSUME LastOf(r, S, v) PROVE LastOf(c, S, v)
  <2>1. PICK i \in 1..Len(r) : r[i] = v /\ \A j \in (i + 1)..Len(r) : r[j] \notin S
    BY <1>6 DEF LastOf
  <2>2. Len(q) + i \in 1..Len(c) /\ c[Len(q) + i] = v
    BY <1>1, <2>1
  <2>3. \A j \in (Len(q) + i + 1)..Len(c) : c[j] \notin S
    <3> SUFFICES ASSUME NEW j \in (Len(q) + i + 1)..Len(c) PROVE c[j] \notin S
      OBVIOUS
    <3>1. j \in 1..Len(c) /\ j \notin 1..Len(q) /\ j - Len(q) \in (i + 1)..Len(r)
      BY <1>1
    <3> QED
      BY <1>3, <2>1, <3>1
  <2> QED
    BY <1>6, <2>2, <2>3 DEF LastOf
<1> QED
  BY <1>4, <1>5, <1>6 DEF c

\* Read backwards, the first of S is the last.
LEMMA LastOfReverse ==
    ASSUME NEW T, NEW q \in Seq(T), NEW S
    PROVE  /\ NoneOf(q, S) => NoneOf(Reverse(q), S)
           /\ \A i \in 1..Len(q) : q[i] \in S /\ (\A j \in 1..(i - 1) : q[j] \notin S)
                => LastOf(Reverse(q), S, q[i])
<1> DEFINE r == Reverse(q)
<1>1. Len(q) \in Nat /\ Len(r) = Len(q) /\ \A i \in 1..Len(q) : r[i] = q[(Len(q) - i) + 1]
  BY DEF Reverse
<1> HIDE DEF r
<1>2. ASSUME NoneOf(q, S) PROVE NoneOf(r, S)
  <2>1. \A i \in 1..Len(q) : (Len(q) - i) + 1 \in 1..Len(q)
    BY <1>1
  <2> QED
    BY <1>1, <1>2, <2>1 DEF NoneOf
<1>3. ASSUME NEW i \in 1..Len(q), q[i] \in S, \A j \in 1..(i - 1) : q[j] \notin S
      PROVE  LastOf(r, S, q[i])
  <2> DEFINE k == (Len(q) - i) + 1
  <2>1. k \in 1..Len(r) /\ (Len(q) - k) + 1 = i
    BY <1>1
  <2>2. r[k] = q[i]
    BY <1>1, <2>1
  <2>3. \A j \in (k + 1)..Len(r) : r[j] \notin S
    <3> SUFFICES ASSUME NEW j \in (k + 1)..Len(r) PROVE r[j] \notin S
      OBVIOUS
    <3>1. j \in 1..Len(q) /\ (Len(q) - j) + 1 \in 1..(i - 1)
      BY <1>1
    <3> QED
      BY <1>1, <1>3, <3>1
  <2> HIDE DEF k
  <2> QED
    BY <1>3, <2>1, <2>2, <2>3 DEF LastOf
<1> QED
  BY <1>2, <1>3 DEF r

\* If one sequence of seqs has all there is of S, its last is the last.
LEMMA LastOfFlatten ==
    ASSUME NEW T, NEW seqs \in Seq(Seq(T)), NEW S
    PROVE  /\ (\A i \in 1..Len(seqs) : NoneOf(seqs[i], S)) => NoneOf(FlattenSeq(seqs), S)
           /\ \A k \in 1..Len(seqs) : \A v :
                /\ LastOf(seqs[k], S, v)
                /\ \A i \in 1..Len(seqs) : i # k => NoneOf(seqs[i], S)
                => LastOf(FlattenSeq(seqs), S, v)
<1>0. Len(seqs) \in Nat /\ \A i \in 1..Len(seqs) : seqs[i] \in Seq(T)
  OBVIOUS
<1>1. CASE Len(seqs) = 0
  <2>1. FlattenSeq(seqs) = seqs
    BY <1>1 DEF FlattenSeq
  <2> QED
    BY <1>1, <2>1 DEF NoneOf
<1>2. CASE Len(seqs) # 0
  <2>1. PICK f : /\ FlattenSeq(seqs) = f[Len(seqs)]
                 /\ \A i \in 1..Len(seqs) : /\ f[i] \in Seq(T)
                                            /\ f[i] = IF i = 1 THEN seqs[1] ELSE f[i - 1] \o seqs[i]
    BY <1>2, FlattenSteps
  <2>2. ASSUME \A i \in 1..Len(seqs) : NoneOf(seqs[i], S)
        PROVE  NoneOf(FlattenSeq(seqs), S)
    <3> DEFINE Wrong == {i \in 1..Len(seqs) : ~NoneOf(f[i], S)}
    <3>1. CASE Wrong # {}
      <4>1. Wrong \in SUBSET Nat
        BY <1>0
      <4>2. PICK i \in Wrong : \A j \in Wrong : i <= j
        BY <3>1, <4>1, LeastNatural
      <4>3. i \in 1..Len(seqs) /\ ~NoneOf(f[i], S)
        BY <4>2
      <4>4. i # 1
        BY <2>1, <2>2, <4>3
      <4>5. i - 1 \in 1..Len(seqs) /\ i - 1 \notin Wrong
        <5>1. i - 1 \in 1..Len(seqs) /\ ~(i <= i - 1)
          BY <1>0, <4>3, <4>4
        <5> HIDE DEF Wrong
        <5> QED
          BY <4>2, <5>1
      <4>6. NoneOf(f[i - 1], S) /\ f[i - 1] \in Seq(T) /\ f[i] = f[i - 1] \o seqs[i]
        BY <2>1, <4>3, <4>4, <4>5
      <4> QED
        BY <1>0, <2>2, <4>3, <4>6, LastOfConcat
    <3>2. CASE Wrong = {}
      <4>1. \A i \in 1..Len(seqs) : NoneOf(f[i], S)
        BY <3>2
      <4>2. Len(seqs) \in 1..Len(seqs)
        BY <1>0, <1>2
      <4> HIDE DEF Wrong
      <4> QED
        BY <2>1, <4>1, <4>2
    <3> QED
      BY <3>1, <3>2
  <2>3. ASSUME NEW k \in 1..Len(seqs), NEW v, LastOf(seqs[k], S, v),
               \A i \in 1..Len(seqs) : i # k => NoneOf(seqs[i], S)
        PROVE  LastOf(FlattenSeq(seqs), S, v)
    <3> DEFINE Wrong == {i \in 1..Len(seqs) : i >= k /\ ~LastOf(f[i], S, v)}
    <3>1. CASE Wrong # {}
      <4>1. Wrong \in SUBSET Nat
        BY <1>0
      <4>2. PICK i \in Wrong : \A j \in Wrong : i <= j
        BY <3>1, <4>1, LeastNatural
      <4>3. i \in 1..Len(seqs) /\ i >= k /\ ~LastOf(f[i], S, v)
        BY <4>2
      <4>4. i # 1
        BY <2>1, <2>3, <4>3
      <4>5. i - 1 \in 1..Len(seqs) /\ f[i - 1] \in Seq(T) /\ f[i] = f[i - 1] \o seqs[i]
        <5>1. i - 1 \in 1..Len(seqs)
          BY <1>0, <4>3, <4>4
        <5> QED
          BY <2>1, <4>3, <4>4, <5>1
      <4>6. CASE i = k
        BY <1>0, <2>3, <4>3, <4>5, <4>6, LastOfConcat
      <4>7. CASE i # k
        <5>1. i - 1 \notin Wrong /\ i - 1 >= k
          <6>1. i - 1 >= k /\ ~(i <= i - 1)
            BY <1>0, <4>3, <4>7
          <6> HIDE DEF Wrong
          <6> QED
            BY <4>2, <6>1
        <5>2. LastOf(f[i - 1], S, v)
          BY <4>5, <5>1
        <5> QED
          BY <1>0, <2>3, <4>3, <4>5, <4>7, <5>2, LastOfConcat
      <4> QED
        BY <4>6, <4>7
    <3>2. CASE Wrong = {}
      <4>1. Len(seqs) \in 1..Len(seqs) /\ Len(seqs) >= k
        BY <1>0, <1>2
      <4> QED
        BY <2>1, <3>2, <4>1
    <3> QED
      BY <3>1, <3>2
  <2> QED
    BY <2>2, <2>3
<1> QED
  BY <1>1, <1>2

-----------------------------------------------------------------------------
\* The types of what TypeOK leaves out: a call under way, a file being written,
\* a checkpoint being saved and a rewind.

ToolType ==
    [step : {"create", "apply", "saving"}, kind : {"write", "edit"}, file : File,
     old : Contents, new : Contents, patch : Nat]

SavingType ==
    [step : {"temp", "rename", "saved", "remove", "failed"}, file : File,
     content : Contents]

BackupType == [file : File, content : Contents, meta : BOOLEAN, by : Session]

SaveType ==
    [step : {"state", "file"}, state : SUBSET (1..MaxMessages), changes : Seq(Patches),
     was : [File -> Contents], at : Nat]

RewindType ==
    [step : {"code"}, target : Nat, code : BOOLEAN, conversation : BOOLEAN,
     todo : Seq(Nat), later : SUBSET Nat, from : Nat, failed : BOOLEAN]

FilesTyped ==
    /\ files \in [File -> Contents]
    /\ temp \in [File -> SUBSET Contents]
    /\ \A f \in File : temp[f] = {} \/ \E content \in Contents : temp[f] = {content}
    /\ fresh \in 0..MaxContent
    /\ IsSeq(history)

\* A diff is applied to make a text of the bounded ones.
CallsTyped ==
    /\ backups \in Seq(BackupType) /\ Len(backups) <= MaxPatches
    /\ edits \subseteq 1..Len(backups)
    /\ tool \in [Session -> {NoTool} \union ToolType]
    /\ \A s \in Session : tool[s].step = "apply" => tool[s].new <= MaxContent
    /\ saving \in [Writer -> {NotSaving} \union SavingType]

\* No checkpoint holds a message that was not sent.
SavesTyped ==
    /\ messages \in 0..MaxMessages
    /\ run \in [Session -> {"off", "starting", "on"}]
    /\ memory \in [Session -> SUBSET (1..messages)]
    /\ disk \in [Session -> SUBSET (1..messages)]
    /\ saves \in [Session -> {NoSave} \union SaveType]
    /\ checkpoints \in [Session -> Seq(CheckpointType)]
    /\ \A s \in Session :
        /\ saves[s] # NoSave => saves[s].state \subseteq 1..messages
        /\ \A k \in 1..Len(checkpoints[s]) : checkpoints[s][k].state \subseteq 1..messages

\* A rewind goes to a checkpoint that is there and takes back patches that have
\* a backup.
RewindsTyped ==
    /\ rewinds \in [Session -> {NoRewind} \union RewindType]
    /\ \A s \in Session : rewinds[s] # NoRewind =>
        /\ rewinds[s].target \in 1..Len(checkpoints[s])
        /\ rewinds[s].todo \in Seq(1..Len(backups))

\* A rewind that writes a file has the patch that it takes back ahead of it.
RewindsBusy == \A s \in Session : saving[Rewinder(s)] # NotSaving => Todo(s)

TypesInv == FilesTyped /\ CallsTyped /\ SavesTyped /\ RewindsTyped /\ RewindsBusy

LEMMA TypesFacts ==
    /\ MaxContent \in Nat /\ 1 <= MaxContent
    /\ MaxPatches \in Nat /\ MaxMessages \in Nat
    /\ 0..MaxContent \subseteq Contents /\ 0 \in Contents /\ 1 \in Contents
    /\ \A s \in Session : Tool(s) \in Writer /\ Rewinder(s) \in Writer
BY EngineBoundsAssumption, RewindBoundsAssumption DEF Contents, Writer, Tool, Rewinder

LEMMA InitTypes == Init => TypesInv
<1> SUFFICES ASSUME Init PROVE TypesInv
  OBVIOUS
<1>1. FilesTyped
  <2>1. IsSeq(<<>>) /\ history = <<>>
    BY DEF IsSeq, Init, EngineInit
  <2>2. files \in [File -> Contents]
    BY TypesFacts DEF Init, EngineInit
  <2> QED
    BY <2>1, <2>2, TypesFacts DEF FilesTyped, Init, EngineInit
<1>2. CallsTyped
  BY TypesFacts DEF CallsTyped, Init, EngineInit, NoTool
<1>3. SavesTyped
  BY TypesFacts DEF SavesTyped, Init, NoSave
<1>4. RewindsTyped
  BY DEF RewindsTyped, Init
<1>5. RewindsBusy
  BY TypesFacts DEF RewindsBusy, Init, EngineInit
<1> QED
  BY <1>1, <1>2, <1>3, <1>4, <1>5 DEF TypesInv

-----------------------------------------------------------------------------
\* Steps on files.

LEMMA OutsideTypes ==
    ASSUME FilesTyped, NEW f \in File, Outside(f)
    PROVE  FilesTyped'
<1>1. PICK content \in {0, fresh + 1} : files' = [files EXCEPT ![f] = content]
  BY DEF Outside
<1>2. fresh < MaxContent /\ fresh' = fresh + 1 /\ UNCHANGED temp
      /\ fresh \in 0..MaxContent
  BY DEF Outside, FilesTyped
<1>3. fresh + 1 \in 0..MaxContent
  BY <1>2, TypesFacts
<1>4. content \in Contents
  BY <1>3, TypesFacts
<1>5. files' \in [File -> Contents]
  BY <1>1, <1>4 DEF FilesTyped
<1>6. IsSeq(history')
  BY AppendAny DEF FilesTyped, Outside
<1> QED
  BY <1>2, <1>3, <1>5, <1>6 DEF FilesTyped

LEMMA WriteTypes ==
    ASSUME TypesInv, NEW w \in Writer, WriteFile(w)
    PROVE  FilesTyped' /\ CallsTyped'
<1> DEFINE f == saving[w].file
           c == saving[w].content
<1>1. saving \in [Writer -> {NotSaving} \union SavingType]
  BY DEF TypesInv, CallsTyped
<1>2. ASSUME saving[w].step \in {"temp", "rename", "remove"}
      PROVE  saving[w] \in SavingType /\ f \in File /\ c \in Contents
  BY <1>1, <1>2 DEF NotSaving, SavingType
<1>3. ASSUME NEW step \in {"rename", "saved", "remove", "failed"}, SavingStep(w, step),
             saving[w].step \in {"temp", "rename", "remove"},
             UNCHANGED <<backups, edits, tool>>
      PROVE  CallsTyped'
  <2>1. [saving[w] EXCEPT !.step = step] \in SavingType
    BY <1>2, <1>3 DEF SavingType
  <2>2. saving' \in [Writer -> {NotSaving} \union SavingType]
    BY <1>1, <1>3, <2>1 DEF SavingStep
  <2> QED
    BY <1>3, <2>2 DEF TypesInv, CallsTyped
<1> HIDE DEF f, c
<1>4. ASSUME NEW t \in SUBSET Contents, t = {} \/ \E content \in Contents : t = {content},
             f \in File, temp' = [temp EXCEPT ![f] = t], UNCHANGED <<files, history, fresh>>
      PROVE  FilesTyped'
  BY <1>4 DEF TypesInv, FilesTyped
<1>5. CASE SaveTemp(w)
  <2>1. f \in File /\ c \in Contents /\ temp' = [temp EXCEPT ![f] = {c}]
    BY <1>2, <1>5 DEF SaveTemp, f, c
  <2>2. CallsTyped'
    BY <1>3, <1>5 DEF SaveTemp
  <2>3. {c} \in SUBSET Contents /\ UNCHANGED <<files, history, fresh>>
    BY <1>5, <2>1 DEF SaveTemp
  <2>4. FilesTyped'
    BY <1>4, <2>1, <2>3
  <2> QED
    BY <2>2, <2>4
<1>6. CASE SaveTempFails(w)
  <2>1. f \in File
    BY <1>2, <1>6 DEF SaveTempFails
  <2>2. PICK left \in {temp[f], {0}} : temp' = [temp EXCEPT ![f] = left]
    BY <1>6 DEF SaveTempFails, f
  <2>3. left \in SUBSET Contents /\ (left = {} \/ \E content \in Contents : left = {content})
    BY <2>1, <2>2, TypesFacts DEF TypesInv, FilesTyped
  <2> QED
    BY <1>3, <1>4, <1>6, <2>1, <2>2, <2>3 DEF SaveTempFails
<1>7. CASE SaveRename(w)
  <2>1. f \in File
    BY <1>2, <1>7 DEF SaveRename
  <2>2. PICK content \in temp[f] :
            /\ files' = [files EXCEPT ![f] = content]
            /\ \E change : history' = Append(history, change)
    BY <1>7 DEF SaveRename, f
  <2>3. content \in Contents
    BY <2>1, <2>2 DEF TypesInv, FilesTyped
  <2>4. temp' = [temp EXCEPT ![f] = {}] /\ UNCHANGED fresh
    BY <1>7 DEF SaveRename, f
  <2>5. IsSeq(history')
    BY <2>2, AppendAny DEF TypesInv, FilesTyped
  <2>6. FilesTyped'
    BY <2>1, <2>2, <2>3, <2>4, <2>5 DEF TypesInv, FilesTyped
  <2> QED
    BY <1>3, <1>7, <2>6 DEF SaveRename
<1>8. CASE SaveRenameFails(w)
  <2>1. FilesTyped'
    BY <1>8 DEF SaveRenameFails, fileVars, TypesInv, FilesTyped
  <2> QED
    BY <1>3, <1>8, <2>1 DEF SaveRenameFails
<1>9. CASE SaveRemove(w)
  <2>1. f \in File /\ temp' = [temp EXCEPT ![f] = {}]
    BY <1>2, <1>9 DEF SaveRemove, f
  <2> QED
    BY <1>3, <1>4, <1>9, <2>1 DEF SaveRemove
<1> QED
  BY <1>5, <1>6, <1>7, <1>8, <1>9 DEF WriteFile

-----------------------------------------------------------------------------
\* Steps of a call.

LEMMA ReadTypes ==
    ASSUME TypesInv, NEW s \in Session, ToolCall(s)
    PROVE  FilesTyped' /\ CallsTyped'
<1>1. /\ fresh < MaxContent /\ fresh' = fresh + 1 /\ fresh \in 0..MaxContent
      /\ UNCHANGED <<files, temp, history, backups, edits, saving>>
  BY DEF ToolCall, ToolRead, ToolReadSame, fileVars, TypesInv, FilesTyped
<1>2. fresh' \in 0..MaxContent /\ fresh + 1 \in Contents /\ fresh + 1 <= MaxContent
  BY <1>1, TypesFacts
<1>3. FilesTyped'
  BY <1>1, <1>2 DEF TypesInv, FilesTyped
<1>4. \A f \in File : files[f] \in Contents
  BY DEF TypesInv, FilesTyped
<1>5. \E v \in ToolType :
          /\ v.step = "apply" => v.new <= MaxContent
          /\ tool' = [tool EXCEPT ![s] = v]
  <2>1. CASE ToolRead(s)
    <3>1. PICK kind \in {"write", "edit"}, f \in File :
              tool' = [tool EXCEPT ![s] =
                  [step |-> IF files[f] = 0 /\ kind = "write" THEN "create" ELSE "apply",
                   kind |-> kind, file |-> f,
                   old |-> files[f], new |-> fresh + 1, patch |-> 0]]
      BY <2>1 DEF ToolRead
    <3> DEFINE v == [step |-> IF files[f] = 0 /\ kind = "write" THEN "create" ELSE "apply",
                     kind |-> kind, file |-> f,
                     old |-> files[f], new |-> fresh + 1, patch |-> 0]
    <3>2. v \in ToolType /\ v.new <= MaxContent /\ tool' = [tool EXCEPT ![s] = v]
      BY <1>2, <1>4, <3>1 DEF ToolType
    <3> HIDE DEF v
    <3> QED
      BY <3>2
  <2>2. CASE ToolReadSame(s)
    <3>1. PICK f \in File :
              tool' = [tool EXCEPT ![s] =
                  [step |-> "create", kind |-> "write", file |-> f,
                   old |-> files[f], new |-> files[f], patch |-> 0]]
      BY <2>2 DEF ToolReadSame
    <3> DEFINE v == [step |-> "create", kind |-> "write", file |-> f,
                     old |-> files[f], new |-> files[f], patch |-> 0]
    <3>2. v \in ToolType /\ v.step # "apply" /\ tool' = [tool EXCEPT ![s] = v]
      BY <1>4, <3>1 DEF ToolType
    <3> HIDE DEF v
    <3> QED
      BY <3>2
  <2> QED
    BY <2>1, <2>2 DEF ToolCall
<1>6. PICK v \in ToolType : /\ v.step = "apply" => v.new <= MaxContent
                            /\ tool' = [tool EXCEPT ![s] = v]
  BY <1>5
<1>7. /\ tool' \in [Session -> {NoTool} \union ToolType]
      /\ \A r \in Session : tool'[r].step = "apply" => tool'[r].new <= MaxContent
  BY <1>6 DEF TypesInv, CallsTyped
<1>8. CallsTyped'
  BY <1>1, <1>7 DEF TypesInv, CallsTyped
<1> QED
  BY <1>3, <1>8

\* A call makes at most one backup, returns or saves next, and may write the
\* file itself.
LEMMA ReturnTypes ==
    ASSUME TypesInv, NEW s \in Session, ToolReturns(s),
           \/ UNCHANGED backups
           \/ \E b \in BackupType : backups' = Append(backups, b) /\ Len(backups) < MaxPatches,
           edits' \subseteq 1..Len(backups'),
           saving' = saving \/ saving' = [saving EXCEPT ![Tool(s)] = NotSaving]
    PROVE  CallsTyped' /\ Len(backups) <= Len(backups')
<1>1. /\ tool' \in [Session -> {NoTool} \union ToolType]
      /\ \A r \in Session : tool'[r].step = "apply" => tool'[r].new <= MaxContent
  BY DEF TypesInv, CallsTyped, ToolReturns, NoTool
<1>2. /\ backups' \in Seq(BackupType) /\ Len(backups') <= MaxPatches
      /\ Len(backups) <= Len(backups')
  <2>1. CASE UNCHANGED backups
    BY <2>1 DEF TypesInv, CallsTyped
  <2>2. ASSUME NEW b \in BackupType, backups' = Append(backups, b), Len(backups) < MaxPatches
        PROVE  /\ backups' \in Seq(BackupType) /\ Len(backups') <= MaxPatches
               /\ Len(backups) <= Len(backups')
    BY <2>2, TypesFacts DEF TypesInv, CallsTyped
  <2> QED
    BY <2>1, <2>2
<1>3. saving' \in [Writer -> {NotSaving} \union SavingType]
  BY DEF TypesInv, CallsTyped
<1> QED
  BY <1>1, <1>2, <1>3 DEF CallsTyped

LEMMA BackupTypes ==
    ASSUME TypesInv, NEW s \in Session, tool[s].step = "apply", BackupMade(s)
    PROVE  \E b \in BackupType : backups' = Append(backups, b) /\ Len(backups) < MaxPatches
<1>1. PICK meta \in BOOLEAN : Backup(s, meta)
  BY DEF BackupMade
<1>2. tool[s].file \in File
  BY DEF TypesInv, CallsTyped, NoTool, ToolType
<1>3. files[tool[s].file] \in Contents
  BY <1>2 DEF TypesInv, FilesTyped
<1> DEFINE b == [file |-> tool[s].file, content |-> files[tool[s].file], meta |-> meta,
                 by |-> s]
<1>4. b \in BackupType
  BY <1>2, <1>3 DEF BackupType
<1>5. backups' = Append(backups, b) /\ Len(backups) < MaxPatches
  BY <1>1 DEF Backup, BackupMade
<1> HIDE DEF b
<1> QED
  BY <1>4, <1>5

LEMMA ToolTypes ==
    ASSUME TypesInv, RecordInv, NEW s \in Session, ToolStep(s)
    PROVE  FilesTyped' /\ CallsTyped' /\ Len(backups) <= Len(backups')
<1>0. /\ edits \subseteq 1..Len(backups) /\ Len(backups) \in Nat
      /\ tool \in [Session -> {NoTool} \union ToolType]
  BY DEF TypesInv, CallsTyped
<1>1. CASE ToolCreate(s)
  <2>1. tool[s].file \in File /\ tool[s].new \in Contents
    BY <1>0, <1>1 DEF ToolCreate, NoTool, ToolType
  <2>2. IsSeq(history')
    BY <1>1, AppendAny DEF ToolCreate, TypesInv, FilesTyped
  <2>3. files' \in [File -> Contents]
    BY <1>1, <2>1 DEF ToolCreate, TypesInv, FilesTyped
  <2>4. FilesTyped'
    BY <1>1, <2>2, <2>3 DEF ToolCreate, TypesInv, FilesTyped
  <2>5. CallsTyped' /\ Len(backups) <= Len(backups')
    BY <1>0, <1>1, ReturnTypes DEF ToolCreate
  <2> QED
    BY <2>4, <2>5
<1>2. CASE UNCHANGED <<files, temp, history, fresh>>
  <2>1. FilesTyped'
    BY <1>2 DEF TypesInv, FilesTyped
  <2>2. CASE ApplyNoBackup(s) \/ ApplyFailed(s)
    <3>1. ToolReturns(s) /\ UNCHANGED <<backups, edits>>
          /\ (saving' = saving \/ saving' = [saving EXCEPT ![Tool(s)] = NotSaving])
      BY <2>2 DEF ApplyNoBackup, ApplyFailed
    <3> QED
      BY <1>0, <2>1, <3>1, ReturnTypes
  <2>3. CASE ApplyMisfits(s)
    <3>1. \E b \in BackupType : backups' = Append(backups, b) /\ Len(backups) < MaxPatches
      BY <2>3, BackupTypes DEF ApplyMisfits
    <3>2. edits' \subseteq 1..Len(backups') /\ saving' = saving /\ ToolReturns(s)
      <4>1. Len(backups') = Len(backups) + 1 /\ edits' = edits
        BY <1>0, <2>3, <3>1 DEF ApplyMisfits, TypesInv, CallsTyped
      <4>2. 1..Len(backups) \subseteq 1..(Len(backups) + 1)
        BY <1>0
      <4> QED
        BY <1>0, <2>3, <4>1, <4>2 DEF ApplyMisfits
    <3> QED
      BY <2>1, <3>1, <3>2, ReturnTypes
  <2>4. CASE ApplyRecord(s)
    <3>1. tool[s].patch \in 1..Len(backups)
      BY <2>4 DEF ApplyRecord, RecordInv, CallsFresh
    <3>2. edits' \subseteq 1..Len(backups) /\ UNCHANGED backups /\ ToolReturns(s)
          /\ saving' = [saving EXCEPT ![Tool(s)] = NotSaving]
      BY <1>0, <2>4, <3>1 DEF ApplyRecord
    <3> QED
      BY <2>1, <3>2, ReturnTypes
  <2>5. CASE ApplyPatch(s)
    <3> DEFINE call == [tool[s] EXCEPT !.step = "saving", !.patch = Len(backups) + 1]
               save == [step |-> "temp", file |-> tool[s].file, content |-> Patched(s)]
    <3>1. PICK b \in BackupType : backups' = Append(backups, b) /\ Len(backups) < MaxPatches
      BY <2>5, BackupTypes DEF ApplyPatch
    <3>2. tool[s] \in ToolType /\ tool[s].new <= MaxContent
      BY <1>0, <2>5 DEF ApplyPatch, NoTool, TypesInv, CallsTyped
    <3>3. /\ backups' \in Seq(BackupType) /\ Len(backups') = Len(backups) + 1
          /\ Len(backups') <= MaxPatches
      BY <1>0, <3>1, TypesFacts DEF TypesInv, CallsTyped
    <3>4. Patched(s) \in Contents
      <4>1. tool[s].new \in Nat /\ tool[s].new <= MaxContent
        BY <3>2 DEF ToolType, Contents
      <4>2. MaxContent + tool[s].new \in Contents /\ tool[s].new \in Contents
        BY <4>1, TypesFacts DEF Contents
      <4> QED
        BY <4>2 DEF Patched
    <3>5. save \in SavingType
      BY <3>2, <3>4 DEF SavingType, ToolType
    <3>6. call \in ToolType /\ call.step # "apply"
      <4>1. \A v \in ToolType, p \in Nat :
               /\ [v EXCEPT !.step = "saving", !.patch = p] \in ToolType
               /\ [v EXCEPT !.step = "saving", !.patch = p].step = "saving"
        BY DEF ToolType
      <4>2. Len(backups) + 1 \in Nat
        BY <1>0
      <4> QED
        BY <3>2, <4>1, <4>2
    <3>7. tool' = [tool EXCEPT ![s] = call] /\ saving' = [saving EXCEPT ![Tool(s)] = save]
          /\ UNCHANGED edits
      BY <2>5 DEF ApplyPatch, StartSaving
    <3> HIDE DEF call, save
    <3>8. /\ tool' \in [Session -> {NoTool} \union ToolType]
          /\ \A r \in Session : tool'[r].step = "apply" => tool'[r].new <= MaxContent
      BY <3>6, <3>7 DEF TypesInv, CallsTyped
    <3>9. saving' \in [Writer -> {NotSaving} \union SavingType]
      BY <3>5, <3>7 DEF TypesInv, CallsTyped
    <3>10. edits' \subseteq 1..Len(backups')
      <4>1. 1..Len(backups) \subseteq 1..(Len(backups) + 1)
        BY <1>0
      <4> QED
        BY <1>0, <3>3, <3>7, <4>1
    <3>11. CallsTyped'
      BY <3>3, <3>8, <3>9, <3>10 DEF CallsTyped
    <3> QED
      BY <1>0, <2>1, <3>3, <3>11
  <2> QED
    BY <1>1, <2>2, <2>3, <2>4, <2>5, <1>0 DEF ToolStep
<1>3. ToolCreate(s) \/ UNCHANGED <<files, temp, history, fresh>>
  BY DEF ToolStep, ApplyNoBackup, ApplyPatch, ApplyMisfits, ApplyRecord, ApplyFailed, fileVars
<1> QED
  BY <1>1, <1>2, <1>3

-----------------------------------------------------------------------------
\* Steps of a session.

\* Whatever is on record has a backup: in the tracker and in a checkpoint.
LEMMA RecordTypes ==
    ASSUME TypesInv, RecordInv
    PROVE  /\ changes \in Seq(1..Len(backups)) /\ changes \in Seq(Patches)
           /\ \A s \in Session : \A k \in 1..Len(checkpoints[s]) :
                checkpoints[s][k].changes \in Seq(1..Len(backups))
<1>1. /\ Len(backups) \in Nat /\ Len(backups) <= MaxPatches
      /\ \A p : ListedIn(Record, p) => p \in 1..Len(backups)
  BY DEF TypesInv, CallsTyped, RecordInv, ListedBackedUp
<1>2. 1..Len(backups) \subseteq Patches
  BY <1>1, TypesFacts DEF Patches
<1>3. ASSUME NEW q \in Seq(Nat), NEW x \in Places, Record[x] = q
      PROVE  q \in Seq(1..Len(backups))
  <2>1. \A i \in 1..Len(q) : q[i] \in 1..Len(backups)
    BY <1>1, <1>3 DEF ListedIn
  <2> QED
    BY <2>1
<1>4. changes \in Seq(1..Len(backups))
  <2>1. Tracker \in Places /\ Record[Tracker] = changes
    BY DEF Places, Record
  <2> QED
    BY <1>3, <2>1 DEF RecordInv, RecordType
<1>5. ASSUME NEW s \in Session, NEW k \in 1..Len(checkpoints[s])
      PROVE  checkpoints[s][k].changes \in Seq(1..Len(backups))
  <2>1. checkpoints[s] \in Seq(CheckpointType)
    BY DEF TypesInv, SavesTyped
  <2>2. /\ k \in DOMAIN checkpoints[s] /\ k \in Nat /\ k # 0
        /\ checkpoints[s][k] \in CheckpointType
    BY <2>1
  <2>3. <<s, k>> \in Places /\ Record[<<s, k>>] = checkpoints[s][k].changes
    BY <2>2 DEF Places, Record, Tracker
  <2>4. checkpoints[s][k].changes \in Seq(Nat)
    <3>1. checkpoints[s][k].changes \in Seq(Patches)
      BY <2>2 DEF CheckpointType
    <3>2. Patches \subseteq Nat
      BY DEF Patches
    <3> QED
      BY <3>1, <3>2, WiderSeq
  <2> QED
    BY <1>3, <2>3, <2>4
<1>6. changes \in Seq(Patches)
  BY <1>2, <1>4
<1> QED
  BY <1>4, <1>5, <1>6

LEMMA MessageTypes ==
    ASSUME TypesInv, NEW s \in Session, Message(s)
    PROVE  SavesTyped'
<1>1. /\ messages \in 0..MaxMessages /\ messages < MaxMessages /\ messages' = messages + 1
      /\ memory' = [memory EXCEPT ![s] = @ \union {messages + 1}]
      /\ disk' = [disk EXCEPT ![s] = memory'[s]]
      /\ UNCHANGED <<saves, checkpoints>>
  BY DEF Message, TypesInv, SavesTyped
<1>2. /\ messages' \in 0..MaxMessages /\ messages + 1 \in 1..messages'
      /\ 1..messages \subseteq 1..messages'
  BY <1>1, TypesFacts
<1>3. memory' \in [Session -> SUBSET (1..messages')]
  <2>1. \A r \in Session : memory[r] \subseteq 1..messages
    BY DEF TypesInv, SavesTyped
  <2>2. \A r \in Session : memory[r] \subseteq 1..messages'
    BY <1>2, <2>1
  <2>3. memory[s] \union {messages + 1} \subseteq 1..messages'
    BY <1>2, <2>2
  <2> QED
    BY <1>1, <2>2, <2>3 DEF TypesInv, SavesTyped
<1>4. disk' \in [Session -> SUBSET (1..messages')]
  <2>1. \A r \in Session : disk[r] \subseteq 1..messages
    BY DEF TypesInv, SavesTyped
  <2>2. \A r \in Session : disk[r] \subseteq 1..messages'
    BY <1>2, <2>1
  <2>3. memory'[s] \subseteq 1..messages'
    BY <1>3
  <2> QED
    BY <1>1, <2>2, <2>3 DEF TypesInv, SavesTyped
<1>5. run' \in [Session -> {"off", "starting", "on"}]
  BY DEF Message, TypesInv, SavesTyped
<1>6. \A r \in Session :
         /\ saves'[r] # NoSave => saves'[r].state \subseteq 1..messages'
         /\ \A k \in 1..Len(checkpoints'[r]) : checkpoints'[r][k].state \subseteq 1..messages'
  <2>1. \A r \in Session :
           /\ saves[r] # NoSave => saves[r].state \subseteq 1..messages
           /\ \A k \in 1..Len(checkpoints[r]) : checkpoints[r][k].state \subseteq 1..messages
    BY DEF TypesInv, SavesTyped
  <2> QED
    BY <1>1, <1>2, <2>1
<1> QED
  BY <1>1, <1>2, <1>3, <1>4, <1>5, <1>6 DEF TypesInv, SavesTyped

\* What a step of the loop may save, for the other variables as they are.
LEMMA SavingTypes ==
    ASSUME TypesInv, NEW s \in Session, NEW v \in {NoSave} \union SaveType,
           v # NoSave => v.state \subseteq 1..messages,
           saves' = [saves EXCEPT ![s] = v],
           UNCHANGED <<messages, run, memory, checkpoints>>,
           disk' \in [Session -> SUBSET (1..messages)]
    PROVE  SavesTyped' /\ \A r \in Session : Len(checkpoints[r]) <= Len(checkpoints'[r])
<1>1. saves' \in [Session -> {NoSave} \union SaveType]
  BY DEF TypesInv, SavesTyped
<1>2. \A r \in Session : saves'[r] # NoSave => saves'[r].state \subseteq 1..messages
  BY DEF TypesInv, SavesTyped
<1>3. SavesTyped'
  BY <1>1, <1>2 DEF TypesInv, SavesTyped
<1>4. ASSUME NEW r \in Session PROVE Len(checkpoints[r]) <= Len(checkpoints'[r])
  <2>1. checkpoints[r] \in Seq(CheckpointType) /\ checkpoints'[r] = checkpoints[r]
    BY DEF TypesInv, SavesTyped
  <2> QED
    BY <2>1
<1> QED
  BY <1>3, <1>4

LEMMA CheckpointTypes ==
    ASSUME TypesInv, RecordInv, NEW s \in Session,
           CheckpointTake(s) \/ CheckpointSaveState(s) \/ CheckpointSave(s) \/ CheckpointFails(s)
    PROVE  SavesTyped' /\ \A r \in Session : Len(checkpoints[r]) <= Len(checkpoints'[r])
<1>1. /\ disk \in [Session -> SUBSET (1..messages)]
      /\ saves \in [Session -> {NoSave} \union SaveType]
      /\ checkpoints \in [Session -> Seq(CheckpointType)]
      /\ saves[s] # NoSave => saves[s] \in SaveType /\ saves[s].state \subseteq 1..messages
  BY DEF TypesInv, SavesTyped
<1>2. \A r \in Session : Len(checkpoints[r]) \in Nat
  BY <1>1
<1>3. CASE CheckpointTake(s)
  <2> DEFINE v == [step |-> "state", state |-> memory[s], changes |-> changes,
                   was |-> files, at |-> Len(history)]
  <2>1. memory[s] \subseteq 1..messages /\ memory[s] \subseteq 1..MaxMessages
    <3>1. memory[s] \subseteq 1..messages /\ messages \in 0..MaxMessages
      BY DEF TypesInv, SavesTyped
    <3>2. 1..messages \subseteq 1..MaxMessages
      BY <3>1, TypesFacts
    <3> QED
      BY <3>1, <3>2
  <2>2. Len(history) \in Nat /\ files \in [File -> Contents] /\ changes \in Seq(Patches)
    BY AppendAny, RecordTypes DEF TypesInv, FilesTyped
  <2>3. v \in SaveType /\ v.state \subseteq 1..messages
    BY <2>1, <2>2 DEF SaveType
  <2>4. /\ saves' = [saves EXCEPT ![s] = v]
        /\ UNCHANGED <<messages, run, memory, checkpoints, disk>>
    BY <1>3 DEF CheckpointTake, Snapshot
  <2> HIDE DEF v
  <2> QED
    BY <1>1, <2>3, <2>4, SavingTypes
<1>4. CASE CheckpointSaveState(s)
  <2> DEFINE v == [saves[s] EXCEPT !.step = "file"]
  <2>1. saves[s] # NoSave /\ saves' = [saves EXCEPT ![s] = v]
        /\ disk' = [disk EXCEPT ![s] = saves[s].state]
        /\ UNCHANGED <<messages, run, memory, checkpoints>>
    BY <1>4 DEF CheckpointSaveState, NoSave
  <2>2. v \in SaveType /\ v.state = saves[s].state
    BY <1>1, <2>1 DEF SaveType
  <2>3. disk' \in [Session -> SUBSET (1..messages)]
    BY <1>1, <2>1
  <2> HIDE DEF v
  <2> QED
    BY <1>1, <2>1, <2>2, <2>3, SavingTypes
<1>5. CASE CheckpointFails(s)
  <2>1. /\ saves' = [saves EXCEPT ![s] = NoSave]
        /\ UNCHANGED <<messages, run, memory, checkpoints, disk>>
    BY <1>5 DEF CheckpointFails, NotSavingCheckpoint
  <2> QED
    BY <1>1, <2>1, SavingTypes
<1>6. CASE CheckpointSave(s)
  <2> DEFINE new == saves[s]
  <2>1. /\ saves[s] # NoSave /\ saves[s].step = "file" /\ saves' = [saves EXCEPT ![s] = NoSave]
        /\ checkpoints' = [checkpoints EXCEPT ![s] = Append(@, new)]
        /\ UNCHANGED <<messages, run, memory, disk>>
    BY <1>6 DEF CheckpointSave, NotSavingCheckpoint, NoSave
  <2>2. new \in CheckpointType /\ new.state \subseteq 1..messages
    BY <1>1, <2>1 DEF SaveType, CheckpointType
  <2> HIDE DEF new
  <2>3. /\ checkpoints' \in [Session -> Seq(CheckpointType)]
        /\ \A r \in Session : Len(checkpoints[r]) <= Len(checkpoints'[r])
    <3>1. Append(checkpoints[s], new) \in Seq(CheckpointType)
          /\ Len(Append(checkpoints[s], new)) = Len(checkpoints[s]) + 1
      BY <1>1, <2>2
    <3> QED
      BY <1>1, <1>2, <2>1, <3>1
  <2>4. \A r \in Session : \A k \in 1..Len(checkpoints'[r]) :
           checkpoints'[r][k].state \subseteq 1..messages
    <3> SUFFICES ASSUME NEW r \in Session, NEW k \in 1..Len(checkpoints'[r])
                 PROVE  checkpoints'[r][k].state \subseteq 1..messages
      OBVIOUS
    <3>1. \A j \in 1..Len(checkpoints[r]) : checkpoints[r][j].state \subseteq 1..messages
      BY DEF TypesInv, SavesTyped
    <3>2. CASE r # s
      BY <1>1, <2>1, <3>1, <3>2
    <3>3. CASE r = s
      <4>1. checkpoints[s] \in Seq(CheckpointType)
        BY <1>1
      <4>2. /\ checkpoints'[s] = Append(checkpoints[s], new)
            /\ Len(Append(checkpoints[s], new)) = Len(checkpoints[s]) + 1
        BY <1>1, <2>1, <4>1
      <4>3. \/ k \in 1..Len(checkpoints[s]) /\ checkpoints'[s][k] = checkpoints[s][k]
            \/ checkpoints'[s][k] = new
        BY <1>2, <3>3, <4>1, <4>2
      <4> QED
        BY <2>2, <3>1, <3>3, <4>3
    <3> QED
      BY <3>2, <3>3
  <2>5. saves' \in [Session -> {NoSave} \union SaveType]
        /\ \A r \in Session : saves'[r] # NoSave => saves'[r].state \subseteq 1..messages
    BY <1>1, <2>1 DEF TypesInv, SavesTyped
  <2> QED
    BY <2>1, <2>3, <2>4, <2>5 DEF TypesInv, SavesTyped
<1> QED
  BY <1>3, <1>4, <1>5, <1>6

-----------------------------------------------------------------------------
\* Steps of a rewind.

\* What a rewind is to take back has a backup.
LEMMA RollbacksType ==
    ASSUME TypesInv, RecordInv, NEW s \in Session, NEW target \in 1..Len(checkpoints[s])
    PROVE  Rollbacks(s, target) \in Seq(1..Len(backups))
<1> DEFINE n == Len(checkpoints[s]) - target
           seqs == [i \in 1..n |-> Reverse(checkpoints[s][target + i].changes)]
<1>1. Len(checkpoints[s]) \in Nat
  BY DEF TypesInv, SavesTyped
<1>2. n \in Nat /\ \A i \in 1..n : target + i \in 1..Len(checkpoints[s])
  BY <1>1
<1>3. \A i \in 1..n : Reverse(checkpoints[s][target + i].changes) \in Seq(1..Len(backups))
  BY <1>2, RecordTypes, ReverseType
<1> HIDE DEF n
<1>4. seqs \in Seq(Seq(1..Len(backups)))
  BY <1>2, <1>3
<1> HIDE DEF seqs
<1>5. FlattenSeq(seqs) \in Seq(1..Len(backups))
  BY <1>4, FlattenType
<1> QED
  BY <1>5 DEF Rollbacks, seqs, n

\* What a rewind may be next, for the other variables as they are.
LEMMA RewindingTypes ==
    ASSUME TypesInv, NEW s \in Session, NEW v \in {NoRewind} \union RewindType,
           v # NoRewind => /\ v.target \in 1..Len(checkpoints[s])
                           /\ v.todo \in Seq(1..Len(backups)),
           rewinds' = [rewinds EXCEPT ![s] = v],
           UNCHANGED <<checkpoints, backups>>
    PROVE  RewindsTyped'
<1>1. rewinds' \in [Session -> {NoRewind} \union RewindType]
  BY DEF TypesInv, RewindsTyped
<1>2. ASSUME NEW r \in Session, rewinds'[r] # NoRewind
      PROVE  /\ rewinds'[r].target \in 1..Len(checkpoints[r])
             /\ rewinds'[r].todo \in Seq(1..Len(backups))
  BY <1>2 DEF TypesInv, RewindsTyped
<1> QED
  BY <1>1, <1>2 DEF RewindsTyped

LEMMA StartTypes ==
    ASSUME TypesInv, RecordInv, NEW s \in Session, RewindStart(s)
    PROVE  RewindsTyped'
<1>1. PICK target \in 1..Len(checkpoints[s]), code \in BOOLEAN, conversation \in BOOLEAN :
          rewinds' = [rewinds EXCEPT ![s] =
               [step |-> "code", target |-> target, code |-> code,
                conversation |-> conversation,
                todo |-> IF code THEN Rollbacks(s, target) ELSE <<>>,
                later |-> IF code THEN Later(s, target) ELSE {},
                from |-> Len(history), failed |-> FALSE]]
  BY DEF RewindStart
<1> DEFINE todo == IF code THEN Rollbacks(s, target) ELSE <<>>
           later == IF code THEN Later(s, target) ELSE {}
           v == [step |-> "code", target |-> target, code |-> code,
                 conversation |-> conversation, todo |-> todo, later |-> later,
                 from |-> Len(history), failed |-> FALSE]
<1>2. Len(checkpoints[s]) \in Nat /\ Len(history) \in Nat /\ target \in Nat
  BY AppendAny DEF TypesInv, SavesTyped, FilesTyped
<1>3. todo \in Seq(1..Len(backups))
  <2>1. Rollbacks(s, target) \in Seq(1..Len(backups))
    BY RollbacksType
  <2>2. <<>> \in Seq(1..Len(backups))
    OBVIOUS
  <2>3. CASE code
    BY <2>1, <2>3
  <2>4. CASE ~code
    BY <2>2, <2>4
  <2> QED
    BY <2>3, <2>4
<1>4. later \in SUBSET Nat
  BY <1>2 DEF Later
<1>5. rewinds' = [rewinds EXCEPT ![s] = v] /\ UNCHANGED <<checkpoints, backups>>
  BY <1>1 DEF RewindStart, sessionVars, engineVars
<1> HIDE DEF todo, later
<1>6. todo \in Seq(Nat)
  <2>1. 1..Len(backups) \subseteq Nat
    OBVIOUS
  <2> QED
    BY <1>3, <2>1, WiderSeq
<1>7. v \in RewindType /\ v.target = target /\ v.todo = todo
  BY <1>2, <1>4, <1>6 DEF RewindType
<1> HIDE DEF v
<1> QED
  BY <1>3, <1>5, <1>7, RewindingTypes

LEMMA DoneTypes ==
    ASSUME TypesInv, NEW s \in Session, Todo(s), NEW failed \in BOOLEAN, Done(s, failed),
           UNCHANGED <<checkpoints, backups>>
    PROVE  RewindsTyped'
<1> DEFINE todo == rewinds[s].todo
           v == [rewinds[s] EXCEPT !.todo = Tail(todo), !.failed = @ \/ failed]
<1>1. /\ rewinds[s] \in RewindType /\ todo # <<>>
      /\ rewinds[s].target \in 1..Len(checkpoints[s])
      /\ todo \in Seq(1..Len(backups))
  BY DEF Todo, TypesInv, RewindsTyped, NoRewind
<1>2. rewinds' = [rewinds EXCEPT ![s] = v]
  BY DEF Done
<1> HIDE DEF todo
<1>3. Tail(todo) \in Seq(1..Len(backups)) /\ todo \in Seq(Nat)
  <2>1. 1..Len(backups) \subseteq Nat
    OBVIOUS
  <2> QED
    BY <1>1, <2>1, WiderSeq
<1>4. Tail(todo) \in Seq(Nat)
  BY <1>1, <1>3
<1>5. (rewinds[s].failed \/ failed) \in BOOLEAN
  OBVIOUS
<1>6. v \in RewindType /\ v.target = rewinds[s].target /\ v.todo = Tail(todo)
  BY <1>1, <1>4, <1>5 DEF RewindType
<1> HIDE DEF v
<1> QED
  BY <1>1, <1>2, <1>3, <1>6, RewindingTypes

LEMMA RollbackTypes ==
    ASSUME TypesInv, NEW s \in Session, Rollback(s) \/ RollbackReturns(s)
    PROVE  CallsTyped' /\ RewindsTyped'
<1> DEFINE w == Rewinder(s)
<1>1. /\ UNCHANGED <<checkpoints, backups, edits, tool>>
      /\ saving \in [Writer -> {NotSaving} \union SavingType] /\ w \in Writer
  BY TypesFacts DEF Rollback, RollbackReturns, sessionVars, TypesInv, CallsTyped
<1>2. ASSUME NEW v \in {NotSaving} \union SavingType,
             saving' = [saving EXCEPT ![w] = v] \/ saving' = saving
      PROVE  CallsTyped'
  <2>1. saving' \in [Writer -> {NotSaving} \union SavingType]
    BY <1>1, <1>2
  <2> QED
    BY <1>1, <2>1 DEF TypesInv, CallsTyped
<1> HIDE DEF w
<1>3. CASE Rollback(s)
  <2> DEFINE p == Head(rewinds[s].todo)
  <2>1. Todo(s)
    BY <1>3 DEF Rollback
  <2>2. p \in 1..Len(backups)
    <3>1. rewinds[s].todo \in Seq(1..Len(backups)) /\ rewinds[s].todo # <<>>
      BY <2>1 DEF Todo, TypesInv, RewindsTyped, NoRewind
    <3> QED
      BY <3>1
  <2>3. backups[p] \in BackupType
    BY <2>2 DEF TypesInv, CallsTyped
  <2>4. CASE backups[p].meta
    <3> DEFINE v == [step |-> "temp", file |-> backups[p].file, content |-> backups[p].content]
    <3>1. saving' = [saving EXCEPT ![w] = v] /\ UNCHANGED rewinds
      BY <1>3, <2>4 DEF Rollback, StartSaving, w
    <3> HIDE DEF p
    <3>2. v \in SavingType
      BY <2>3 DEF SavingType, BackupType
    <3> HIDE DEF v
    <3>3. CallsTyped'
      BY <1>2, <3>1, <3>2
    <3>4. RewindsTyped'
      BY <1>1, <3>1 DEF TypesInv, RewindsTyped
    <3> QED
      BY <3>3, <3>4
  <2>5. CASE ~backups[p].meta
    <3>1. Done(s, TRUE) /\ UNCHANGED saving
      BY <1>3, <2>5 DEF Rollback
    <3> QED
      BY <1>1, <1>2, <2>1, <3>1, DoneTypes
  <2> QED
    BY <2>4, <2>5
<1>4. CASE RollbackReturns(s)
  <2>1. /\ saving[w].step \in {"saved", "failed"}
        /\ Done(s, saving[w].step = "failed")
        /\ saving' = [saving EXCEPT ![w] = NotSaving]
    BY <1>4 DEF RollbackReturns, w
  <2>2. Todo(s)
    BY <2>1 DEF TypesInv, RewindsBusy, NotSaving, w
  <2> QED
    BY <1>1, <1>2, <2>1, <2>2, DoneTypes
<1> QED
  BY <1>3, <1>4

\* The rewind is over, and its conversation perhaps the checkpoint's.
LEMMA OverTypes ==
    ASSUME TypesInv, NEW s \in Session,
           RewindCodeFails(s) \/ RewindSucceeds(s) \/ RewindConversationFails(s)
    PROVE  SavesTyped' /\ RewindsTyped'
<1>1. /\ rewinds' = [rewinds EXCEPT ![s] = NoRewind]
      /\ UNCHANGED <<backups, checkpoints, messages, run, memory, saves>>
      /\ Tried(s)
      /\ \/ UNCHANGED disk
         \/ disk' = [disk EXCEPT ![s] = checkpoints[s][rewinds[s].target].state]
  BY DEF RewindCodeFails, RewindSucceeds, RewindCode, RewindConversation,
         RewindConversationFails, RewindOver, sessionVars, engineVars
<1>2. RewindsTyped'
  BY <1>1, RewindingTypes
<1>3. rewinds[s].target \in 1..Len(checkpoints[s])
  BY <1>1 DEF Tried, TypesInv, RewindsTyped, NoRewind
<1>4. disk' \in [Session -> SUBSET (1..messages)]
  BY <1>1, <1>3 DEF TypesInv, SavesTyped
<1>5. SavesTyped'
  BY <1>1, <1>4 DEF TypesInv, SavesTyped
<1> QED
  BY <1>2, <1>5

LEMMA BusySteps ==
    ASSUME TypesInv, [Next]_vars
    PROVE  RewindsBusy'
<1>0. /\ saving \in [Writer -> {NotSaving} \union SavingType]
      /\ rewinds \in [Session -> {NoRewind} \union RewindType]
      /\ \A s \in Session : saving[Rewinder(s)] # NotSaving => Todo(s)
      /\ \A s \in Session : rewinds[s] = NoRewind => ~Todo(s)
  BY DEF TypesInv, CallsTyped, RewindsTyped, RewindsBusy, Todo, NoRewind
<1>1. ASSUME UNCHANGED rewinds,
             \A s \in Session : saving'[Rewinder(s)] # NotSaving => saving[Rewinder(s)] # NotSaving
      PROVE  RewindsBusy'
  BY <1>0, <1>1 DEF RewindsBusy, Todo
<1>2. \A r, s \in Session : Rewinder(r) # Tool(s) /\ (Rewinder(r) = Rewinder(s) => r = s)
  BY DEF Rewinder, Tool
<1>3. ASSUME NEW w \in Writer, WriteFile(w), UNCHANGED rewinds
      PROVE  RewindsBusy'
  <2>1. /\ saving[w] # NotSaving
        /\ \A x \in Writer : x # w => saving'[x] = saving[x]
    BY <1>0, <1>3 DEF WriteFile, SaveTemp, SaveTempFails, SaveRename, SaveRenameFails,
                      SaveRemove, SavingStep, NotSaving
  <2> QED
    BY <1>1, <1>3, <2>1, TypesFacts
<1>4. ASSUME NEW s \in Session, ToolCall(s) \/ ToolStep(s), UNCHANGED rewinds
      PROVE  RewindsBusy'
  <2>1. saving' = saving \/ \E v : saving' = [saving EXCEPT ![Tool(s)] = v]
    BY <1>4 DEF ToolCall, ToolRead, ToolReadSame, ToolStep, ToolCreate, ApplyNoBackup,
                ApplyPatch, ApplyMisfits, ApplyRecord, ApplyFailed, StartSaving
  <2>2. \A r \in Session : saving'[Rewinder(r)] = saving[Rewinder(r)]
    BY <1>0, <1>2, <2>1, TypesFacts
  <2> QED
    BY <1>1, <1>4, <2>2
<1>5. ASSUME NEW s \in Session, UNCHANGED saving, ~Todo(s),
             \A r \in Session : r # s => rewinds'[r] = rewinds[r]
      PROVE  RewindsBusy'
  BY <1>0, <1>5 DEF RewindsBusy, Todo
<1>6. ASSUME NEW s \in Session, RewindStep(s) PROVE RewindsBusy'
  <2>1. CASE RollbackSaves(s)
    BY <1>3, <2>1, TypesFacts DEF RollbackSaves, rewindVars
  <2>2. CASE RewindStart(s) \/ RewindCodeFails(s) \/ RewindSucceeds(s)
             \/ RewindConversationFails(s)
    <3>1. /\ UNCHANGED saving
          /\ rewinds[s].step = "none" \/ rewinds[s].todo = <<>>
          /\ \E v : rewinds' = [rewinds EXCEPT ![s] = v]
      BY <2>2 DEF RewindStart, RewindCodeFails, RewindSucceeds, RewindCode, RewindConversation,
                  RewindConversationFails, RewindOver, Tried, engineVars
    <3>2. \A r \in Session : r # s => rewinds'[r] = rewinds[r]
      BY <1>0, <3>1
    <3> QED
      BY <1>5, <3>1, <3>2 DEF Todo
  <2>3. CASE RollbackReturns(s)
    <3>1. /\ saving' = [saving EXCEPT ![Rewinder(s)] = NotSaving]
          /\ \E v : rewinds' = [rewinds EXCEPT ![s] = v]
      BY <2>3 DEF RollbackReturns, Done
    <3>2. \A r \in Session :
             IF r = s THEN saving'[Rewinder(r)] = NotSaving
             ELSE saving'[Rewinder(r)] = saving[Rewinder(r)] /\ rewinds'[r] = rewinds[r]
      BY <1>0, <1>2, <3>1, TypesFacts
    <3> QED
      BY <1>0, <3>2 DEF RewindsBusy, Todo
  <2>4. CASE Rollback(s)
    <3>1. CASE UNCHANGED rewinds
      <4>1. saving' = saving \/ \E v : saving' = [saving EXCEPT ![Rewinder(s)] = v]
        BY <2>4 DEF Rollback, StartSaving
      <4>2. \A r \in Session : r # s => saving'[Rewinder(r)] = saving[Rewinder(r)]
        BY <1>0, <1>2, <4>1, TypesFacts
      <4>3. Todo(s)
        BY <2>4 DEF Rollback
      <4> QED
        BY <1>0, <3>1, <4>2, <4>3 DEF RewindsBusy, Todo
    <3>2. CASE ~UNCHANGED rewinds
      <4>1. /\ UNCHANGED saving /\ saving[Rewinder(s)] = NotSaving
            /\ \E v : rewinds' = [rewinds EXCEPT ![s] = v]
        BY <2>4, <3>2 DEF Rollback, Done
      <4>2. \A r \in Session : r # s => rewinds'[r] = rewinds[r]
        BY <1>0, <4>1
      <4> QED
        BY <1>0, <4>1, <4>2 DEF RewindsBusy, Todo
    <3> QED
      BY <3>1, <3>2
  <2> QED
    BY <1>6, <2>1, <2>2, <2>3, <2>4 DEF RewindStep
<1>7. ASSUME NEW s \in Session, Loop(s) PROVE RewindsBusy'
  <2>1. CASE RunTool(s)
    BY <1>3, <1>4, <2>1, TypesFacts DEF RunTool, rewindVars
  <2>2. CASE ~RunTool(s)
    <3>1. UNCHANGED <<saving, rewinds>>
      BY <1>7, <2>2 DEF Loop, Recover, CheckpointTake, CheckpointSaveState, CheckpointSave,
                        CheckpointFails, rewindVars, engineVars
    <3> QED
      BY <1>1, <3>1
  <2> QED
    BY <2>1, <2>2
<1>8. ASSUME UNCHANGED <<saving, rewinds>> PROVE RewindsBusy'
  BY <1>1, <1>8
<1>9. ASSUME NEW s \in Session, Message(s) PROVE RewindsBusy'
  BY <1>8, <1>9 DEF Message, rewindVars, engineVars
<1>10. ASSUME NEW f \in File, Outside(f), UNCHANGED rewindVars PROVE RewindsBusy'
  BY <1>8, <1>10 DEF Outside, rewindVars
<1>11. CASE UNCHANGED vars
  BY <1>8, <1>11 DEF vars, rewindVars, engineVars
<1> QED
  BY <1>6, <1>7, <1>9, <1>10, <1>11 DEF Next

-----------------------------------------------------------------------------
\* Every step.

\* Nothing that a rewind goes by gets shorter.
LEMMA KeptRewinds ==
    ASSUME TypesInv, UNCHANGED rewinds, Len(backups) <= Len(backups'), Len(backups') \in Nat,
           \A s \in Session : /\ Len(checkpoints[s]) <= Len(checkpoints'[s])
                              /\ Len(checkpoints'[s]) \in Nat
    PROVE  RewindsTyped'
<1>1. rewinds' \in [Session -> {NoRewind} \union RewindType]
  BY DEF TypesInv, RewindsTyped
<1>2. ASSUME NEW s \in Session, rewinds[s] # NoRewind
      PROVE  /\ rewinds[s].target \in 1..Len(checkpoints'[s])
             /\ rewinds[s].todo \in Seq(1..Len(backups'))
  <2>1. /\ rewinds[s].target \in 1..Len(checkpoints[s])
        /\ rewinds[s].todo \in Seq(1..Len(backups))
    BY <1>2 DEF TypesInv, RewindsTyped
  <2>2. Len(backups) \in Nat /\ Len(checkpoints[s]) \in Nat
    BY DEF TypesInv, CallsTyped, SavesTyped
  <2>3. 1..Len(backups) \subseteq 1..Len(backups')
    BY <2>2
  <2>4. rewinds[s].todo \in Seq(1..Len(backups'))
    BY <2>1, <2>3, WiderSeq
  <2>5. rewinds[s].target \in 1..Len(checkpoints'[s])
    BY <2>1, <2>2
  <2> QED
    BY <2>4, <2>5
<1> QED
  BY <1>1, <1>2 DEF RewindsTyped

LEMMA NextTypes == TypesInv /\ RecordInv /\ [Next]_vars => TypesInv'
<1> SUFFICES ASSUME TypesInv, RecordInv, [Next]_vars PROVE TypesInv'
  OBVIOUS
<1>0. RewindsBusy'
  BY BusySteps
<1>1. /\ Len(backups) \in Nat /\ \A s \in Session : Len(checkpoints[s]) \in Nat
      /\ Len(backups) <= Len(backups)
      /\ \A s \in Session : Len(checkpoints[s]) <= Len(checkpoints[s])
  BY DEF TypesInv, CallsTyped, SavesTyped
<1>2. ASSUME UNCHANGED <<files, temp, fresh, history>> PROVE FilesTyped'
  BY <1>2 DEF TypesInv, FilesTyped
<1>3. ASSUME UNCHANGED <<backups, edits, tool, saving>> PROVE CallsTyped'
  BY <1>3 DEF TypesInv, CallsTyped
<1>4. ASSUME UNCHANGED <<messages, run, memory, disk, saves, checkpoints>> PROVE SavesTyped'
  BY <1>4 DEF TypesInv, SavesTyped
<1>5. ASSUME UNCHANGED <<rewinds, checkpoints>>, CallsTyped', Len(backups) <= Len(backups')
      PROVE  RewindsTyped'
  <2>1. Len(backups') \in Nat
    BY <1>5 DEF CallsTyped
  <2> QED
    BY <1>1, <1>5, <2>1, KeptRewinds
<1>6. ASSUME NEW f \in File, Outside(f), UNCHANGED <<sessionVars, rewindVars>>
      PROVE  TypesInv'
  <2>1. FilesTyped'
    BY <1>6, OutsideTypes DEF TypesInv
  <2>2. CallsTyped' /\ Len(backups) <= Len(backups')
    BY <1>1, <1>3, <1>6 DEF Outside
  <2>3. SavesTyped'
    BY <1>4, <1>6 DEF sessionVars
  <2>4. RewindsTyped'
    BY <1>5, <1>6, <2>2 DEF sessionVars, rewindVars
  <2> QED
    BY <1>0, <2>1, <2>2, <2>3, <2>4 DEF TypesInv
<1>7. ASSUME NEW s \in Session, Message(s) PROVE TypesInv'
  <2>1. FilesTyped' /\ CallsTyped' /\ Len(backups) <= Len(backups')
    BY <1>1, <1>2, <1>3, <1>7 DEF Message, engineVars, fileVars
  <2>2. SavesTyped'
    BY <1>7, MessageTypes
  <2>3. RewindsTyped'
    BY <1>5, <1>7, <2>1 DEF Message, rewindVars
  <2> QED
    BY <1>0, <2>1, <2>2, <2>3 DEF TypesInv
<1>8. ASSUME NEW s \in Session, NEW w \in Writer, WriteFile(w),
             UNCHANGED <<sessionVars, rewindVars>>
      PROVE  TypesInv'
  <2>1. FilesTyped' /\ CallsTyped'
    BY <1>8, WriteTypes
  <2>2. UNCHANGED backups
    BY <1>8 DEF WriteFile, SaveTemp, SaveTempFails, SaveRename, SaveRenameFails, SaveRemove
  <2>3. SavesTyped'
    BY <1>4, <1>8 DEF sessionVars
  <2>4. RewindsTyped'
    BY <1>1, <1>5, <1>8, <2>1, <2>2 DEF sessionVars, rewindVars
  <2> QED
    BY <1>0, <2>1, <2>3, <2>4 DEF TypesInv
<1>9. ASSUME NEW s \in Session, ToolCall(s) \/ ToolStep(s), UNCHANGED <<sessionVars, rewindVars>>
      PROVE  TypesInv'
  <2>1. FilesTyped' /\ CallsTyped' /\ Len(backups) <= Len(backups')
    <3>1. CASE ToolCall(s)
      <4>1. UNCHANGED backups
        BY <3>1 DEF ToolCall, ToolRead, ToolReadSame
      <4> QED
        BY <1>1, <3>1, <4>1, ReadTypes
    <3>2. CASE ToolStep(s)
      BY <3>2, ToolTypes
    <3> QED
      BY <1>9, <3>1, <3>2
  <2>2. SavesTyped'
    BY <1>4, <1>9 DEF sessionVars
  <2>3. RewindsTyped'
    BY <1>5, <1>9, <2>1 DEF sessionVars, rewindVars
  <2> QED
    BY <1>0, <2>1, <2>2, <2>3 DEF TypesInv
<1>10. ASSUME NEW s \in Session, Loop(s) PROVE TypesInv'
  <2>1. CASE RunTool(s)
    BY <1>8, <1>9, <2>1, TypesFacts DEF RunTool
  <2>2. CASE ~RunTool(s)
    <3>1. UNCHANGED <<files, temp, fresh, history, backups, edits, tool, saving, rewinds>>
      BY <1>10, <2>2 DEF Loop, Recover, CheckpointTake, CheckpointSaveState, CheckpointSave,
                         CheckpointFails, rewindVars, engineVars, fileVars
    <3>2. SavesTyped' /\ \A r \in Session : Len(checkpoints[r]) <= Len(checkpoints'[r])
      <4>1. CASE Recover(s)
        BY <1>1, <4>1 DEF Recover, TypesInv, SavesTyped
      <4>2. CASE ~Recover(s)
        BY <1>10, <2>2, <4>2, CheckpointTypes DEF Loop
      <4> QED
        BY <4>1, <4>2
    <3>3. \A r \in Session : Len(checkpoints'[r]) \in Nat
      BY <3>2 DEF SavesTyped
    <3>4. RewindsTyped'
      BY <1>1, <3>1, <3>2, <3>3, KeptRewinds
    <3> QED
      BY <1>0, <1>2, <1>3, <3>1, <3>2, <3>4 DEF TypesInv
  <2> QED
    BY <2>1, <2>2
<1>11. ASSUME NEW s \in Session, RewindStep(s) PROVE TypesInv'
  <2>1. CASE RollbackSaves(s)
    BY <1>8, <2>1, TypesFacts DEF RollbackSaves
  <2>2. CASE RewindStart(s)
    <3>1. FilesTyped' /\ CallsTyped' /\ SavesTyped'
      BY <1>2, <1>3, <1>4, <2>2 DEF RewindStart, sessionVars, engineVars, fileVars
    <3> QED
      BY <1>0, <2>2, <3>1, StartTypes DEF TypesInv
  <2>3. CASE Rollback(s) \/ RollbackReturns(s)
    <3>1. FilesTyped' /\ SavesTyped'
      BY <1>2, <1>4, <2>3 DEF Rollback, RollbackReturns, sessionVars, fileVars
    <3> QED
      BY <1>0, <2>3, <3>1, RollbackTypes DEF TypesInv
  <2>4. CASE RewindCodeFails(s) \/ RewindSucceeds(s) \/ RewindConversationFails(s)
    <3>1. FilesTyped' /\ CallsTyped'
      BY <1>2, <1>3, <2>4 DEF RewindCodeFails, RewindSucceeds, RewindCode, RewindConversation,
                              RewindConversationFails, engineVars, fileVars
    <3> QED
      BY <1>0, <2>4, <3>1, OverTypes DEF TypesInv
  <2> QED
    BY <1>11, <2>1, <2>2, <2>3, <2>4 DEF RewindStep
<1>12. CASE UNCHANGED vars
  <2>1. FilesTyped' /\ CallsTyped' /\ SavesTyped' /\ UNCHANGED <<rewinds, checkpoints, backups>>
    BY <1>2, <1>3, <1>4, <1>12 DEF vars, sessionVars, rewindVars, engineVars, fileVars
  <2>2. RewindsTyped'
    BY <1>1, <1>5, <2>1
  <2> QED
    BY <1>0, <2>1, <2>2 DEF TypesInv
<1> QED
  BY <1>6, <1>7, <1>10, <1>11, <1>12 DEF Next

\* Every variable holds a value of its type, a patch on record has a backup, and
\* no message is in a state before it was sent (TypeOK), for any sessions, files
\* and bounds: so a rollback always names a backup and a rewind a checkpoint.
THEOREM TypeCorrect == Spec => []TypeOK
<1>1. TypesInv /\ RecordInv => TypeOK
  <2> SUFFICES ASSUME TypesInv, RecordInv PROVE TypeOK
    OBVIOUS
  <2>1. \A f \in File : temp[f] \subseteq Contents /\ Cardinality(temp[f]) <= 1
    <3> SUFFICES ASSUME NEW f \in File
                 PROVE  temp[f] \subseteq Contents /\ Cardinality(temp[f]) <= 1
      OBVIOUS
    <3>1. temp[f] \subseteq Contents /\ (temp[f] = {} \/ \E content : temp[f] = {content})
      BY DEF TypesInv, FilesTyped
    <3>2. Cardinality(temp[f]) \in {0, 1}
      BY <3>1, FS_EmptySet, FS_Singleton
    <3> QED
      BY <3>1, <3>2
  <2>2. changes \in Seq(1..Len(backups))
    BY RecordTypes
  <2>3. \A s \in Session :
           /\ memory[s] \subseteq 1..messages /\ disk[s] \subseteq 1..messages
           /\ checkpoints[s] \in Seq(CheckpointType)
    BY DEF TypesInv, SavesTyped
  <2> QED
    BY <2>1, <2>2, <2>3 DEF TypeOK, TypesInv, FilesTyped, CallsTyped, SavesTyped, BackupType
<1>2. Spec => [](TypesInv /\ RecordInv)
  BY InitTypes, NextTypes, InitRecordInv, NextRecordInv, PTL DEF Spec
<1> QED
  BY <1>1, <1>2, PTL

-----------------------------------------------------------------------------
(***************************************************************************)
(* What rewinds make of the files.  No variable says what a file held      *)
(* before, so the proof tells the story of the files: contents[i] are the  *)
(* files after the i-th change of the history, and backedUp[p] is how many *)
(* changes there were when the backup of patch p was made.  The invariant  *)
(* says that there is such a story, and that it is one of the history, the *)
(* backups and the checkpoints there are.                                  *)
(***************************************************************************)

\* Every change is of one file, a backup is of the file as it was, a patch is
\* written once and after its backup, and before the session's next patch is
\* backed up.
Told(contents, backedUp, hist, now, saved) ==
    /\ contents[Len(hist)] = now
    /\ \A i \in 1..Len(hist) : \A f \in File :
         f # hist[i].file => contents[i][f] = contents[i - 1][f]
    /\ \A p \in 1..Len(saved) :
         backedUp[p] <= Len(hist) /\ saved[p].content = contents[backedUp[p]][saved[p].file]
    /\ \A i \in 1..Len(hist) : hist[i].patch # 0 =>
         /\ hist[i].patch \in 1..Len(saved) /\ hist[i].file = saved[hist[i].patch].file
         /\ backedUp[hist[i].patch] < i
         /\ \A j \in 1..Len(hist) : hist[j].patch = hist[i].patch => j = i
         /\ \A q \in 1..Len(saved) :
              q > hist[i].patch /\ saved[q].by = saved[hist[i].patch].by => i <= backedUp[q]

\* The last patch that its session backed up, and not yet written.
Unwritten(p, hist, saved) ==
    /\ p \in 1..Len(saved)
    /\ \A j \in 1..Len(hist) : hist[j].patch # p
    /\ \A q \in 1..Len(saved) : q > p => saved[q].by # saved[p].by

LEMMA ToldChange ==
    ASSUME NEW contents \in [Nat -> [File -> Contents]], NEW backedUp \in [Nat -> Nat],
           NEW hist, IsSeq(hist), NEW now, NEW saved \in Seq(BackupType),
           Told(contents, backedUp, hist, now, saved),
           NEW h, NEW next \in [File -> Contents],
           \A f \in File : f # h.file => next[f] = now[f],
           h.patch # 0 => h.file = saved[h.patch].file /\ Unwritten(h.patch, hist, saved)
    PROVE  Told([contents EXCEPT ![Len(hist) + 1] = next], backedUp, Append(hist, h), next, saved)
<1> DEFINE n == Len(hist)
           more == Append(hist, h)
           C == [contents EXCEPT ![n + 1] = next]
<1>1. /\ n \in Nat /\ Len(more) = n + 1 /\ more[n + 1] = h
      /\ \A i \in 1..n : more[i] = hist[i]
  BY AppendAny
<1>2. C[n + 1] = next /\ \A i \in 0..n : C[i] = contents[i]
  <2>1. n \in Nat /\ contents \in [Nat -> [File -> Contents]]
    BY <1>1
  <2> QED
    BY ONLY <2>1
<1>0. ASSUME NEW p \in 1..Len(saved) PROVE backedUp[p] \in 0..n
  <2>1. backedUp[p] <= n
    BY DEF Told
  <2>2. backedUp[p] \in Nat
    OBVIOUS
  <2> QED
    BY ONLY <1>1, <2>1, <2>2
<1> HIDE DEF n, more, C
<1>3. C[Len(more)] = next
  BY <1>1, <1>2
<1>4. ASSUME NEW i \in 1..Len(more), NEW f \in File, f # more[i].file
      PROVE  C[i][f] = C[i - 1][f]
  <2>1. CASE i = n + 1
    <3>1. contents[n] = now
      BY DEF Told, n
    <3>2. n \in 0..n /\ i - 1 = n
      BY ONLY <1>1, <2>1
    <3>3. C[i - 1] = now
      BY <1>2, <3>1, <3>2
    <3> QED
      BY <1>1, <1>2, <1>4, <2>1, <3>3
  <2>2. CASE i # n + 1
    <3>1. i \in 1..n /\ i \in 0..n /\ i - 1 \in 0..n
      <4>1. i \in 1..Len(more)
        OBVIOUS
      <4> QED
        BY ONLY <1>1, <2>2, <4>1
    <3>2. f # hist[i].file /\ i \in 1..Len(hist)
      BY <1>1, <1>4, <3>1 DEF n
    <3>3. contents[i][f] = contents[i - 1][f]
      BY <3>2 DEF Told
    <3> QED
      BY <1>2, <3>1, <3>3
  <2> QED
    BY <2>1, <2>2
<1>5. ASSUME NEW p \in 1..Len(saved)
      PROVE  backedUp[p] <= Len(more) /\ saved[p].content = C[backedUp[p]][saved[p].file]
  <2>1. backedUp[p] <= n /\ saved[p].content = contents[backedUp[p]][saved[p].file]
    BY DEF Told, n
  <2>2. backedUp[p] \in 0..n /\ backedUp[p] <= n + 1
    <3>1. backedUp[p] \in Nat
      OBVIOUS
    <3> QED
      BY ONLY <1>1, <2>1, <3>1
  <2> QED
    BY <1>1, <1>2, <2>1, <2>2
<1>6. ASSUME NEW i \in 1..Len(more), more[i].patch # 0
      PROVE  /\ more[i].patch \in 1..Len(saved) /\ more[i].file = saved[more[i].patch].file
             /\ backedUp[more[i].patch] < i
             /\ \A j \in 1..Len(more) : more[j].patch = more[i].patch => j = i
             /\ \A q \in 1..Len(saved) :
                  q > more[i].patch /\ saved[q].by = saved[more[i].patch].by => i <= backedUp[q]
  <2>0. \A j \in 1..Len(more) : j = n + 1 \/ j \in 1..n
    BY <1>1
  <2>1. CASE i = n + 1
    <3>1. /\ more[i] = h /\ h.patch \in 1..Len(saved) /\ h.file = saved[h.patch].file
          /\ Unwritten(h.patch, hist, saved)
      BY <1>1, <1>6, <2>1 DEF Unwritten
    <3>2. backedUp[h.patch] < i
      <4>1. backedUp[h.patch] \in 0..n
        BY <1>0, <3>1
      <4>2. \A x \in 0..n : x < n + 1
        BY ONLY <1>1
      <4> QED
        BY <2>1, <4>1, <4>2
    <3>3. \A j \in 1..Len(more) : more[j].patch = h.patch => j = i
      BY <1>1, <2>0, <2>1, <3>1 DEF n, Unwritten
    <3>4. \A q \in 1..Len(saved) : q > h.patch => saved[q].by # saved[h.patch].by
      BY <3>1 DEF Unwritten
    <3> QED
      BY <3>1, <3>2, <3>3, <3>4
  <2>2. CASE i \in 1..n
    <3>1. more[i] = hist[i] /\ hist[i].patch # 0
      BY <1>1, <1>6, <2>2
    <3>2. /\ hist[i].patch \in 1..Len(saved) /\ hist[i].file = saved[hist[i].patch].file
          /\ backedUp[hist[i].patch] < i
          /\ \A j \in 1..n : hist[j].patch = hist[i].patch => j = i
          /\ \A q \in 1..Len(saved) :
               q > hist[i].patch /\ saved[q].by = saved[hist[i].patch].by => i <= backedUp[q]
      BY <2>2, <3>1 DEF Told, n
    <3>3. h.patch # hist[i].patch
      BY <2>2, <3>1 DEF n, Unwritten
    <3>4. \A j \in 1..Len(more) : more[j].patch = hist[i].patch => j = i
      BY <1>1, <2>0, <3>2, <3>3
    <3> QED
      BY <3>1, <3>2, <3>4
  <2> QED
    BY <2>0, <2>1, <2>2
<1> QED
  BY <1>3, <1>4, <1>5, <1>6 DEF Told, n, more, C

LEMMA ToldBackup ==
    ASSUME NEW contents \in [Nat -> [File -> Contents]], NEW backedUp \in [Nat -> Nat],
           NEW hist, IsSeq(hist), NEW now, NEW saved \in Seq(BackupType),
           Told(contents, backedUp, hist, now, saved),
           NEW b \in BackupType, b.content = now[b.file]
    PROVE  Told(contents, [backedUp EXCEPT ![Len(saved) + 1] = Len(hist)], hist, now,
                Append(saved, b))
<1> DEFINE n == Len(hist)
           m == Len(saved)
           more == Append(saved, b)
           B == [backedUp EXCEPT ![m + 1] = n]
<1>1. /\ m \in Nat /\ Len(more) = m + 1 /\ more[m + 1] = b
      /\ \A p \in 1..m : more[p] = saved[p]
      /\ n \in Nat
  BY AppendAny
<1>2. B[m + 1] = n /\ \A p \in 1..m : B[p] = backedUp[p]
  <2>1. m \in Nat /\ backedUp \in [Nat -> Nat]
    BY <1>1
  <2> QED
    BY ONLY <2>1
<1> HIDE DEF m, more, B
<1>3. \A p \in 1..Len(more) : p = m + 1 \/ p \in 1..m
  BY ONLY <1>1
<1>4. contents[n] = now
      /\ \A i \in 1..n : \A f \in File :
            f # hist[i].file => contents[i][f] = contents[i - 1][f]
  BY DEF Told
<1>5. \A p \in 1..m :
         backedUp[p] <= n /\ saved[p].content = contents[backedUp[p]][saved[p].file]
  BY DEF Told, m
<1>6. \A p \in 1..Len(more) :
         B[p] <= n /\ more[p].content = contents[B[p]][more[p].file]
  <2> SUFFICES ASSUME NEW p \in 1..Len(more)
               PROVE  B[p] <= n /\ more[p].content = contents[B[p]][more[p].file]
    OBVIOUS
  <2>1. CASE p = m + 1
    <3>1. B[p] = n /\ more[p] = b
      BY <1>1, <1>2, <2>1
    <3> QED
      BY <1>1, <1>4, <3>1
  <2>2. CASE p \in 1..m
    BY <1>1, <1>2, <1>5, <2>2
  <2> QED
    BY <1>3, <2>1, <2>2
<1>7. ASSUME NEW i \in 1..n, hist[i].patch # 0
      PROVE  /\ hist[i].patch \in 1..Len(more) /\ hist[i].file = more[hist[i].patch].file
             /\ B[hist[i].patch] < i
             /\ \A j \in 1..n : hist[j].patch = hist[i].patch => j = i
             /\ \A q \in 1..Len(more) :
                  q > hist[i].patch /\ more[q].by = more[hist[i].patch].by => i <= B[q]
  <2>1. /\ hist[i].patch \in 1..m /\ hist[i].file = saved[hist[i].patch].file
        /\ backedUp[hist[i].patch] < i
        /\ \A j \in 1..n : hist[j].patch = hist[i].patch => j = i
        /\ \A q \in 1..m :
             q > hist[i].patch /\ saved[q].by = saved[hist[i].patch].by => i <= backedUp[q]
    BY <1>7 DEF Told, m
  <2>2. 1..m \subseteq 1..Len(more)
    BY ONLY <1>1
  <2>3. i <= n
    BY <1>1
  <2>4. hist[i].patch \in 1..Len(more)
    BY <2>1, <2>2
  <2> QED
    BY <1>1, <1>2, <1>3, <2>1, <2>3, <2>4
<1> QED
  BY <1>4, <1>6, <1>7 DEF Told, m, more, B

\* A file that none of some changes was of, is as it was before them.
Spared(f, hist, a, b) == \A i \in (a + 1)..b : hist[i].file # f

LEMMA Untouched ==
    ASSUME NEW contents, NEW backedUp,
           NEW hist, IsSeq(hist), NEW now, NEW saved, Told(contents, backedUp, hist, now, saved),
           NEW f, f \in File, NEW a, a \in Nat, NEW b, b \in a..Len(hist), Spared(f, hist, a, b)
    PROVE  contents[b][f] = contents[a][f]
<1> USE DEF Spared
<1> DEFINE Wrong == {i \in a..b : contents[i][f] # contents[a][f]}
<1>0. Len(hist) \in Nat /\ b \in Nat /\ b <= Len(hist) /\ a <= b
  BY AppendAny
<1>1. CASE Wrong # {}
  <2>1. Wrong \in SUBSET Nat
    BY <1>0
  <2>2. PICK i \in Wrong : \A j \in Wrong : i <= j
    BY <1>1, <2>1, LeastNatural
  <2>3. i \in a..b /\ contents[i][f] # contents[a][f]
    BY <2>2
  <2>4. i # a
    BY <2>3
  <2>5. i - 1 \in a..b /\ ~(i <= i - 1) /\ i \in (a + 1)..b /\ i \in 1..Len(hist)
    BY <1>0, <2>3, <2>4
  <2>6. contents[i - 1][f] = contents[a][f]
    <3>1. i - 1 \notin Wrong
      <4> HIDE DEF Wrong
      <4> QED
        BY <2>2, <2>5
    <3> QED
      BY <2>5, <3>1
  <2>7. contents[i][f] = contents[i - 1][f]
    BY <2>5 DEF Told
  <2> QED
    BY <2>3, <2>6, <2>7
<1>2. CASE Wrong = {}
  BY <1>0, <1>2
<1> QED
  BY <1>1, <1>2

-----------------------------------------------------------------------------
\* The checkpoints of a session, and the one it is saving.
Taken(s) ==
    {checkpoints[s][k] : k \in 1..Len(checkpoints[s])}
    \union (IF saves[s] = NoSave THEN {} ELSE {saves[s]})

\* A call that saves has made the last backup of its session, of its file, and
\* after the session's checkpoints: the loop does one thing at a time.
CallTold(s, backedUp) ==
    tool[s].step = "saving" =>
        /\ tool[s].patch \in 1..Len(backups)
        /\ backups[tool[s].patch].by = s /\ backups[tool[s].patch].file = tool[s].file
        /\ \A q \in 1..Len(backups) : q > tool[s].patch => backups[q].by # s
        /\ \A taken \in Taken(s) : taken.at <= backedUp[tool[s].patch]

\* A checkpoint has the files as they were, and the session's patches that were
\* written later were backed up later.
TakenTold(s, taken, contents, backedUp) ==
    /\ taken.at \in 0..Len(history) /\ taken.was = contents[taken.at]
    /\ \A i \in (taken.at + 1)..Len(history) :
         history[i].patch # 0 /\ backups[history[i].patch].by = s
           => taken.at <= backedUp[history[i].patch]

Story(contents, backedUp) ==
    /\ Told(contents, backedUp, history, files, backups)
    /\ \A s \in Session : CallTold(s, backedUp)
    /\ \A s \in Session : \A taken \in Taken(s) : TakenTold(s, taken, contents, backedUp)

Trace == [Nat -> [File -> Contents]]

LEMMA AtMost ==
    ASSUME NEW n \in Nat, NEW i \in 0..n
    PROVE  i <= n
OBVIOUS

LEMMA AfterSome ==
    ASSUME NEW n \in Nat, NEW k \in 0..n, NEW i \in (k + 1)..n
    PROVE  i \in 1..n
OBVIOUS

LEMMA OneMore ==
    ASSUME NEW n \in Nat, NEW k \in 0..n, NEW i \in (k + 1)..(n + 1)
    PROVE  i = n + 1 \/ (i \in 1..n /\ i \in (k + 1)..n)
OBVIOUS

\* While nothing happens to files and backups, the story stays the same.
LEMMA StoryKept ==
    ASSUME TypesInv, NEW contents \in Trace, NEW backedUp \in [Nat -> Nat],
           Story(contents, backedUp), UNCHANGED <<history, files, backups>>,
           \A s \in Session : tool'[s].step = "saving" => tool'[s] = tool[s],
           \A s \in Session : \A new \in Taken(s)' :
             \/ \E old \in Taken(s) : old.at = new.at /\ old.was = new.was
             \/ new.at = Len(history) /\ new.was = files /\ tool'[s].step # "saving"
    PROVE  Story(contents, backedUp)'
<1>0. Len(history) \in Nat
  BY AppendAny DEF TypesInv, FilesTyped
<1>1. Told(contents, backedUp, history, files, backups)'
  BY DEF Story, Told
<1>2. ASSUME NEW s \in Session PROVE CallTold(s, backedUp)'
  <2> SUFFICES ASSUME tool'[s].step = "saving"
               PROVE  /\ tool'[s].patch \in 1..Len(backups)
                      /\ backups[tool'[s].patch].by = s
                      /\ backups[tool'[s].patch].file = tool'[s].file
                      /\ \A q \in 1..Len(backups) : q > tool'[s].patch => backups[q].by # s
                      /\ \A new \in Taken(s)' : new.at <= backedUp[tool'[s].patch]
    BY DEF CallTold
  <2>1. tool'[s] = tool[s] /\ CallTold(s, backedUp)
    BY DEF Story
  <2>2. ASSUME NEW new \in Taken(s)' PROVE new.at <= backedUp[tool[s].patch]
    <3>1. PICK old \in Taken(s) : old.at = new.at
      BY <2>2
    <3> QED
      BY <2>1, <3>1 DEF CallTold
  <2> QED
    BY <2>1, <2>2 DEF CallTold
<1>3. ASSUME NEW s \in Session, NEW new \in Taken(s)'
      PROVE  TakenTold(s, new, contents, backedUp)'
  <2>1. CASE \E old \in Taken(s) : old.at = new.at /\ old.was = new.was
    <3>1. PICK old \in Taken(s) : old.at = new.at /\ old.was = new.was
      BY <2>1
    <3>2. TakenTold(s, old, contents, backedUp)
      BY DEF Story
    <3> QED
      BY <3>1, <3>2 DEF TakenTold
  <2>2. CASE new.at = Len(history) /\ new.was = files
    <3>1. contents[Len(history)] = files
      BY DEF Story, Told
    <3>2. (Len(history) + 1)..Len(history) = {} /\ Len(history) \in 0..Len(history)
      BY <1>0
    <3> QED
      BY <2>2, <3>1, <3>2 DEF TakenTold
  <2> QED
    BY <1>3, <2>1, <2>2
<1> QED
  BY <1>1, <1>2, <1>3 DEF Story

\* A file changes: nobody's patch writes it, or a call does.
LEMMA StoryGoesOn ==
    ASSUME TypesInv, NEW contents \in Trace, NEW backedUp \in [Nat -> Nat],
           Story(contents, backedUp),
           NEW h, history' = Append(history, h), files' \in [File -> Contents],
           \A f \in File : f # h.file => files'[f] = files[f],
           UNCHANGED <<backups, saves, checkpoints>>,
           \A s \in Session : tool'[s].step = "saving" => tool'[s] = tool[s],
           h.patch # 0 => \E s \in Session :
               /\ tool[s].step = "saving" /\ h.patch = tool[s].patch /\ h.file = tool[s].file
               /\ \A i \in 1..Len(history) : history[i].patch # h.patch
    PROVE  \E more \in Trace : Story(more, backedUp)'
<1> DEFINE n == Len(history)
<1>0. /\ n \in Nat /\ Len(history') = n + 1 /\ history'[n + 1] = h
      /\ \A i \in 1..n : history'[i] = history[i]
  BY AppendAny DEF TypesInv, FilesTyped
<1>a. [contents EXCEPT ![n + 1] = files'] \in Trace
  <2>1. files' \in [File -> Contents] /\ contents \in [Nat -> [File -> Contents]]
    BY DEF Trace
  <2> HIDE DEF n
  <2>2. n + 1 \in Nat
    BY ONLY <1>0
  <2> QED
    BY ONLY <2>1, <2>2 DEF Trace
<1>b. PICK more \in Trace : more = [contents EXCEPT ![n + 1] = files']
  BY <1>a
<1>1. \A i \in 0..n : more[i] = contents[i]
  <2>1. contents \in [Nat -> [File -> Contents]] /\ n \in Nat
    BY <1>0 DEF Trace
  <2> HIDE DEF n
  <2> QED
    BY ONLY <1>b, <2>1 DEF Trace
<1>2. Told(more, backedUp, history', files', backups')
  <2>1. h.patch # 0 => h.file = backups[h.patch].file /\ Unwritten(h.patch, history, backups)
    <3> SUFFICES ASSUME h.patch # 0
                 PROVE  h.file = backups[h.patch].file /\ Unwritten(h.patch, history, backups)
      OBVIOUS
    <3>1. PICK s \in Session :
             /\ tool[s].step = "saving" /\ h.patch = tool[s].patch /\ h.file = tool[s].file
             /\ \A i \in 1..Len(history) : history[i].patch # h.patch
      OBVIOUS
    <3>2. CallTold(s, backedUp)
      BY DEF Story
    <3> QED
      BY <3>1, <3>2 DEF CallTold, Unwritten
  <2>2. /\ Told(contents, backedUp, history, files, backups) /\ IsSeq(history)
        /\ backups \in Seq(BackupType)
    BY DEF Story, TypesInv, FilesTyped, CallsTyped
  <2>3. Told([contents EXCEPT ![Len(history) + 1] = files'], backedUp, Append(history, h),
             files', backups)
    <3>1. contents \in [Nat -> [File -> Contents]]
      BY DEF Trace
    <3> HIDE DEF n
    <3> QED
      BY <2>1, <2>2, <3>1, ToldChange
  <2> QED
    BY <1>b, <2>3
<1> HIDE DEF n
<1>3. ASSUME NEW s \in Session PROVE Taken(s)' = Taken(s)
  BY DEF Taken
<1>4. ASSUME NEW s \in Session PROVE CallTold(s, backedUp)'
  <2>1. CallTold(s, backedUp)
    BY DEF Story
  <2> QED
    BY <1>3, <2>1 DEF CallTold
<1>5. ASSUME NEW s \in Session, NEW taken \in Taken(s)
      PROVE  TakenTold(s, taken, more, backedUp)'
  <2>1. TakenTold(s, taken, contents, backedUp)
    BY DEF Story
  <2>2. taken.at \in 0..n /\ taken.at \in 0..Len(history') /\ taken.was = more[taken.at]
    <3>1. taken.at \in 0..n /\ taken.was = contents[taken.at]
      BY <2>1 DEF TakenTold, n
    <3>2. 0..n \subseteq 0..(n + 1)
      BY <1>0
    <3> QED
      BY <1>0, <1>1, <3>1, <3>2
  <2>3. ASSUME NEW i \in (taken.at + 1)..Len(history'), history'[i].patch # 0,
               backups[history'[i].patch].by = s
        PROVE  taken.at <= backedUp[history'[i].patch]
    <3>0. i = n + 1 \/ (i \in 1..n /\ i \in (taken.at + 1)..n)
      <4>1. i \in (taken.at + 1)..(n + 1) /\ taken.at \in 0..n
        BY <1>0, <2>2
      <4> QED
        BY <1>0, <4>1, OneMore
    <3>1. CASE i = n + 1
      <4>1. history'[i] = h
        BY <1>0, <3>1
      <4>2. PICK r \in Session : tool[r].step = "saving" /\ h.patch = tool[r].patch
        BY <2>3, <4>1
      <4>3. CallTold(r, backedUp)
        BY DEF Story
      <4>4. r = s
        BY <2>3, <4>1, <4>2, <4>3 DEF CallTold
      <4> QED
        BY <4>1, <4>2, <4>3, <4>4 DEF CallTold
    <3>2. CASE i \in 1..n /\ i \in (taken.at + 1)..n
      BY <1>0, <2>1, <2>3, <3>2 DEF TakenTold, n
    <3> QED
      BY <3>0, <3>1, <3>2
  <2> QED
    BY <2>2, <2>3 DEF TakenTold
<1>6. Story(more, backedUp)'
  BY <1>2, <1>3, <1>4, <1>5 DEF Story
<1> QED
  BY <1>1, <1>6

\* A call makes a backup.
LEMMA StoryBacksUp ==
    ASSUME TypesInv, NEW contents \in Trace, NEW backedUp \in [Nat -> Nat],
           Story(contents, backedUp),
           NEW s \in Session, tool[s].step # "saving",
           NEW b \in BackupType, b.by = s, b.content = files[b.file],
           backups' = Append(backups, b),
           UNCHANGED <<history, files, saves, checkpoints>>,
           \A r \in Session : r # s => tool'[r] = tool[r],
           tool'[s].step = "saving" =>
               tool'[s].patch = Len(backups) + 1 /\ tool'[s].file = b.file
    PROVE  \E more \in [Nat -> Nat] : Story(contents, more)'
<1> DEFINE m == Len(backups)
<1>0. /\ m \in Nat /\ Len(backups') = m + 1 /\ backups'[m + 1] = b
      /\ \A p \in 1..m : backups'[p] = backups[p]
      /\ Len(history) \in Nat
  <2>1. IsSeq(backups) /\ IsSeq(history)
    <3>1. backups \in Seq(BackupType) /\ IsSeq(history)
      BY DEF TypesInv, CallsTyped, FilesTyped
    <3> QED
      BY <3>1 DEF IsSeq
  <2>2. m \in Nat /\ Len(history) \in Nat
    BY <2>1, AppendAny
  <2>3. Len(backups') = m + 1 /\ backups'[m + 1] = b
    BY <2>1, AppendAny
  <2>4. /\ DOMAIN backups = 1..m
        /\ \A p \in DOMAIN backups : Append(backups, b)[p] = backups[p]
        /\ backups' = Append(backups, b)
    <3> HIDE DEF m
    <3>1. DOMAIN backups = 1..Len(backups)
      BY <2>1, AppendAny
    <3>2. \A p \in DOMAIN backups : Append(backups, b)[p] = backups[p]
      BY <2>1, AppendAny, ZenonT(30)
    <3> QED
      BY <3>1, <3>2 DEF m
  <2> QED
    BY ONLY <2>2, <2>3, <2>4
<1>a. [backedUp EXCEPT ![m + 1] = Len(history)] \in [Nat -> Nat]
  <2>1. m \in Nat /\ Len(history) \in Nat /\ backedUp \in [Nat -> Nat]
    BY <1>0
  <2> HIDE DEF m
  <2> QED
    BY ONLY <2>1
<1>b. PICK more \in [Nat -> Nat] : more = [backedUp EXCEPT ![m + 1] = Len(history)]
  BY <1>a
<1>1. more[m + 1] = Len(history) /\ \A p \in 1..m : more[p] = backedUp[p]
  <2>1. m \in Nat /\ backedUp \in [Nat -> Nat]
    BY <1>0
  <2> HIDE DEF m
  <2> QED
    BY ONLY <1>b, <2>1
<1>2. Told(contents, more, history', files', backups')
  <2>1. /\ Told(contents, backedUp, history, files, backups) /\ IsSeq(history)
        /\ backups \in Seq(BackupType)
    BY DEF Story, TypesInv, FilesTyped, CallsTyped
  <2>2. Told(contents, more, history, files, Append(backups, b))
    BY <1>b, <2>1, ToldBackup DEF Trace
  <2> QED
    BY <2>2
<1> HIDE DEF m
<1>3. ASSUME NEW r \in Session PROVE Taken(r)' = Taken(r)
  BY DEF Taken
<1>4. \A r \in Session : \A taken \in Taken(r) : taken.at \in 0..Len(history)
  BY DEF Story, TakenTold
<1>5. \A p \in 1..Len(backups') : p = m + 1 \/ p \in 1..m
  BY ONLY <1>0
<1>6. ASSUME NEW r \in Session, tool'[r].step = "saving"
      PROVE  CallTold(r, more)'
  <2>1. CASE r = s
    <3>1. tool'[r].patch = m + 1 /\ tool'[r].file = b.file
      BY <1>6, <2>1 DEF m
    <3>2. tool'[r].patch \in 1..Len(backups') /\ \A q \in 1..Len(backups') : ~(q > m + 1)
      <4>1. m + 1 \in 1..(m + 1) /\ \A q \in 1..(m + 1) : ~(q > m + 1)
        BY ONLY <1>0
      <4> QED
        BY <1>0, <3>1, <4>1
    <3>3. backups'[tool'[r].patch] = b /\ more[tool'[r].patch] = Len(history)
      BY <1>0, <1>1, <3>1
    <3>4. \A taken \in Taken(r) : taken.at <= Len(history)
      BY <1>0, <1>4, AtMost
    <3> QED
      BY <1>3, <2>1, <3>1, <3>2, <3>3, <3>4 DEF CallTold
  <2>2. CASE r # s
    <3>1. /\ tool'[r] = tool[r] /\ tool[r].patch \in 1..m
          /\ backups[tool[r].patch].by = r /\ backups[tool[r].patch].file = tool[r].file
          /\ \A q \in 1..m : q > tool[r].patch => backups[q].by # r
          /\ \A taken \in Taken(r) : taken.at <= backedUp[tool[r].patch]
      BY <1>6, <2>2 DEF Story, CallTold, m
    <3>2. tool[r].patch \in 1..Len(backups')
      <4>1. 1..m \subseteq 1..Len(backups')
        BY ONLY <1>0
      <4> QED
        BY <3>1, <4>1
    <3>3. \A q \in 1..Len(backups') : q > tool[r].patch => backups'[q].by # r
      BY <1>0, <1>5, <2>2, <3>1
    <3> QED
      BY <1>0, <1>1, <1>3, <3>1, <3>2, <3>3 DEF CallTold
  <2> QED
    BY <2>1, <2>2
<1>7. ASSUME NEW r \in Session, NEW taken \in Taken(r)
      PROVE  TakenTold(r, taken, contents, more)'
  <2>1. TakenTold(r, taken, contents, backedUp)
    BY DEF Story
  <2>2. ASSUME NEW i \in (taken.at + 1)..Len(history), history[i].patch # 0,
               backups'[history[i].patch].by = r
        PROVE  taken.at <= more[history[i].patch]
    <3>1. i \in 1..Len(history)
      <4>1. taken.at \in 0..Len(history)
        BY <1>4
      <4> QED
        BY <1>0, <4>1, AfterSome
    <3>2. history[i].patch \in 1..m
      BY <2>2, <3>1 DEF Story, Told, m
    <3> QED
      BY <1>0, <1>1, <2>1, <2>2, <3>2 DEF TakenTold
  <2> QED
    BY <2>1, <2>2 DEF TakenTold
<1>8. Story(contents, more)'
  <2>1. \A r \in Session : CallTold(r, more)'
    BY <1>6 DEF CallTold
  <2> QED
    BY <1>2, <1>3, <1>7, <2>1 DEF Story
<1> QED
  BY <1>1, <1>8

\* What a sequence has, and what came last.
LEMMA AppendedMembers ==
    ASSUME NEW q, IsSeq(q), NEW v, NEW more, more = Append(q, v)
    PROVE  \A i \in 1..Len(more) : more[i] = v \/ \E j \in 1..Len(q) : more[i] = q[j]
<1>1. Len(q) \in Nat /\ Len(more) = Len(q) + 1 /\ more[Len(q) + 1] = v
  BY AppendAny
<1>2. \A i \in 1..Len(q) : more[i] = q[i]
  BY AppendAny
<1>3. \A i \in 1..Len(more) : i = Len(q) + 1 \/ i \in 1..Len(q)
  BY ONLY <1>1
<1> QED
  BY <1>1, <1>2, <1>3

\* What writeFile does: the file changes when f.tmp is renamed.
LEMMA WriteSteps ==
    ASSUME TypesInv, NEW w \in Writer, WriteFile(w)
    PROVE  /\ UNCHANGED <<backups, changes, tool, edits>>
           /\ \A v \in Writer : v # w => saving'[v] = saving[v]
           /\ saving[w].step \in {"temp", "rename", "remove"}
           /\ saving'[w].step \in {"rename", "saved", "remove", "failed"}
           /\ saving'[w].file = saving[w].file /\ saving'[w].content = saving[w].content
           /\ saving[w].file \in File
           /\ \/ UNCHANGED <<files, history>> /\ saving'[w].step # "saved"
              \/ /\ saving'[w].step = "saved"
                 /\ \E h : /\ history' = Append(history, h) /\ h.file = saving[w].file
                           /\ \A f \in File : f # h.file => files'[f] = files[f]
                           /\ \/ h.patch = 0 /\ h.rewind = {}
                              \/ w[1] = "tool" /\ h.patch = tool[w[2]].patch /\ h.rewind = {}
                              \/ /\ w[1] # "tool" /\ h.patch = 0 /\ h.rewind = {w[2]}
                                 /\ files'[h.file] = saving[w].content
<1>1. saving \in [Writer -> {NotSaving} \union SavingType]
  BY DEF TypesInv, CallsTyped
<1>2. ASSUME saving[w].step \in {"temp", "rename", "remove"}
      PROVE  saving[w] \in SavingType
  BY <1>1, <1>2 DEF NotSaving, SavingType
<1>3. ASSUME NEW step \in {"rename", "saved", "remove", "failed"}, SavingStep(w, step),
             saving[w] \in SavingType
      PROVE  /\ \A v \in Writer : v # w => saving'[v] = saving[v]
             /\ saving'[w].step = step
             /\ saving'[w].file = saving[w].file /\ saving'[w].content = saving[w].content
             /\ saving[w].file \in File
  BY <1>1, <1>3 DEF SavingStep, SavingType
<1>4. CASE SaveTemp(w)
  BY <1>2, <1>3, <1>4 DEF SaveTemp
<1>5. CASE SaveTempFails(w)
  BY <1>2, <1>3, <1>5 DEF SaveTempFails
<1>6. CASE SaveRename(w)
  <2>1. saving[w] \in SavingType /\ saving[w].file \in File /\ SavingStep(w, "saved")
        /\ UNCHANGED <<backups, changes, tool, edits>> /\ saving[w].step = "rename"
    BY <1>2, <1>3, <1>6 DEF SaveRename
  <2>2. PICK content \in temp[saving[w].file] :
          /\ files' = [files EXCEPT ![saving[w].file] = content]
          /\ history' = Append(history,
                 IF content # saving[w].content THEN Change(saving[w].file, 0, {})
                 ELSE IF w[1] = "tool" THEN Change(saving[w].file, tool[w[2]].patch, {})
                 ELSE Change(saving[w].file, 0, {w[2]}))
    BY <1>6 DEF SaveRename
  <2>3. PICK h : h = IF content # saving[w].content THEN Change(saving[w].file, 0, {})
                     ELSE IF w[1] = "tool" THEN Change(saving[w].file, tool[w[2]].patch, {})
                     ELSE Change(saving[w].file, 0, {w[2]})
    OBVIOUS
  <2>4. history' = Append(history, h) /\ h.file = saving[w].file
    BY <2>2, <2>3 DEF Change
  <2>5. files'[saving[w].file] = content
        /\ \A f \in File : f # saving[w].file => files'[f] = files[f]
    BY <2>1, <2>2 DEF TypesInv, FilesTyped
  <2>6. \/ h.patch = 0 /\ h.rewind = {}
        \/ w[1] = "tool" /\ h.patch = tool[w[2]].patch /\ h.rewind = {}
        \/ w[1] # "tool" /\ h.patch = 0 /\ h.rewind = {w[2]} /\ content = saving[w].content
    BY <2>3 DEF Change
  <2> QED
    BY <1>3, <2>1, <2>4, <2>5, <2>6
<1>7. CASE SaveRenameFails(w)
  BY <1>2, <1>3, <1>7 DEF SaveRenameFails, fileVars
<1>8. CASE SaveRemove(w)
  BY <1>2, <1>3, <1>8 DEF SaveRemove
<1> QED
  BY <1>4, <1>5, <1>6, <1>7, <1>8 DEF WriteFile

-----------------------------------------------------------------------------
\* A call that saves, and the file it writes: until it is written, the patch is
\* not in the history.
Writing ==
    \A s \in Session : saving[Tool(s)] # NotSaving =>
        /\ tool[s].step = "saving" /\ saving[Tool(s)].file = tool[s].file
        /\ saving[Tool(s)].step \notin {"saved", "failed"} =>
             \A i \in 1..Len(history) : history[i].patch # tool[s].patch

StoryInv ==
    /\ Writing
    /\ \E contents \in Trace, backedUp \in [Nat -> Nat] : Story(contents, backedUp)

\* The patches of a call that saves is no other's, and one that has a backup.
LEMMA CallsApart ==
    ASSUME TypesInv, RecordInv, NEW s \in Session, tool[s].step = "saving"
    PROVE  /\ tool[s].patch \in 1..Len(backups) /\ tool[s].patch # 0
           /\ \A r \in Session :
                tool[r].step = "saving" /\ tool[r].patch = tool[s].patch => r = s
<1>1. /\ tool[s].patch \in 1..Len(backups)
      /\ \A r \in Session :
           tool[r].step = "saving" /\ tool[r].patch = tool[s].patch => r = s
  BY DEF RecordInv, CallsFresh
<1>2. Len(backups) \in Nat
  BY DEF TypesInv, CallsTyped
<1>3. tool[s].patch # 0
  BY ONLY <1>1, <1>2
<1> QED
  BY <1>1, <1>3

\* No call begins or ends to save, and no patch is written that was not.
LEMMA WritingKept ==
    ASSUME Writing, IsSeq(history),
           \A s \in Session :
             \/ saving'[Tool(s)] = NotSaving
             \/ UNCHANGED <<saving[Tool(s)], tool[s]>>,
           \/ UNCHANGED history
           \/ \E h : history' = Append(history, h) /\
                \A s \in Session : tool[s].step = "saving" => h.patch # tool[s].patch
    PROVE  Writing'
<1> SUFFICES ASSUME NEW s \in Session, saving'[Tool(s)] # NotSaving
             PROVE  /\ tool'[s].step = "saving" /\ saving'[Tool(s)].file = tool'[s].file
                    /\ saving'[Tool(s)].step \notin {"saved", "failed"} =>
                         \A i \in 1..Len(history') : history'[i].patch # tool'[s].patch
  BY DEF Writing
<1>1. UNCHANGED <<saving[Tool(s)], tool[s]>>
  OBVIOUS
<1>2. /\ tool[s].step = "saving" /\ saving[Tool(s)].file = tool[s].file
      /\ saving[Tool(s)].step \notin {"saved", "failed"} =>
           \A i \in 1..Len(history) : history[i].patch # tool[s].patch
  BY <1>1 DEF Writing
<1>3. CASE UNCHANGED history
  BY <1>1, <1>2, <1>3
<1>4. CASE ~UNCHANGED history
  <2>1. PICK h : history' = Append(history, h) /\
                 \A r \in Session : tool[r].step = "saving" => h.patch # tool[r].patch
    BY <1>4
  <2>2. \A i \in 1..Len(history') :
           history'[i] = h \/ \E j \in 1..Len(history) : history'[i] = history[j]
    BY <2>1, AppendedMembers
  <2> QED
    BY <1>1, <1>2, <2>1, <2>2
<1> QED
  BY <1>3, <1>4

LEMMA ToolsApart ==
    ASSUME NEW s \in Session, NEW r \in Session
    PROVE  /\ Tool(s) = Tool(r) => s = r
           /\ Rewinder(s) = Rewinder(r) => s = r
           /\ Tool(s) # Rewinder(r)
           /\ Tool(s)[1] = "tool" /\ Tool(s)[2] = s
           /\ Rewinder(s)[1] # "tool" /\ Rewinder(s)[2] = s
BY DEF Tool, Rewinder

\* Files, history, calls and backups stay, whatever a rewind or the client does.
LEMMA QuietStory ==
    ASSUME TypesInv, StoryInv, UNCHANGED <<history, files, backups, tool, saves, checkpoints>>,
           \A s \in Session : saving'[Tool(s)] = saving[Tool(s)]
    PROVE  StoryInv'
<1>1. Writing'
  <2>1. IsSeq(history) /\ Writing
    BY DEF TypesInv, FilesTyped, StoryInv
  <2> QED
    BY <2>1, WritingKept
<1>2. PICK contents \in Trace, backedUp \in [Nat -> Nat] : Story(contents, backedUp)
  BY DEF StoryInv
<1>3. \A s \in Session : Taken(s)' = Taken(s)
  BY DEF Taken
<1>4. Story(contents, backedUp)'
  BY <1>2, <1>3, StoryKept
<1> QED
  BY <1>1, <1>4 DEF StoryInv

\* A call begins, or ends without a backup, or has written its file.
LEMMA CallStory ==
    ASSUME TypesInv, StoryInv, NEW s \in Session, tool'[s].step # "saving",
           \A r \in Session : r # s => tool'[r] = tool[r],
           \A r \in Session : r # s => saving'[Tool(r)] = saving[Tool(r)],
           saving'[Tool(s)] = NotSaving,
           UNCHANGED <<history, files, backups, saves, checkpoints>>
    PROVE  StoryInv'
<1>1. Writing'
  <2>1. IsSeq(history) /\ Writing
    BY DEF TypesInv, FilesTyped, StoryInv
  <2>2. \A r \in Session : saving'[Tool(r)] = NotSaving
                           \/ UNCHANGED <<saving[Tool(r)], tool[r]>>
    OBVIOUS
  <2> QED
    BY <2>1, <2>2, WritingKept
<1>2. PICK contents \in Trace, backedUp \in [Nat -> Nat] : Story(contents, backedUp)
  BY DEF StoryInv
<1>3. \A r \in Session : Taken(r)' = Taken(r)
  BY DEF Taken
<1>4. Story(contents, backedUp)'
  BY <1>2, <1>3, StoryKept
<1> QED
  BY <1>1, <1>4 DEF StoryInv

\* A file changes, and no call has written it.
LEMMA ChangeStory ==
    ASSUME TypesInv, RecordInv, StoryInv, TypesInv',
           NEW h, history' = Append(history, h), h.patch = 0,
           \A f \in File : f # h.file => files'[f] = files[f],
           UNCHANGED <<backups, saves, checkpoints>>,
           \A s \in Session : tool'[s].step = "saving" => tool'[s] = tool[s],
           \A s \in Session : tool[s].step = "saving" => tool'[s] = tool[s],
           \A s \in Session : saving'[Tool(s)] = saving[Tool(s)]
    PROVE  StoryInv'
<1>1. Writing'
  <2>1. IsSeq(history) /\ Writing
    BY DEF TypesInv, FilesTyped, StoryInv
  <2>2. \A s \in Session : saving'[Tool(s)] = NotSaving
                           \/ UNCHANGED <<saving[Tool(s)], tool[s]>>
    BY DEF StoryInv, Writing
  <2>3. \A s \in Session : tool[s].step = "saving" => h.patch # tool[s].patch
    BY CallsApart
  <2> QED
    BY <2>1, <2>2, <2>3, WritingKept
<1>2. PICK contents \in Trace, backedUp \in [Nat -> Nat] : Story(contents, backedUp)
  BY DEF StoryInv
<1>3. files' \in [File -> Contents]
  BY DEF TypesInv, FilesTyped
<1>4. \E more \in Trace : Story(more, backedUp)'
  BY <1>2, <1>3, StoryGoesOn
<1> QED
  BY <1>1, <1>4 DEF StoryInv

\* A call writes its file, or fails to.
LEMMA WriteStory ==
    ASSUME TypesInv, RecordInv, StoryInv, TypesInv', NEW s \in Session, WriteFile(Tool(s)),
           UNCHANGED <<saves, checkpoints>>
    PROVE  StoryInv'
<1>0. Tool(s) \in Writer
  BY TypesFacts
<1>1. /\ UNCHANGED <<backups, tool>>
      /\ \A r \in Session : r # s => saving'[Tool(r)] = saving[Tool(r)]
      /\ saving[Tool(s)].step \in {"temp", "rename", "remove"}
      /\ saving'[Tool(s)].file = saving[Tool(s)].file
  BY <1>0, TypesFacts, WriteSteps, ToolsApart
<1>2. \/ UNCHANGED <<files, history>>
      \/ /\ saving'[Tool(s)].step = "saved"
         /\ \E h : /\ history' = Append(history, h) /\ h.file = saving[Tool(s)].file
                   /\ \A f \in File : f # h.file => files'[f] = files[f]
                   /\ h.patch = 0 \/ h.patch = tool[s].patch
  BY <1>0, WriteSteps, ToolsApart
<1>3. /\ tool[s].step = "saving" /\ saving[Tool(s)].file = tool[s].file
      /\ \A i \in 1..Len(history) : history[i].patch # tool[s].patch
  <2>1. saving[Tool(s)] # NotSaving /\ saving[Tool(s)].step \notin {"saved", "failed"}
    BY <1>1 DEF NotSaving
  <2> QED
    BY <2>1 DEF StoryInv, Writing
<1>4. IsSeq(history) /\ files' \in [File -> Contents]
  BY DEF TypesInv, FilesTyped
<1>5. CASE UNCHANGED <<files, history>>
  <2>1. Writing'
    BY <1>1, <1>3, <1>5 DEF StoryInv, Writing
  <2>2. \A r \in Session : Taken(r)' = Taken(r)
    BY DEF Taken
  <2>3. PICK contents \in Trace, backedUp \in [Nat -> Nat] : Story(contents, backedUp)
    BY DEF StoryInv
  <2>4. Story(contents, backedUp)'
    BY <1>1, <1>5, <2>2, <2>3, StoryKept
  <2> QED
    BY <2>1, <2>4 DEF StoryInv
<1>6. CASE ~UNCHANGED <<files, history>>
  <2>1. PICK h : /\ saving'[Tool(s)].step = "saved"
                 /\ history' = Append(history, h) /\ h.file = saving[Tool(s)].file
                 /\ \A f \in File : f # h.file => files'[f] = files[f]
                 /\ h.patch = 0 \/ h.patch = tool[s].patch
    BY <1>2, <1>6
  <2>2. Writing'
    <3> SUFFICES ASSUME NEW r \in Session, saving'[Tool(r)] # NotSaving
                 PROVE  /\ tool'[r].step = "saving" /\ saving'[Tool(r)].file = tool'[r].file
                        /\ saving'[Tool(r)].step \notin {"saved", "failed"} =>
                             \A i \in 1..Len(history') : history'[i].patch # tool'[r].patch
      BY DEF Writing
    <3>1. CASE r = s
      BY <1>1, <1>3, <2>1, <3>1
    <3>2. CASE r # s
      <4>1. /\ tool[r].step = "saving" /\ saving[Tool(r)].file = tool[r].file
            /\ saving'[Tool(r)] = saving[Tool(r)]
            /\ saving[Tool(r)].step \notin {"saved", "failed"} =>
                 \A i \in 1..Len(history) : history[i].patch # tool[r].patch
        BY <1>1, <3>2 DEF StoryInv, Writing
      <4>2. h.patch # tool[r].patch
        BY <1>3, <2>1, <3>2, <4>1, CallsApart
      <4>3. \A i \in 1..Len(history') :
               history'[i] = h \/ \E j \in 1..Len(history) : history'[i] = history[j]
        BY <1>4, <2>1, AppendedMembers
      <4> QED
        BY <1>1, <4>1, <4>2, <4>3
    <3> QED
      BY <3>1, <3>2
  <2>3. h.patch # 0 => \E r \in Session :
               /\ tool[r].step = "saving" /\ h.patch = tool[r].patch /\ h.file = tool[r].file
               /\ \A i \in 1..Len(history) : history[i].patch # h.patch
    BY <1>3, <2>1
  <2>4. PICK contents \in Trace, backedUp \in [Nat -> Nat] : Story(contents, backedUp)
    BY DEF StoryInv
  <2>5. \E more \in Trace : Story(more, backedUp)'
    BY <1>1, <1>4, <2>1, <2>3, <2>4, StoryGoesOn
  <2> QED
    BY <2>2, <2>5 DEF StoryInv
<1> QED
  BY <1>5, <1>6

\* A call makes a backup and goes on to save, or returns.
LEMMA BackupStory ==
    ASSUME TypesInv, RecordInv, StoryInv, NEW s \in Session, ApplyPatch(s) \/ ApplyMisfits(s),
           UNCHANGED <<saves, checkpoints>>
    PROVE  StoryInv'
<1>1. /\ tool[s].step = "apply" /\ tool[s] \in ToolType /\ tool[s].file \in File
      /\ saving \in [Writer -> {NotSaving} \union SavingType] /\ Len(backups) \in Nat
      /\ tool \in [Session -> {NoTool} \union ToolType]
  <2>1. /\ tool[s].step = "apply" /\ tool \in [Session -> {NoTool} \union ToolType]
        /\ saving \in [Writer -> {NotSaving} \union SavingType] /\ Len(backups) \in Nat
    BY DEF ApplyPatch, ApplyMisfits, TypesInv, CallsTyped
  <2> QED
    BY <2>1 DEF NoTool, ToolType
<1>2. PICK b : /\ backups' = Append(backups, b) /\ b \in BackupType /\ b.by = s
               /\ b.file = tool[s].file /\ b.content = files[b.file]
  <2>1. PICK meta \in BOOLEAN : Backup(s, meta)
    BY DEF ApplyPatch, ApplyMisfits, BackupMade
  <2>2. files[tool[s].file] \in Contents
    BY <1>1 DEF TypesInv, FilesTyped
  <2> QED
    BY <1>1, <2>1, <2>2 DEF Backup, BackupType
<1>3. UNCHANGED <<files, history>> /\ \A r \in Session : r # s => tool'[r] = tool[r]
  <2>1. UNCHANGED <<files, history>> /\ \E v : tool' = [tool EXCEPT ![s] = v]
    BY DEF ApplyPatch, ApplyMisfits, ToolReturns, fileVars
  <2> QED
    BY <1>1, <2>1
<1>4. \/ /\ tool'[s].step = "saving" /\ tool'[s].patch = Len(backups) + 1
         /\ tool'[s].file = b.file /\ saving'[Tool(s)].file = b.file
      \/ tool'[s].step # "saving" /\ saving'[Tool(s)] = NotSaving
  <2>1. CASE ApplyPatch(s)
    <3>1. tool' = [tool EXCEPT ![s].step = "saving", ![s].patch = Len(backups) + 1]
      BY <2>1 DEF ApplyPatch
    <3>2. tool'[s].step = "saving" /\ tool'[s].patch = Len(backups) + 1 /\ tool'[s].file = b.file
      BY <1>1, <1>2, <3>1 DEF ToolType
    <3>3. saving'[Tool(s)].file = b.file
      BY <1>1, <1>2, <2>1, TypesFacts DEF ApplyPatch, StartSaving
    <3> QED
      BY <3>2, <3>3
  <2>2. CASE ApplyMisfits(s)
    <3>1. saving' = saving /\ tool'[s] = NoTool
      BY <1>1, <2>2 DEF ApplyMisfits, ToolReturns
    <3> QED
      BY <1>1, <3>1 DEF StoryInv, Writing, NoTool
  <2> QED
    BY <2>1, <2>2
<1>5. \A r \in Session : r # s => saving'[Tool(r)] = saving[Tool(r)]
  BY <1>1, TypesFacts, ToolsApart DEF ApplyPatch, ApplyMisfits, StartSaving
<1>6. PICK contents \in Trace, backedUp \in [Nat -> Nat] : Story(contents, backedUp)
  BY DEF StoryInv
<1>7. \E more \in [Nat -> Nat] : Story(contents, more)'
  <2>1. tool'[s].step = "saving" =>
               tool'[s].patch = Len(backups) + 1 /\ tool'[s].file = b.file
    BY <1>4
  <2> QED
    BY <1>1, <1>2, <1>3, <1>6, <2>1, StoryBacksUp
<1>8. Writing'
  <2> SUFFICES ASSUME NEW r \in Session, saving'[Tool(r)] # NotSaving
               PROVE  /\ tool'[r].step = "saving" /\ saving'[Tool(r)].file = tool'[r].file
                      /\ saving'[Tool(r)].step \notin {"saved", "failed"} =>
                           \A i \in 1..Len(history') : history'[i].patch # tool'[r].patch
    BY DEF Writing
  <2>1. CASE r = s
    <3>1. \A i \in 1..Len(history) : history[i].patch # Len(backups) + 1
      <4>1. \A i \in 1..Len(history) : history[i].patch = 0 \/ history[i].patch \in 1..Len(backups)
        BY <1>6 DEF Story, Told
      <4>2. Len(backups) + 1 # 0 /\ Len(backups) + 1 \notin 1..Len(backups)
        BY <1>1
      <4> QED
        BY <4>1, <4>2
    <3> QED
      BY <1>3, <1>4, <2>1, <3>1
  <2>2. CASE r # s
    BY <1>3, <1>5, <2>2 DEF StoryInv, Writing
  <2> QED
    BY <2>1, <2>2
<1> QED
  BY <1>7, <1>8 DEF StoryInv

\* The checkpoints after a step were there before it, or have just been taken.
LEMMA CheckpointSteps ==
    ASSUME TypesInv, NEW s \in Session,
           \/ CheckpointTake(s) \/ CheckpointSaveState(s)
           \/ CheckpointSave(s) \/ CheckpointFails(s)
    PROVE  /\ UNCHANGED <<history, files, backups, tool, saving>>
           /\ changes' = changes \/ changes' = <<>>
           /\ \A r \in Session : \A new \in Taken(r)' :
                \/ \E old \in Taken(r) : /\ old.at = new.at /\ old.was = new.was
                                         /\ old.changes = new.changes
                \/ /\ new.at = Len(history) /\ new.was = files /\ new.changes = changes
                   /\ tool'[r].step # "saving"
<1>1. /\ saves \in [Session -> {NoSave} \union SaveType]
      /\ checkpoints \in [Session -> Seq(CheckpointType)]
  BY DEF TypesInv, SavesTyped
<1>2. UNCHANGED <<history, files, backups, tool, saving>> /\ (changes' = changes \/ changes' = <<>>)
  BY DEF CheckpointTake, CheckpointSaveState, CheckpointSave, CheckpointFails, engineVars,
         fileVars
<1>3. ASSUME NEW r \in Session, NEW new \in Taken(r)', r # s
      PROVE  new \in Taken(r)
  <2>1. saves'[r] = saves[r] /\ checkpoints'[r] = checkpoints[r]
    BY <1>1, <1>3 DEF CheckpointTake, Snapshot, CheckpointSaveState, CheckpointSave,
                      CheckpointFails, NotSavingCheckpoint
  <2> QED
    BY <1>3, <2>1 DEF Taken
<1>4. ASSUME NEW new \in Taken(s)'
      PROVE  \/ \E old \in Taken(s) : /\ old.at = new.at /\ old.was = new.was
                                      /\ old.changes = new.changes
             \/ /\ new.at = Len(history) /\ new.was = files /\ new.changes = changes
                /\ tool[s].step # "saving"
  <2>1. CASE CheckpointTake(s)
    <3>1. checkpoints' = checkpoints /\ tool[s] = NoTool
      BY <2>1 DEF CheckpointTake, Free
    <3>2. /\ saves'[s].at = Len(history) /\ saves'[s].was = files
          /\ saves'[s].changes = changes
      BY <1>1, <2>1 DEF CheckpointTake, Snapshot
    <3>3. new = saves'[s] \/ new \in Taken(s)
      BY <3>1 DEF Taken
    <3> QED
      BY <3>1, <3>2, <3>3 DEF NoTool
  <2>2. CASE CheckpointSaveState(s)
    <3>1. checkpoints' = checkpoints
      BY <2>2 DEF CheckpointSaveState
    <3>2. saves[s] # NoSave
      BY <2>2 DEF CheckpointSaveState, NoSave
    <3>3. saves[s] \in SaveType /\ saves'[s] = [saves[s] EXCEPT !.step = "file"]
      BY <1>1, <2>2, <3>2 DEF CheckpointSaveState
    <3>4. /\ saves'[s].at = saves[s].at /\ saves'[s].was = saves[s].was
          /\ saves'[s].changes = saves[s].changes
      BY <3>3 DEF SaveType
    <3>5. saves[s] \in Taken(s) /\ (new = saves'[s] \/ new \in Taken(s))
      BY <3>1, <3>2 DEF Taken
    <3> QED
      BY <3>4, <3>5
  <2>3. CASE CheckpointSave(s)
    <3>1. saves[s] # NoSave
      BY <2>3 DEF CheckpointSave, NoSave
    <3>2. checkpoints'[s] = Append(checkpoints[s], saves[s]) /\ saves'[s] = NoSave
      BY <1>1, <2>3 DEF CheckpointSave, NotSavingCheckpoint
    <3>3. PICK k \in 1..Len(checkpoints'[s]) : new = checkpoints'[s][k]
      BY <3>2 DEF Taken
    <3>4. IsSeq(checkpoints[s])
      BY <1>1 DEF IsSeq
    <3>5. new = saves[s] \/ \E j \in 1..Len(checkpoints[s]) : new = checkpoints[s][j]
      BY <3>2, <3>3, <3>4, AppendedMembers
    <3>6. new \in Taken(s)
      BY <3>1, <3>5 DEF Taken
    <3> QED
      BY <3>6
  <2>4. CASE CheckpointFails(s)
    <3>1. checkpoints' = checkpoints /\ saves'[s] = NoSave
      BY <1>1, <2>4 DEF CheckpointFails, NotSavingCheckpoint
    <3>2. new \in Taken(s)
      BY <3>1 DEF Taken
    <3> QED
      BY <3>2
  <2> QED
    BY <2>1, <2>2, <2>3, <2>4
<1> QED
  BY <1>2, <1>3, <1>4

LEMMA CheckpointStory ==
    ASSUME TypesInv, StoryInv, NEW s \in Session,
           \/ CheckpointTake(s) \/ CheckpointSaveState(s)
           \/ CheckpointSave(s) \/ CheckpointFails(s)
    PROVE  StoryInv'
<1>1. /\ UNCHANGED <<history, files, backups, tool, saving>>
      /\ \A r \in Session : \A new \in Taken(r)' :
           \/ \E old \in Taken(r) : old.at = new.at /\ old.was = new.was
           \/ new.at = Len(history) /\ new.was = files /\ tool'[r].step # "saving"
  BY CheckpointSteps
<1>2. Writing'
  BY <1>1 DEF StoryInv, Writing
<1>3. PICK contents \in Trace, backedUp \in [Nat -> Nat] : Story(contents, backedUp)
  BY DEF StoryInv
<1>4. Story(contents, backedUp)'
  BY <1>1, <1>3, StoryKept
<1> QED
  BY <1>2, <1>4 DEF StoryInv

LEMMA InitStory == Init => StoryInv
<1> SUFFICES ASSUME Init PROVE StoryInv
  OBVIOUS
<1>1. /\ history = <<>> /\ backups = <<>> /\ files \in [File -> Contents]
      /\ \A s \in Session : /\ tool[s] = NoTool /\ saving[Tool(s)] = NotSaving
                            /\ saves[s] = NoSave /\ checkpoints[s] = <<>>
  BY TypesFacts DEF Init, EngineInit
<1>2. Writing
  BY <1>1 DEF Writing
<1>3. [n \in Nat |-> files] \in Trace /\ [n \in Nat |-> 0] \in [Nat -> Nat]
  BY <1>1 DEF Trace
<1>4. PICK contents \in Trace, backedUp \in [Nat -> Nat] : contents = [n \in Nat |-> files]
  BY <1>3
<1>5. contents[0] = files
  BY ONLY <1>4
<1>6. Len(history) = 0 /\ Len(backups) = 0 /\ 1..0 = {}
  BY <1>1
<1>7. Told(contents, backedUp, history, files, backups)
  BY <1>5, <1>6 DEF Told
<1>8. ASSUME NEW s \in Session PROVE CallTold(s, backedUp) /\ Taken(s) = {}
  <2>1. tool[s].step # "saving"
    BY <1>1 DEF NoTool
  <2>2. 1..Len(checkpoints[s]) = {} /\ saves[s] = NoSave
    BY <1>1
  <2> QED
    BY <2>1, <2>2 DEF CallTold, Taken
<1> QED
  BY <1>2, <1>7, <1>8 DEF StoryInv, Story

LEMMA NextStory ==
    ASSUME TypesInv, TypesInv', RecordInv, StoryInv, [Next]_vars
    PROVE  StoryInv'
<1> USE DEF sessionVars, engineVars, fileVars
<1>1. ASSUME UNCHANGED <<history, files, backups, tool, saves, checkpoints, saving>>
      PROVE  StoryInv'
  BY <1>1, QuietStory
<1>2. ASSUME NEW f \in File, Outside(f), UNCHANGED <<sessionVars, rewindVars>>
      PROVE  StoryInv'
  <2>1. PICK h : history' = Append(history, h) /\ h.file = f /\ h.patch = 0
    BY <1>2 DEF Outside, Change
  <2>2. \A g \in File : g # f => files'[g] = files[g]
    BY <1>2 DEF Outside, TypesInv, FilesTyped
  <2>3. UNCHANGED <<tool, saving, backups, saves, checkpoints>>
    BY <1>2 DEF Outside
  <2> QED
    BY <2>1, <2>2, <2>3, ChangeStory
<1>3. ASSUME NEW s \in Session, Message(s) \/ Recover(s) PROVE StoryInv'
  BY <1>1, <1>3 DEF Message, Recover
<1>4. ASSUME NEW s \in Session, RunTool(s) PROVE StoryInv'
  <2>0. UNCHANGED <<saves, checkpoints>>
    BY <1>4 DEF RunTool
  <2>1. /\ tool \in [Session -> {NoTool} \union ToolType]
        /\ saving \in [Writer -> {NotSaving} \union SavingType]
    BY DEF TypesInv, CallsTyped
  <2>2. ASSUME tool[s].step # "saving" PROVE saving[Tool(s)] = NotSaving
    BY <2>2 DEF StoryInv, Writing
  <2>3. CASE WriteFile(Tool(s))
    BY <2>0, <2>3, WriteStory
  <2>4. CASE ToolCall(s)
    <3>1. UNCHANGED <<saving, history, files, backups>> /\ tool[s].step = "none"
      BY <2>4 DEF ToolCall, ToolRead, ToolReadSame
    <3>2. PICK v : tool' = [tool EXCEPT ![s] = v] /\ v.step # "saving"
      <4>1. CASE ToolRead(s)
        <5>1. PICK kind, f :
                  tool' = [tool EXCEPT ![s] =
                      [step |-> IF files[f] = 0 /\ kind = "write" THEN "create" ELSE "apply",
                       kind |-> kind, file |-> f,
                       old |-> files[f], new |-> fresh + 1, patch |-> 0]]
          BY <4>1 DEF ToolRead
        <5> DEFINE v == [step |-> IF files[f] = 0 /\ kind = "write" THEN "create" ELSE "apply",
                         kind |-> kind, file |-> f,
                         old |-> files[f], new |-> fresh + 1, patch |-> 0]
        <5>2. tool' = [tool EXCEPT ![s] = v] /\ v.step # "saving"
          BY <5>1
        <5> HIDE DEF v
        <5> QED
          BY <5>2
      <4>2. CASE ToolReadSame(s)
        <5>1. PICK f :
                  tool' = [tool EXCEPT ![s] =
                      [step |-> "create", kind |-> "write", file |-> f,
                       old |-> files[f], new |-> files[f], patch |-> 0]]
          BY <4>2 DEF ToolReadSame
        <5> DEFINE v == [step |-> "create", kind |-> "write", file |-> f,
                         old |-> files[f], new |-> files[f], patch |-> 0]
        <5>2. tool' = [tool EXCEPT ![s] = v] /\ v.step # "saving"
          BY <5>1
        <5> HIDE DEF v
        <5> QED
          BY <5>2
      <4> QED
        BY <2>4, <4>1, <4>2 DEF ToolCall
    <3>3. tool'[s].step # "saving" /\ \A r \in Session : r # s => tool'[r] = tool[r]
      BY <2>1, <3>2
    <3> QED
      BY <2>0, <2>2, <3>1, <3>3, CallStory
  <2>5. CASE ToolCreate(s)
    <3>1. /\ tool[s].step = "create" /\ UNCHANGED <<saving, backups>>
          /\ tool' = [tool EXCEPT ![s] = NoTool]
          /\ files' = [files EXCEPT ![tool[s].file] = tool[s].new]
      BY <2>5 DEF ToolCreate, ToolReturns
    <3>2. PICK h : history' = Append(history, h) /\ h.file = tool[s].file /\ h.patch = 0
      BY <2>5 DEF ToolCreate, Change
    <3>3. \A g \in File : g # h.file => files'[g] = files[g]
      BY <3>1, <3>2 DEF TypesInv, FilesTyped
    <3>4. tool'[s] = NoTool /\ \A r \in Session : r # s => tool'[r] = tool[r]
      BY <2>1, <3>1
    <3>5. \A r \in Session : tool'[r].step = "saving" => tool'[r] = tool[r]
      BY <3>4 DEF NoTool
    <3>6. \A r \in Session : tool[r].step = "saving" => tool'[r] = tool[r]
      BY <3>1, <3>4
    <3> QED
      BY <2>0, <3>1, <3>2, <3>3, <3>5, <3>6, ChangeStory
  <2>6. CASE ApplyNoBackup(s)
    <3>1. /\ tool[s].step = "apply" /\ UNCHANGED <<saving, history, files, backups>>
          /\ tool' = [tool EXCEPT ![s] = NoTool]
      BY <2>6 DEF ApplyNoBackup, ToolReturns
    <3>2. tool'[s].step # "saving" /\ \A r \in Session : r # s => tool'[r] = tool[r]
      BY <2>1, <3>1 DEF NoTool
    <3> QED
      BY <2>0, <2>2, <3>1, <3>2, CallStory
  <2>7. CASE ApplyPatch(s) \/ ApplyMisfits(s)
    BY <2>0, <2>7, BackupStory
  <2>8. CASE ApplyRecord(s) \/ ApplyFailed(s)
    <3>1. /\ UNCHANGED <<history, files, backups>>
          /\ tool' = [tool EXCEPT ![s] = NoTool]
          /\ saving' = [saving EXCEPT ![Tool(s)] = NotSaving]
      BY <2>8 DEF ApplyRecord, ApplyFailed, ToolReturns
    <3>2. tool'[s].step # "saving" /\ \A r \in Session : r # s => tool'[r] = tool[r]
      BY <2>1, <3>1 DEF NoTool
    <3>3. saving'[Tool(s)] = NotSaving
          /\ \A r \in Session : r # s => saving'[Tool(r)] = saving[Tool(r)]
      BY <2>1, <3>1, TypesFacts, ToolsApart
    <3> QED
      BY <2>0, <3>1, <3>2, <3>3, CallStory
  <2> QED
    BY <1>4, <2>3, <2>4, <2>5, <2>6, <2>7, <2>8 DEF RunTool, ToolStep
<1>5. ASSUME NEW s \in Session, RewindStep(s) PROVE StoryInv'
  <2>1. /\ saving \in [Writer -> {NotSaving} \union SavingType]
        /\ Rewinder(s) \in Writer /\ \A r \in Session : Tool(r) \in Writer /\ Tool(r) # Rewinder(s)
    BY TypesFacts, ToolsApart DEF TypesInv, CallsTyped
  <2>2. CASE RollbackSaves(s)
    <3>1. WriteFile(Rewinder(s)) /\ UNCHANGED <<saves, checkpoints>>
      BY <2>2 DEF RollbackSaves
    <3>2. UNCHANGED <<backups, tool>> /\ \A r \in Session : saving'[Tool(r)] = saving[Tool(r)]
      BY <2>1, <3>1, WriteSteps
    <3>3. \/ UNCHANGED <<files, history>>
          \/ \E h : /\ history' = Append(history, h) /\ h.patch = 0
                    /\ \A f \in File : f # h.file => files'[f] = files[f]
      BY <2>1, <3>1, WriteSteps, ToolsApart
    <3> QED
      BY <3>1, <3>2, <3>3, QuietStory, ChangeStory
  <2>3. CASE Rollback(s) \/ RollbackReturns(s)
    <3>1. UNCHANGED <<history, files, backups, tool, saves, checkpoints>>
      BY <2>3 DEF Rollback, RollbackReturns
    <3>2. \A r \in Session : saving'[Tool(r)] = saving[Tool(r)]
      BY <2>1, <2>3 DEF Rollback, RollbackReturns, StartSaving
    <3> QED
      BY <3>1, <3>2, QuietStory
  <2>4. CASE RewindStart(s) \/ RewindCodeFails(s) \/ RewindSucceeds(s) \/ RewindConversationFails(s)
    BY <1>1, <2>4 DEF RewindStart, RewindCodeFails, RewindSucceeds, RewindCode,
                      RewindConversation, RewindConversationFails
  <2> QED
    BY <1>5, <2>2, <2>3, <2>4 DEF RewindStep
<1>6. CASE UNCHANGED vars
  BY <1>1, <1>6 DEF vars
<1> QED
  BY <1>2, <1>3, <1>4, <1>5, <1>6, CheckpointStory DEF Next, Loop

\* Whatever is on record, in the tracker or with a checkpoint, has a backup.
LEMMA RecordBackedUp ==
    ASSUME TypesInv, RecordInv
    PROVE  /\ changes \in Seq(Nat) /\ \A i \in 1..Len(changes) : changes[i] \in 1..Len(backups)
           /\ \A s \in Session : \A taken \in Taken(s) :
                /\ taken.changes \in Seq(Nat)
                /\ \A i \in 1..Len(taken.changes) : taken.changes[i] \in 1..Len(backups)
<1>1. /\ changes \in Seq(Nat) /\ saves \in [Session -> {NoSave} \union SaveType]
      /\ checkpoints \in [Session -> Seq(CheckpointType)]
      /\ Seq(Patches) \subseteq Seq(Nat)
  <2>1. Patches \subseteq Nat
    BY TypesFacts DEF Patches
  <2> QED
    BY <2>1, WiderSeq DEF RecordInv, RecordType, TypesInv, SavesTyped
<1>2. ASSUME NEW x \in Places, NEW q \in Seq(Nat), Record[x] = q, NEW i \in 1..Len(q)
      PROVE  q[i] \in 1..Len(backups)
  <2>1. i \in DOMAIN Record[x]
    BY <1>2
  <2>2. ListedIn(Record, q[i])
    BY <1>2, <2>1 DEF ListedIn
  <2> QED
    BY <2>2 DEF RecordInv, ListedBackedUp
<1>3. Tracker \in Places /\ Record[Tracker] = changes
  BY DEF Record, Places
<1>4. ASSUME NEW s \in Session, NEW taken \in Taken(s)
      PROVE  taken.changes \in Seq(Nat) /\ \E x \in Places : Record[x] = taken.changes
  <2>1. CASE taken = saves[s] /\ saves[s] # NoSave
    <3>1. saves[s] \in SaveType
      BY <1>1, <2>1
    <3>2. InFlight(s) = saves[s].changes /\ saves[s].changes \in Seq(Nat)
      BY <1>1, <3>1 DEF InFlight, SaveType
    <3>3. <<s, 0>> \in Places /\ Record[<<s, 0>>] = InFlight(s)
      BY DEF Record, Places, Tracker
    <3> QED
      BY <2>1, <3>2, <3>3
  <2>2. CASE \E k \in 1..Len(checkpoints[s]) : taken = checkpoints[s][k]
    <3>1. PICK k \in 1..Len(checkpoints[s]) : taken = checkpoints[s][k]
      BY <2>2
    <3>2. k \in Nat /\ k # 0 /\ k \in DOMAIN checkpoints[s] /\ taken \in CheckpointType
      BY <1>1, <3>1
    <3>3. taken.changes \in Seq(Nat)
      BY <1>1, <3>2 DEF CheckpointType
    <3>4. <<s, k>> \in Places /\ Record[<<s, k>>] = checkpoints[s][k].changes
      BY <3>2 DEF Record, Places, Tracker
    <3> QED
      BY <3>1, <3>3, <3>4
  <2> QED
    BY <2>1, <2>2 DEF Taken
<1> QED
  BY <1>1, <1>2, <1>3, <1>4

-----------------------------------------------------------------------------
\* A session's patches are listed in the order in which it backed them up.
Ordered(q) ==
    \A a, b \in 1..Len(q) :
        a < b /\ backups[q[a]].by = backups[q[b]].by => q[a] < q[b]

InOrder ==
    /\ Ordered(changes)
    /\ \A s \in Session : \A taken \in Taken(s) : Ordered(taken.changes)

\* Lists move, or are lost.
LEMMA OrderKept ==
    ASSUME TypesInv, RecordInv, InOrder,
           \A p \in 1..Len(backups) : backups'[p] = backups[p],
           changes' = changes \/ changes' = <<>>,
           \A s \in Session : \A new \in Taken(s)' :
             \/ \E old \in Taken(s) : old.changes = new.changes
             \/ new.changes = changes
    PROVE  InOrder'
<1>1. Ordered(changes)'
  <2>1. CASE changes' = changes
    BY <2>1, RecordBackedUp DEF InOrder, Ordered
  <2>2. CASE changes' = <<>>
    BY <2>2 DEF Ordered
  <2> QED
    BY <2>1, <2>2
<1>2. ASSUME NEW s \in Session, NEW new \in Taken(s)' PROVE Ordered(new.changes)'
  <2>1. CASE \E old \in Taken(s) : old.changes = new.changes
    <3>1. PICK old \in Taken(s) : old.changes = new.changes
      BY <2>1
    <3>2. Ordered(old.changes) /\ old.changes \in Seq(Nat)
          /\ \A i \in 1..Len(old.changes) : old.changes[i] \in 1..Len(backups)
      BY RecordBackedUp DEF InOrder
    <3> QED
      BY <3>1, <3>2 DEF Ordered
  <2>2. CASE new.changes = changes
    BY <2>2, RecordBackedUp DEF InOrder, Ordered
  <2> QED
    BY <1>2, <2>1, <2>2
<1> QED
  BY <1>1, <1>2 DEF InOrder

\* A call lists the last patch of its session.
LEMMA RecordOrder ==
    ASSUME TypesInv, RecordInv, StoryInv, InOrder, NEW s \in Session, ApplyRecord(s),
           UNCHANGED <<saves, checkpoints>>
    PROVE  InOrder'
<1> DEFINE p == tool[s].patch
<1>1. /\ tool[s].step = "saving" /\ changes' = Append(changes, p) /\ UNCHANGED backups
  BY DEF ApplyRecord
<1>2. /\ p \in 1..Len(backups) /\ backups[p].by = s
      /\ \A q \in 1..Len(backups) : q > p => backups[q].by # s
  BY <1>1 DEF StoryInv, Story, CallTold
<1>3. /\ changes \in Seq(Nat) /\ \A i \in 1..Len(changes) : changes[i] \in 1..Len(backups)
      /\ Len(backups) \in Nat
  BY RecordBackedUp DEF TypesInv, CallsTyped
<1>4. \A i \in 1..Len(changes) : changes[i] # p
  <2>1. ~ListedIn(Record, p)
    BY <1>1 DEF RecordInv, CallsFresh
  <2>2. Tracker \in Places /\ Record[Tracker] = changes /\ DOMAIN changes = 1..Len(changes)
    BY <1>3 DEF Record, Places
  <2> QED
    BY <2>1, <2>2 DEF ListedIn
<1>5. \A i \in 1..Len(changes) : backups[changes[i]].by = s => changes[i] < p
  <2> SUFFICES ASSUME NEW i \in 1..Len(changes), backups[changes[i]].by = s
               PROVE  changes[i] < p
    OBVIOUS
  <2>1. changes[i] \in 1..Len(backups) /\ ~(changes[i] > p) /\ changes[i] # p
    BY <1>2, <1>3, <1>4
  <2> HIDE DEF p
  <2> QED
    BY ONLY <1>2, <1>3, <2>1
<1> HIDE DEF p
<1>6. Ordered(changes)'
  <2> SUFFICES ASSUME NEW a \in 1..Len(changes'), NEW b \in 1..Len(changes'), a < b,
                      backups[changes'[a]].by = backups[changes'[b]].by
               PROVE  changes'[a] < changes'[b]
    BY <1>1 DEF Ordered
  <2>1. /\ Len(changes) \in Nat /\ Len(changes') = Len(changes) + 1
        /\ changes'[Len(changes) + 1] = p
        /\ \A i \in 1..Len(changes) : changes'[i] = changes[i]
    BY <1>1, <1>2, <1>3
  <2>2. a \in 1..Len(changes)
    BY ONLY <2>1, a \in 1..Len(changes'), b \in 1..Len(changes'), a < b
  <2>3. CASE b = Len(changes) + 1
    BY <1>2, <1>5, <2>1, <2>2, <2>3
  <2>4. CASE b \in 1..Len(changes)
    BY <2>1, <2>2, <2>4 DEF InOrder, Ordered
  <2>5. b = Len(changes) + 1 \/ b \in 1..Len(changes)
    BY ONLY <2>1, b \in 1..Len(changes')
  <2> QED
    BY <2>3, <2>4, <2>5
<1>7. ASSUME NEW r \in Session, NEW new \in Taken(r)' PROVE Ordered(new.changes)'
  <2>1. new \in Taken(r)
    BY <1>7 DEF Taken
  <2> QED
    BY <1>1, <2>1 DEF InOrder, Ordered
<1> QED
  BY <1>6, <1>7 DEF InOrder

-----------------------------------------------------------------------------
\* Backups and checkpoints stay as they are; there may be one more of them.
Extends(new, old) ==
    /\ Len(old) \in Nat /\ Len(new) \in Nat /\ Len(old) <= Len(new)
    /\ \A i \in 1..Len(old) : new[i] = old[i]

LEMMA AppendExtends ==
    ASSUME NEW q, IsSeq(q)
    PROVE  Extends(q, q) /\ \A v : Extends(Append(q, v), q)
<1>1. Extends(q, q)
  BY AppendAny DEF Extends
<1>2. ASSUME NEW v PROVE Extends(Append(q, v), q)
  <2>1. Len(q) \in Nat /\ Len(Append(q, v)) = Len(q) + 1
    BY AppendAny
  <2>2. \A i \in 1..Len(q) : Append(q, v)[i] = q[i]
    BY AppendAny
  <2> QED
    BY <2>1, <2>2 DEF Extends
<1> QED
  BY <1>1, <1>2

LEMMA NextGrows ==
    ASSUME TypesInv, [Next]_vars
    PROVE  /\ Extends(backups', backups)
           /\ \A s \in Session : Extends(checkpoints'[s], checkpoints[s])
<1> USE DEF sessionVars, engineVars, fileVars
<1>0. IsSeq(backups) /\ \A s \in Session : IsSeq(checkpoints[s])
  BY DEF TypesInv, CallsTyped, SavesTyped, IsSeq
<1>1. Extends(backups, backups) /\ \A s \in Session : Extends(checkpoints[s], checkpoints[s])
  BY <1>0, AppendExtends
<1>2. ASSUME NEW f \in File, Outside(f), UNCHANGED <<sessionVars, rewindVars>>
      PROVE  UNCHANGED <<backups, checkpoints>>
  BY <1>2 DEF Outside
<1>3. ASSUME NEW s \in Session, Message(s) \/ Recover(s)
      PROVE  UNCHANGED <<backups, checkpoints>>
  BY <1>3 DEF Message, Recover
<1>4. ASSUME NEW s \in Session, RunTool(s)
      PROVE  UNCHANGED checkpoints /\ Extends(backups', backups)
  <2>1. UNCHANGED checkpoints
    BY <1>4 DEF RunTool
  <2>2. CASE WriteFile(Tool(s))
    BY <1>1, <2>1, <2>2, TypesFacts, WriteSteps
  <2>3. CASE ToolCall(s) \/ ToolCreate(s) \/ ApplyNoBackup(s) \/ ApplyRecord(s) \/ ApplyFailed(s)
    BY <1>1, <2>1, <2>3
    DEF ToolCall, ToolRead, ToolReadSame, ToolCreate, ApplyNoBackup, ApplyRecord, ApplyFailed
  <2>4. CASE ApplyPatch(s) \/ ApplyMisfits(s)
    <3>1. PICK b : backups' = Append(backups, b)
      BY <2>4 DEF ApplyPatch, ApplyMisfits, BackupMade, Backup
    <3> QED
      BY <1>0, <2>1, <3>1, AppendExtends
  <2> QED
    BY <1>4, <2>1, <2>2, <2>3, <2>4 DEF RunTool, ToolStep
<1>5. ASSUME NEW s \in Session, CheckpointTake(s) \/ CheckpointSaveState(s) \/ CheckpointFails(s)
      PROVE  UNCHANGED <<backups, checkpoints>>
  BY <1>5 DEF CheckpointTake, CheckpointSaveState, CheckpointFails
<1>6. ASSUME NEW s \in Session, CheckpointSave(s)
      PROVE  UNCHANGED backups /\ \A r \in Session : Extends(checkpoints'[r], checkpoints[r])
  <2>1. \A r \in Session : checkpoints'[r] = IF r = s THEN Append(checkpoints[r], saves[s])
                                                     ELSE checkpoints[r]
    BY <1>6 DEF CheckpointSave, TypesInv, SavesTyped
  <2> QED
    BY <1>0, <1>1, <1>6, <2>1, AppendExtends DEF CheckpointSave
<1>7. ASSUME NEW s \in Session, RewindStep(s)
      PROVE  UNCHANGED <<backups, checkpoints>>
  <2>1. CASE RollbackSaves(s)
    BY <2>1, TypesFacts, WriteSteps DEF RollbackSaves
  <2>2. CASE RewindStart(s) \/ Rollback(s) \/ RollbackReturns(s)
    BY <2>2 DEF RewindStart, Rollback, RollbackReturns
  <2>3. CASE RewindCodeFails(s) \/ RewindSucceeds(s) \/ RewindConversationFails(s)
    BY <2>3 DEF RewindCodeFails, RewindSucceeds, RewindCode, RewindConversation,
                RewindConversationFails
  <2> QED
    BY <1>7, <2>1, <2>2, <2>3 DEF RewindStep
<1>8. CASE UNCHANGED vars
  BY <1>1, <1>8 DEF vars
<1> QED
  BY <1>1, <1>2, <1>3, <1>4, <1>5, <1>6, <1>7, <1>8 DEF Next, Loop

\* A file changes by itself, by a call, or by a rollback, and the history says
\* by which.
LEMMA NextChanges ==
    ASSUME TypesInv, [Next]_vars
    PROVE  \/ UNCHANGED <<files, history>>
           \/ \E h : history' = Append(history, h) /\ h.rewind = {}
           \/ \E r \in Session : RollbackSaves(r)
<1> USE DEF sessionVars, engineVars, fileVars
<1>1. ASSUME NEW f \in File, Outside(f) PROVE \E h : history' = Append(history, h) /\ h.rewind = {}
  BY <1>1 DEF Outside, Change
<1>2. ASSUME NEW s \in Session, Message(s) \/ Recover(s)
      PROVE  UNCHANGED <<files, history>>
  BY <1>2 DEF Message, Recover
<1>3. ASSUME NEW s \in Session, RunTool(s)
      PROVE  \/ UNCHANGED <<files, history>>
             \/ \E h : history' = Append(history, h) /\ h.rewind = {}
  <2>1. CASE WriteFile(Tool(s))
    <3>1. Tool(s) \in Writer /\ Tool(s)[1] = "tool"
      BY TypesFacts, ToolsApart
    <3> QED
      BY <2>1, <3>1, WriteSteps
  <2>2. CASE ToolCreate(s)
    BY <2>2 DEF ToolCreate, Change
  <2>3. CASE \/ ToolCall(s) \/ ApplyNoBackup(s) \/ ApplyPatch(s) \/ ApplyMisfits(s)
             \/ ApplyRecord(s) \/ ApplyFailed(s)
    BY <2>3 DEF ToolCall, ToolRead, ToolReadSame, ApplyNoBackup, ApplyPatch, ApplyMisfits,
                ApplyRecord, ApplyFailed
  <2> QED
    BY <1>3, <2>1, <2>2, <2>3 DEF RunTool, ToolStep
<1>4. ASSUME NEW s \in Session,
             \/ CheckpointTake(s) \/ CheckpointSaveState(s)
             \/ CheckpointSave(s) \/ CheckpointFails(s)
      PROVE  UNCHANGED <<files, history>>
  BY <1>4, CheckpointSteps
<1>5. ASSUME NEW s \in Session, RewindStep(s), ~RollbackSaves(s)
      PROVE  UNCHANGED <<files, history>>
  BY <1>5 DEF RewindStep, RewindStart, Rollback, RollbackReturns, RewindCodeFails,
              RewindSucceeds, RewindCode, RewindConversation, RewindConversationFails
<1>6. CASE UNCHANGED vars
  BY <1>6 DEF vars
<1> QED
  BY <1>1, <1>2, <1>3, <1>4, <1>5, <1>6 DEF Next, Loop

LEMMA NextOrder ==
    ASSUME TypesInv, RecordInv, StoryInv, InOrder, [Next]_vars
    PROVE  InOrder'
<1> USE DEF sessionVars, engineVars, fileVars
<1>0. \A p \in 1..Len(backups) : backups'[p] = backups[p]
  BY NextGrows DEF Extends
<1>1. ASSUME UNCHANGED <<changes, saves, checkpoints>> PROVE InOrder'
  <2>1. \A s \in Session : Taken(s)' = Taken(s)
    BY <1>1 DEF Taken
  <2> QED
    BY <1>0, <1>1, <2>1, OrderKept
<1>2. ASSUME NEW f \in File, Outside(f), UNCHANGED <<sessionVars, rewindVars>> PROVE InOrder'
  BY <1>1, <1>2 DEF Outside
<1>3. ASSUME NEW s \in Session, Message(s) \/ Recover(s) PROVE InOrder'
  BY <1>1, <1>3 DEF Message, Recover
<1>4. ASSUME NEW s \in Session, RunTool(s) PROVE InOrder'
  <2>0. UNCHANGED <<saves, checkpoints>>
    BY <1>4 DEF RunTool
  <2>1. CASE WriteFile(Tool(s))
    BY <1>1, <2>0, <2>1, TypesFacts, WriteSteps
  <2>2. CASE ApplyRecord(s)
    BY <2>0, <2>2, RecordOrder
  <2>3. CASE \/ ToolCall(s) \/ ToolCreate(s) \/ ApplyNoBackup(s) \/ ApplyPatch(s)
             \/ ApplyMisfits(s) \/ ApplyFailed(s)
    BY <1>1, <2>0, <2>3
    DEF ToolCall, ToolRead, ToolReadSame, ToolCreate, ApplyNoBackup, ApplyPatch, ApplyMisfits,
        ApplyFailed
  <2> QED
    BY <1>4, <2>1, <2>2, <2>3 DEF RunTool, ToolStep
<1>5. ASSUME NEW s \in Session,
             \/ CheckpointTake(s) \/ CheckpointSaveState(s)
             \/ CheckpointSave(s) \/ CheckpointFails(s)
      PROVE  InOrder'
  <2>1. changes' = changes \/ changes' = <<>>
    BY <1>5, CheckpointSteps
  <2>2. \A r \in Session : \A new \in Taken(r)' :
           (\E old \in Taken(r) : old.changes = new.changes) \/ new.changes = changes
    BY <1>5, CheckpointSteps
  <2> QED
    BY <1>0, <2>1, <2>2, OrderKept
<1>6. ASSUME NEW s \in Session, RewindStep(s) PROVE InOrder'
  <2>1. CASE RollbackSaves(s)
    BY <1>1, <2>1, TypesFacts, WriteSteps DEF RollbackSaves
  <2>2. CASE RewindStart(s) \/ Rollback(s) \/ RollbackReturns(s)
    BY <1>1, <2>2 DEF RewindStart, Rollback, RollbackReturns
  <2>3. CASE RewindCodeFails(s) \/ RewindSucceeds(s) \/ RewindConversationFails(s)
    BY <1>1, <2>3 DEF RewindCodeFails, RewindSucceeds, RewindCode, RewindConversation,
                      RewindConversationFails
  <2> QED
    BY <1>6, <2>1, <2>2, <2>3 DEF RewindStep
<1>7. CASE UNCHANGED vars
  BY <1>1, <1>7 DEF vars
<1> QED
  BY <1>2, <1>3, <1>4, <1>5, <1>6, <1>7 DEF Next, Loop

LEMMA InitOrder == Init => InOrder
<1> SUFFICES ASSUME Init PROVE InOrder
  OBVIOUS
<1>1. changes = <<>> /\ \A s \in Session : saves[s] = NoSave /\ 1..Len(checkpoints[s]) = {}
  BY DEF Init, EngineInit
<1>2. Ordered(<<>>)
  BY DEF Ordered
<1> QED
  BY <1>1, <1>2 DEF InOrder, Taken

-----------------------------------------------------------------------------
\* The rollbacks of a rewind end with the first patch of S that a checkpoint
\* lists, when it is the only one to list any.
LEMMA RollbacksLast ==
    ASSUME TypesInv, RecordInv, NEW s \in Session, NEW target \in 1..Len(checkpoints[s]), NEW S
    PROVE  /\ (\A k \in Later(s, target) : NoneOf(checkpoints[s][k].changes, S))
                => NoneOf(Rollbacks(s, target), S)
           /\ \A k \in Later(s, target) : \A a \in 1..Len(checkpoints[s][k].changes) :
                /\ checkpoints[s][k].changes[a] \in S
                /\ \A b \in 1..(a - 1) : checkpoints[s][k].changes[b] \notin S
                /\ \A l \in Later(s, target) : l # k => NoneOf(checkpoints[s][l].changes, S)
                => LastOf(Rollbacks(s, target), S, checkpoints[s][k].changes[a])
<1> DEFINE n == Len(checkpoints[s]) - target
           list(i) == checkpoints[s][target + i].changes
           seqs == [i \in 1..n |-> Reverse(list(i))]
<1>1. Len(checkpoints[s]) \in Nat
  BY DEF TypesInv, SavesTyped
<1>2. /\ n \in Nat /\ \A i \in 1..n : target + i \in Later(s, target)
      /\ \A k \in Later(s, target) : k - target \in 1..n /\ target + (k - target) = k
      /\ \A i \in 1..n : \A k \in Later(s, target) : i # k - target => target + i # k
      /\ \A k \in Later(s, target) : k \in 1..Len(checkpoints[s])
  BY <1>1 DEF Later
<1>3. \A i \in 1..n : list(i) \in Seq(1..Len(backups))
  BY <1>2, RecordTypes
<1> HIDE DEF n, list
<1>4. \A i \in 1..n : Reverse(list(i)) \in Seq(1..Len(backups))
  BY <1>3, ReverseType
<1>5. seqs \in Seq(Seq(1..Len(backups))) /\ Len(seqs) = n
      /\ \A i \in 1..n : seqs[i] = Reverse(list(i))
  BY <1>2, <1>4
<1> HIDE DEF seqs
<1>6. Rollbacks(s, target) = FlattenSeq(seqs)
  BY DEF Rollbacks, seqs, n, list
<1>7. \A i \in 1..n : NoneOf(list(i), S) => NoneOf(seqs[i], S)
  BY <1>3, <1>5, LastOfReverse
<1>8. ASSUME \A k \in Later(s, target) : NoneOf(checkpoints[s][k].changes, S)
      PROVE  NoneOf(Rollbacks(s, target), S)
  <2>1. \A i \in 1..n : NoneOf(list(i), S)
    BY <1>2, <1>8 DEF list
  <2>2. \A i \in 1..Len(seqs) : NoneOf(seqs[i], S)
    BY <1>5, <1>7, <2>1
  <2> QED
    BY <1>5, <1>6, <2>2, LastOfFlatten
<1>9. ASSUME NEW k \in Later(s, target), NEW a \in 1..Len(checkpoints[s][k].changes),
             checkpoints[s][k].changes[a] \in S,
             \A b \in 1..(a - 1) : checkpoints[s][k].changes[b] \notin S,
             \A l \in Later(s, target) : l # k => NoneOf(checkpoints[s][l].changes, S)
      PROVE  LastOf(Rollbacks(s, target), S, checkpoints[s][k].changes[a])
  <2>1. PICK m \in 1..n : target + m = k /\ m = k - target
    BY <1>2
  <2>2. list(m) = checkpoints[s][k].changes
    BY <2>1 DEF list
  <2>3. LastOf(seqs[m], S, list(m)[a])
    <3>1. list(m) \in Seq(1..Len(backups))
      BY <1>3, <2>1
    <3>2. a \in 1..Len(list(m)) /\ list(m)[a] \in S /\ \A b \in 1..(a - 1) : list(m)[b] \notin S
      BY <1>9, <2>2
    <3>3. LastOf(Reverse(list(m)), S, list(m)[a])
      BY ONLY <3>1, <3>2, LastOfReverse
    <3> QED
      BY <1>5, <2>1, <3>3
  <2>4. \A i \in 1..n : i # m => NoneOf(list(i), S)
    BY <1>2, <1>9, <2>1 DEF list
  <2>5. \A i \in 1..Len(seqs) : i # m => NoneOf(seqs[i], S)
    BY <1>5, <1>7, <2>4
  <2>6. LastOf(FlattenSeq(seqs), S, list(m)[a])
    BY <1>5, <2>1, <2>3, <2>5, LastOfFlatten
  <2> QED
    BY <1>6, <2>2, <2>6
<1> QED
  BY <1>8, <1>9

\* Since some moment, only a session's patches from p on were written to a file.
OnlyFrom(p, f, at) ==
    \A j \in (at + 1)..Len(history) : history[j].file = f =>
        /\ history[j].patch # 0 /\ backups[history[j].patch].by = backups[p].by
        /\ history[j].patch = p \/ history[j].patch > p

\* The backup of the first of them has the file as it was at that moment.
LEMMA BackupIsOld ==
    ASSUME NEW contents, NEW backedUp, \A q \in Nat : backedUp[q] \in Nat,
           Told(contents, backedUp, history, files, backups),
           IsSeq(history), Len(backups) \in Nat,
           NEW f, f \in File, NEW at, at \in Nat, NEW p, p # 0, OnlyFrom(p, f, at),
           NEW i, i \in (at + 1)..Len(history), p = history[i].patch,
           backups[p].file = f, at <= backedUp[p]
    PROVE  backups[p].content = contents[at][f]
<1> DEFINE n == Len(history)
<1>0. PICK b : b = backedUp[p]
  OBVIOUS
<1>1. n \in Nat /\ i \in 1..n /\ i \in Nat
  <2>1. n \in Nat
    BY AppendAny
  <2>2. i \in (at + 1)..n
    OBVIOUS
  <2> HIDE DEF n
  <2> QED
    BY ONLY <2>1, <2>2, at \in Nat
<1>2. /\ p \in 1..Len(backups) /\ b < i
      /\ \A j \in 1..n : history[j].patch = p => j = i
      /\ \A q \in 1..Len(backups) : q > p /\ backups[q].by = backups[p].by => i <= backedUp[q]
  BY <1>0, <1>1 DEF Told, n
<1>3. backups[p].content = contents[b][f] /\ b \in Nat
  <2>1. p \in Nat
    BY ONLY <1>2, Len(backups) \in Nat
  <2> QED
    BY <1>0, <1>2, <2>1 DEF Told
<1>4. b \in at..n
  <2>1. at <= b
    BY <1>0
  <2> HIDE DEF n
  <2> QED
    BY ONLY <1>1, <1>2, <1>3, <2>1
<1>5. ASSUME NEW j, j \in (at + 1)..b, history[j].file = f PROVE FALSE
  <2>1. j \in (at + 1)..n /\ j \in 1..n /\ j < i /\ j \in Nat
    <3> HIDE DEF n
    <3> QED
      BY ONLY <1>1, <1>2, <1>4, <1>5, at \in Nat
  <2>2. /\ history[j].patch # 0 /\ backups[history[j].patch].by = backups[p].by
        /\ history[j].patch = p \/ history[j].patch > p
    BY <1>5, <2>1 DEF n, OnlyFrom
  <2>3. history[j].patch # p
    BY <1>2, <2>1
  <2>4. history[j].patch \in 1..Len(backups) /\ backedUp[history[j].patch] < j
    BY <2>1, <2>2 DEF Told, n
  <2>5. i <= backedUp[history[j].patch]
    BY <1>2, <2>2, <2>3, <2>4
  <2>6. backedUp[history[j].patch] \in Nat
    <3>1. history[j].patch \in Nat
      BY ONLY <2>4, Len(backups) \in Nat
    <3> QED
      BY <3>1
  <2> HIDE DEF n
  <2> QED
    BY ONLY <1>1, <2>1, <2>4, <2>5, <2>6
<1>6. contents[b][f] = contents[at][f]
  <2>1. Spared(f, history, at, b)
    BY <1>5 DEF Spared
  <2>2. b \in at..Len(history)
    BY <1>4
  <2> HIDE DEF n
  <2> QED
    BY ONLY <2>1, <2>2, Told(contents, backedUp, history, files, backups), IsSeq(history),
            f \in File, at \in Nat, Untouched
<1> QED
  BY <1>3, <1>6

\* The patches of a file.
On(f) == {p \in 1..Len(backups) : backups[p].file = f}

\* Rollbacks, in the order of todo, make of a file what was[f] is: there is none
\* and it is, or the last of them has the backup of it.
RollsBackTo(was, todo, f) ==
    \/ NoneOf(todo, On(f)) /\ files[f] = was[f]
    \/ \E p \in On(f) : LastOf(todo, On(f), p) /\ backups[p].content = was[f]

ListOf(s, k) == checkpoints[s][k].changes

ListedAfter(s, target) == UNION {ToSet(ListOf(s, k)) : k \in Later(s, target)}

\* What Undisturbed and OneCheckpointPerFile say when the rewind starts.
LEMMA StartExact ==
    ASSUME TypesInv, RecordInv, StoryInv, InOrder,
           NEW s \in Session, NEW target \in 1..Len(checkpoints[s]),
           NEW at, at = checkpoints[s][target].at,
           {history[i].patch : i \in (at + 1)..Len(history)} = ListedAfter(s, target),
           \A p \in ListedAfter(s, target) : backups[p].by = s,
           \A j, k \in Later(s, target) : j # k => FilesOf(s, j) \intersect FilesOf(s, k) = {},
           NEW f \in File
    PROVE  RollsBackTo(checkpoints[s][target].was, Rollbacks(s, target), f)
<1> DEFINE was == checkpoints[s][target].was
<1>1. /\ Len(checkpoints[s]) \in Nat /\ IsSeq(history) /\ Len(history) \in Nat
      /\ backups \in Seq(BackupType) /\ Len(backups) \in Nat
  BY AppendAny DEF TypesInv, SavesTyped, FilesTyped, CallsTyped
<1>2. \A k \in Later(s, target) : k \in 1..Len(checkpoints[s])
  BY <1>1 DEF Later
<1>3. ASSUME NEW k \in Later(s, target)
      PROVE  /\ ListOf(s, k) \in Seq(1..Len(backups)) /\ Len(ListOf(s, k)) \in Nat
             /\ DOMAIN ListOf(s, k) = 1..Len(ListOf(s, k))
             /\ \A a \in 1..Len(ListOf(s, k)) :
                  ListOf(s, k)[a] \in 1..Len(backups) /\ ListOf(s, k)[a] \in ListedAfter(s, target)
             /\ Ordered(ListOf(s, k))
  <2>1. ListOf(s, k) \in Seq(1..Len(backups))
    BY <1>2, RecordTypes DEF ListOf
  <2>2. checkpoints[s][k] \in Taken(s)
    BY <1>2 DEF Taken
  <2>3. Ordered(ListOf(s, k))
    BY <2>2 DEF InOrder, ListOf
  <2>4. \A a \in DOMAIN ListOf(s, k) : ListOf(s, k)[a] \in ToSet(ListOf(s, k))
    BY DEF ToSet
  <2>5. \A p \in ToSet(ListOf(s, k)) : p \in ListedAfter(s, target)
    BY DEF ListedAfter
  <2> QED
    BY <2>1, <2>3, <2>4, <2>5
<1>4. ASSUME NEW p \in ListedAfter(s, target)
      PROVE  \E k \in Later(s, target) : \E a \in 1..Len(ListOf(s, k)) : ListOf(s, k)[a] = p
  <2>1. PICK k \in Later(s, target) : p \in ToSet(ListOf(s, k))
    BY <1>4 DEF ListedAfter
  <2>2. PICK a \in DOMAIN ListOf(s, k) : ListOf(s, k)[a] = p
    BY <2>1 DEF ToSet
  <2> QED
    BY <1>3, <2>2
<1>5. /\ \A p \in ListedAfter(s, target) :
           /\ p \in 1..Len(backups) /\ p # 0 /\ backups[p].by = s
           /\ \E i \in (at + 1)..Len(history) : history[i].patch = p
      /\ \A i \in (at + 1)..Len(history) : history[i].patch \in ListedAfter(s, target)
  <2>1. \A p \in ListedAfter(s, target) : p \in 1..Len(backups)
    BY <1>3, <1>4
  <2>2. \A p \in 1..Len(backups) : p # 0
    BY <1>1
  <2>3. /\ \A p \in ListedAfter(s, target) : \E i \in (at + 1)..Len(history) : history[i].patch = p
        /\ \A i \in (at + 1)..Len(history) : history[i].patch \in ListedAfter(s, target)
    BY Zenon
  <2> QED
    BY <2>1, <2>2, <2>3
<1>6. PICK contents, backedUp :
         contents \in Trace /\ (\A q \in Nat : backedUp[q] \in Nat) /\ Story(contents, backedUp)
  BY DEF StoryInv
<1>7. /\ Told(contents, backedUp, history, files, backups)
      /\ contents[Len(history)] = files
      /\ \A q \in Nat : backedUp[q] \in Nat
  BY <1>6 DEF Story, Told
<1>8. /\ at \in 0..Len(history) /\ was = contents[at]
      /\ \A i \in (at + 1)..Len(history) :
           history[i].patch # 0 /\ backups[history[i].patch].by = s
             => at <= backedUp[history[i].patch]
  <2>1. checkpoints[s][target] \in Taken(s)
    BY DEF Taken
  <2>2. TakenTold(s, checkpoints[s][target], contents, backedUp)
    BY <1>6, <2>1 DEF Story
  <2> QED
    BY <2>2 DEF TakenTold
<1>9. \A i \in (at + 1)..Len(history) : i \in 1..Len(history)
  BY ONLY <1>1, <1>8, AfterSome
<1>10. \A i \in (at + 1)..Len(history) : history[i].file = backups[history[i].patch].file
  BY <1>5, <1>7, <1>9 DEF Told
<1>11. at \in Nat
  BY ONLY <1>1, <1>8
<1> HIDE DEF was
<1>12. CASE \A k \in Later(s, target) : NoneOf(ListOf(s, k), On(f))
  <2>1. NoneOf(Rollbacks(s, target), On(f))
    BY <1>12, RollbacksLast DEF ListOf
  <2>2. \A i \in (at + 1)..Len(history) : history[i].file # f
    <3> SUFFICES ASSUME NEW i \in (at + 1)..Len(history), history[i].file = f PROVE FALSE
      OBVIOUS
    <3>1. history[i].patch \in On(f)
      BY <1>5, <1>10 DEF On
    <3>2. PICK k \in Later(s, target) : \E a \in 1..Len(ListOf(s, k)) :
              ListOf(s, k)[a] = history[i].patch
      BY <1>4, <1>5
    <3> QED
      BY <1>12, <3>1, <3>2 DEF NoneOf
  <2>3. Len(history) \in at..Len(history)
    BY ONLY <1>1, <1>8
  <2>4. contents[Len(history)][f] = contents[at][f]
    <3>1. Spared(f, history, at, Len(history))
      BY <2>2 DEF Spared
    <3> QED
      BY ONLY <1>1, <1>7, <1>11, <2>3, <3>1, f \in File, Untouched
  <2> QED
    BY <1>7, <1>8, <2>1, <2>4 DEF RollsBackTo, was
<1>13. CASE \E k \in Later(s, target) : ~NoneOf(ListOf(s, k), On(f))
  <2>1. PICK k \in Later(s, target) : ~NoneOf(ListOf(s, k), On(f))
    BY <1>13
  <2> DEFINE A == {a \in 1..Len(ListOf(s, k)) : ListOf(s, k)[a] \in On(f)}
  <2>2. A # {} /\ A \in SUBSET Nat
    <3>1. Len(ListOf(s, k)) \in Nat
      BY <1>3
    <3>2. A \in SUBSET Nat
      BY ONLY <3>1
    <3>3. A # {}
      BY <2>1 DEF NoneOf
    <3> QED
      BY <3>2, <3>3
  <2>3. PICK a \in A : \A c \in A : a <= c
    <3> HIDE DEF A
    <3> QED
      BY ONLY <2>2, LeastNatural
  <2>4. a \in 1..Len(ListOf(s, k)) /\ a \in Nat /\ ListOf(s, k)[a] \in On(f)
    BY <2>2, <2>3
  <2>5. \A c \in 1..Len(ListOf(s, k)) : ListOf(s, k)[c] \in On(f) => a <= c /\ c \in Nat
    BY <2>2, <2>3
  <2> HIDE DEF A
  <2>6. \A c \in 1..(a - 1) : ListOf(s, k)[c] \notin On(f)
    <3>1. \A c \in 1..(a - 1) : c \in 1..Len(ListOf(s, k)) /\ ~(a <= c)
      <4>1. Len(ListOf(s, k)) \in Nat
        BY <1>3
      <4> QED
        BY ONLY <2>4, <4>1
    <3> QED
      BY <2>5, <3>1
  <2>7. PICK p : p = ListOf(s, k)[a]
    OBVIOUS
  <2>8. p \in On(f) /\ p \in ListedAfter(s, target) /\ backups[p].file = f
    BY <1>3, <2>4, <2>7 DEF On
  <2>9. ASSUME NEW l \in Later(s, target), l # k
        PROVE  NoneOf(ListOf(s, l), On(f))
    <3> SUFFICES ASSUME NEW c \in 1..Len(ListOf(s, l)), ListOf(s, l)[c] \in On(f) PROVE FALSE
      BY DEF NoneOf
    <3>1. ASSUME NEW m \in Later(s, target), NEW d \in 1..Len(ListOf(s, m)),
                 ListOf(s, m)[d] \in On(f)
          PROVE  f \in FilesOf(s, m)
      <4>1. ListOf(s, m)[d] \in ToSet(ListOf(s, m))
        BY <1>3 DEF ToSet
      <4>2. backups[ListOf(s, m)[d]].file = f
        BY <3>1 DEF On
      <4> QED
        BY <4>1, <4>2 DEF FilesOf, ListOf
    <3>2. f \in FilesOf(s, l) /\ f \in FilesOf(s, k)
      BY <2>4, <3>1
    <3> QED
      BY <2>9, <3>2
  <2>10. LastOf(Rollbacks(s, target), On(f), p)
    <3>1. /\ ListOf(s, k)[a] \in On(f) /\ a \in 1..Len(ListOf(s, k))
          /\ \A c \in 1..(a - 1) : ListOf(s, k)[c] \notin On(f)
          /\ \A l \in Later(s, target) : l # k => NoneOf(ListOf(s, l), On(f))
      BY <2>4, <2>6, <2>9
    <3> QED
      BY <2>7, <3>1, RollbacksLast DEF ListOf
  <2>11. PICK i \in (at + 1)..Len(history) : history[i].patch = p
    BY <1>5, <2>8
  <2>12. p # 0 /\ backups[p].by = s /\ at <= backedUp[p]
    BY <1>5, <1>8, <2>8, <2>11
  <2>13. ASSUME NEW j \in (at + 1)..Len(history), history[j].file = f
         PROVE  /\ history[j].patch # 0 /\ backups[history[j].patch].by = backups[p].by
                /\ history[j].patch = p \/ history[j].patch > p
    <3>1. PICK q : q = history[j].patch
      OBVIOUS
    <3>2. /\ q \in ListedAfter(s, target) /\ q # 0 /\ q \in 1..Len(backups)
          /\ backups[q].by = s /\ backups[q].file = f
      BY <1>5, <1>10, <2>13, <3>1
    <3>3. q \in On(f)
      BY <3>2 DEF On
    <3>4. PICK l \in Later(s, target) : \E c \in 1..Len(ListOf(s, l)) : ListOf(s, l)[c] = q
      BY <1>4, <3>2
    <3>5. PICK c \in 1..Len(ListOf(s, l)) : ListOf(s, l)[c] = q
      BY <3>4
    <3>6. l = k
      BY <2>9, <3>3, <3>5 DEF NoneOf
    <3>7. a <= c /\ c \in 1..Len(ListOf(s, k)) /\ ListOf(s, k)[c] = q /\ c \in Nat
      BY <2>5, <3>3, <3>5, <3>6
    <3>8. CASE a = c
      BY <2>7, <2>12, <3>1, <3>2, <3>7, <3>8
    <3>9. CASE a < c
      <4>1. p < q
        <5>1. Ordered(ListOf(s, k)) /\ a \in 1..Len(ListOf(s, k))
          BY <1>3, <2>4
        <5>2. backups[ListOf(s, k)[a]].by = backups[ListOf(s, k)[c]].by
          BY <2>7, <2>12, <3>2, <3>7
        <5> QED
          BY ONLY <2>7, <3>7, <3>9, <5>1, <5>2 DEF Ordered
      <4>2. p \in Nat /\ q \in Nat
        <5>1. p \in 1..Len(backups)
          BY <1>5, <2>8
        <5> QED
          BY ONLY <1>1, <3>2, <5>1
      <4>3. q > p
        BY ONLY <4>1, <4>2
      <4> QED
        BY <2>12, <3>1, <3>2, <4>3
    <3>10. a = c \/ a < c
      BY ONLY <2>4, <3>7
    <3> QED
      BY <3>8, <3>9, <3>10
  <2>14. backups[p].content = contents[at][f]
    <3>1. f \in File /\ i \in (at + 1)..Len(history)
      BY <1>6
    <3>2. p = history[i].patch /\ p # 0 /\ backups[p].file = f /\ at <= backedUp[p]
      BY <2>8, <2>11, <2>12
    <3>3. /\ \A q \in Nat : backedUp[q] \in Nat
          /\ Told(contents, backedUp, history, files, backups)
          /\ IsSeq(history) /\ Len(backups) \in Nat
      BY <1>1, <1>7
    <3>4. OnlyFrom(p, f, at)
      BY <2>13 DEF OnlyFrom
    <3> QED
      BY ONLY <1>11, <3>1, <3>2, <3>3, <3>4, BackupIsOld
  <2> QED
    BY <1>8, <2>8, <2>10, <2>14 DEF RollsBackTo, was
<1> QED
  BY <1>12, <1>13 DEF was

-----------------------------------------------------------------------------
\* A rewind of the code that promises the files as they were: so far no
\* rollback failed and nothing else happened to the files.
Clean(s) ==
    rewinds[s].code /\ ~rewinds[s].failed /\ Undisturbed(s) /\ OneCheckpointPerFile(s)

\* A rollback writes the backup of the first of the patches that are left.
\* Those that are left make of every file what it was at the checkpoint.
Rewinding(s) ==
    rewinds[s] # NoRewind =>
        /\ rewinds[s].from \in 0..Len(history)
        /\ rewinds[s].later \subseteq 1..Len(checkpoints[s])
        /\ saving[Rewinder(s)] # NotSaving =>
             LET backup == backups[Head(rewinds[s].todo)] IN
             /\ saving[Rewinder(s)].file = backup.file
             /\ saving[Rewinder(s)].content = backup.content
        /\ Clean(s) =>
             /\ \A f \in File :
                  RollsBackTo(checkpoints[s][rewinds[s].target].was, rewinds[s].todo, f)
             /\ saving[Rewinder(s)].step = "saved" =>
                  files[saving[Rewinder(s)].file] = saving[Rewinder(s)].content

RewindingInv == \A s \in Session : Rewinding(s)

LEMMA TypedRewind ==
    ASSUME TypesInv, NEW s \in Session, rewinds[s] # NoRewind
    PROVE  /\ rewinds[s] \in RewindType /\ rewinds[s].step = "code"
           /\ rewinds[s].target \in 1..Len(checkpoints[s])
           /\ checkpoints[s][rewinds[s].target].at \in Nat
           /\ rewinds[s].todo \in Seq(1..Len(backups))
<1>1. /\ rewinds[s] \in RewindType /\ rewinds[s].step = "code"
      /\ rewinds[s].target \in 1..Len(checkpoints[s])
      /\ rewinds[s].todo \in Seq(1..Len(backups))
  BY DEF TypesInv, RewindsTyped, RewindType
<1>2. checkpoints[s][rewinds[s].target] \in CheckpointType
  BY <1>1 DEF TypesInv, SavesTyped
<1> QED
  BY <1>1, <1>2 DEF CheckpointType

LEMMA NextHistory ==
    ASSUME TypesInv, [Next]_vars
    PROVE  UNCHANGED history \/ \E h : history' = Append(history, h)
<1>1. ASSUME NEW r \in Session, RollbackSaves(r)
      PROVE  UNCHANGED history \/ \E h : history' = Append(history, h)
  <2>1. Rewinder(r) \in Writer /\ WriteFile(Rewinder(r))
    BY <1>1, TypesFacts DEF RollbackSaves
  <2> QED
    BY <2>1, WriteSteps
<1> QED
  BY <1>1, NextChanges

\* What was so when a rewind started stays so, and what is so now was so before:
\* a rewind that is clean has been clean.
LEMMA StillClean ==
    ASSUME TypesInv, RecordInv, [Next]_vars, NEW s \in Session, rewinds[s] # NoRewind,
           Rewinding(s), Clean(s)',
           rewinds'[s].code = rewinds[s].code, rewinds'[s].target = rewinds[s].target,
           rewinds'[s].later = rewinds[s].later, rewinds'[s].from = rewinds[s].from,
           rewinds[s].failed => rewinds'[s].failed
    PROVE  /\ Clean(s)
           /\ checkpoints'[s][rewinds[s].target] = checkpoints[s][rewinds[s].target]
           /\ \A h : history' = Append(history, h) => h.rewind = {s}
<1> DEFINE r == rewinds[s]
           cp == checkpoints[s][r.target]
           listed == UNION {ToSet(checkpoints[s][k].changes) : k \in r.later}
<1>1. /\ cp.at \in Nat /\ r.target \in 1..Len(checkpoints[s])
      /\ r.from \in 0..Len(history) /\ r.later \subseteq 1..Len(checkpoints[s])
      /\ IsSeq(history) /\ Len(history) \in Nat
  BY TypedRewind, AppendAny DEF Rewinding, TypesInv, FilesTyped
<1>2. /\ \A k \in 1..Len(checkpoints[s]) : checkpoints'[s][k] = checkpoints[s][k]
      /\ \A p \in 1..Len(backups) : backups'[p] = backups[p]
  BY NextGrows DEF Extends
<1>3. \A k \in r.later : \A p \in ToSet(checkpoints[s][k].changes) : p \in 1..Len(backups)
  <2> SUFFICES ASSUME NEW k \in r.later, NEW p \in ToSet(checkpoints[s][k].changes)
               PROVE  p \in 1..Len(backups)
    OBVIOUS
  <2>1. checkpoints[s][k].changes \in Seq(1..Len(backups))
    BY <1>1, RecordTypes
  <2> QED
    BY <2>1 DEF ToSet
<1>4. /\ checkpoints'[s][rewinds'[s].target] = cp
      /\ UNION {ToSet(checkpoints'[s][k].changes) : k \in rewinds'[s].later} = listed
  BY <1>1, <1>2
<1>5. /\ \A i \in 1..Len(history) : history'[i] = history[i]
      /\ Len(history) <= Len(history') /\ Len(history') \in Nat
      /\ \A h : history' = Append(history, h) =>
            history'[Len(history) + 1] = h /\ Len(history') = Len(history) + 1
  <2>1. CASE UNCHANGED history
    BY <1>1, <2>1, AppendAny
  <2>2. ASSUME NEW h, history' = Append(history, h)
        PROVE  /\ \A i \in 1..Len(history) : history'[i] = history[i]
               /\ Len(history) <= Len(history') /\ Len(history') \in Nat
    BY <1>1, <2>2, AppendAny
  <2>3. \A h : history' = Append(history, h) =>
            history'[Len(history) + 1] = h /\ Len(history') = Len(history) + 1
    BY <1>1, AppendAny
  <2> QED
    BY <2>1, <2>2, <2>3, NextHistory
<1>6. /\ \A i \in (cp.at + 1)..r.from : i \in 1..Len(history)
      /\ \A i \in (r.from + 1)..Len(history) :
           i \in 1..Len(history) /\ i \in (r.from + 1)..Len(history')
      /\ Len(history') = Len(history) + 1 => Len(history) + 1 \in (r.from + 1)..Len(history')
  <2> HIDE DEF cp, r
  <2> QED
    BY ONLY <1>1, <1>5
<1>7. /\ {h.patch : h \in {history'[i] : i \in (cp.at + 1)..r.from}} = listed
      /\ \A p \in listed : backups'[p].by = s
      /\ \A i \in (r.from + 1)..Len(history') : history'[i].rewind = {s}
  <2>1. Undisturbed(s)'
    BY DEF Clean
  <2>2. /\ {h.patch : h \in {history'[i] : i \in
              (checkpoints'[s][rewinds'[s].target].at + 1)..rewinds'[s].from}}
             = UNION {ToSet(checkpoints'[s][k].changes) : k \in rewinds'[s].later}
        /\ \A p \in UNION {ToSet(checkpoints'[s][k].changes) : k \in rewinds'[s].later} :
             backups'[p].by = s
        /\ \A h \in {history'[i] : i \in (rewinds'[s].from + 1)..Len(history')} : h.rewind = {s}
    BY ONLY <2>1 DEF Undisturbed
  <2> QED
    BY <1>4, <2>2
<1>8. Undisturbed(s)
  <2>1. {history'[i] : i \in (cp.at + 1)..r.from} = {history[i] : i \in (cp.at + 1)..r.from}
    BY <1>5, <1>6
  <2>2. \A i \in (r.from + 1)..Len(history) : history[i].rewind = {s}
    BY <1>5, <1>6, <1>7
  <2>3. \A p \in listed : backups[p].by = s
    BY <1>2, <1>3, <1>7
  <2> QED
    BY <1>7, <2>1, <2>2, <2>3 DEF Undisturbed
<1>9. \A h : history' = Append(history, h) => h.rewind = {s}
  BY <1>5, <1>6, <1>7
<1>10. OneCheckpointPerFile(s)
  <2>1. \A k \in r.later : FilesOf(s, k)' = FilesOf(s, k)
    <3> SUFFICES ASSUME NEW k \in r.later
                 PROVE  {backups'[p].file : p \in ToSet(checkpoints'[s][k].changes)}
                        = {backups[p].file : p \in ToSet(checkpoints[s][k].changes)}
      BY DEF FilesOf
    <3>1. checkpoints'[s][k] = checkpoints[s][k]
      BY <1>1, <1>2
    <3>2. \A p \in ToSet(checkpoints[s][k].changes) : backups'[p] = backups[p]
      BY <1>2, <1>3
    <3> QED
      BY <3>1, <3>2
  <2>2. \A j, k \in rewinds'[s].later : j # k => FilesOf(s, j)' \intersect FilesOf(s, k)' = {}
    BY DEF Clean, OneCheckpointPerFile
  <2> QED
    BY <2>1, <2>2 DEF OneCheckpointPerFile
<1>11. r.code /\ ~r.failed
  BY DEF Clean
<1> QED
  BY <1>1, <1>2, <1>8, <1>9, <1>10, <1>11 DEF Clean

\* The rollbacks that are left when the first is done.
LEMMA LastOfTail ==
    ASSUME NEW T, NEW q \in Seq(T), q # <<>>, NEW S
    PROVE  /\ NoneOf(q, S) => NoneOf(Tail(q), S) /\ Head(q) \notin S
           /\ \A v : LastOf(q, S, v) =>
                LastOf(Tail(q), S, v) \/ (NoneOf(Tail(q), S) /\ v = Head(q) /\ v \in S)
<1> DEFINE r == Tail(q)
           n == Len(q)
<1>1. /\ n \in Nat /\ 1 <= n /\ Len(r) = n - 1 /\ Head(q) = q[1]
      /\ \A i \in 1..(n - 1) : r[i] = q[i + 1]
  OBVIOUS
<1> HIDE DEF r
<1>2. ASSUME NoneOf(q, S) PROVE NoneOf(r, S) /\ Head(q) \notin S
  <2>1. 1 \in 1..n /\ \A i \in 1..(n - 1) : i + 1 \in 1..n
    BY <1>1
  <2> QED
    BY <1>1, <1>2, <2>1 DEF NoneOf
<1>3. ASSUME NEW v, LastOf(q, S, v)
      PROVE  LastOf(r, S, v) \/ (NoneOf(r, S) /\ v = Head(q) /\ v \in S)
  <2>1. PICK i \in 1..n : q[i] = v /\ \A j \in (i + 1)..n : q[j] \notin S
    BY <1>3 DEF LastOf
  <2>2. v \in S
    BY <1>3 DEF LastOf
  <2> HIDE DEF n
  <2>3. CASE i = 1
    <3>1. \A j \in 1..(n - 1) : j + 1 \in (i + 1)..n
      BY ONLY <1>1, <2>3
    <3>2. NoneOf(r, S)
      BY <1>1, <2>1, <3>1 DEF NoneOf
    <3> QED
      BY <1>1, <2>1, <2>2, <2>3, <3>2
  <2>4. CASE i # 1
    <3>1. i - 1 \in 1..(n - 1) /\ (i - 1) + 1 = i
      BY ONLY <1>1, <2>4, i \in 1..n
    <3>2. \A j \in ((i - 1) + 1)..(n - 1) : j \in 1..(n - 1) /\ j + 1 \in (i + 1)..n
      BY ONLY <1>1, <2>4, i \in 1..n
    <3>3. r[i - 1] = v
      BY <1>1, <2>1, <3>1
    <3>4. \A j \in ((i - 1) + 1)..(n - 1) : r[j] \notin S
      BY <1>1, <2>1, <3>2
    <3>5. i - 1 \in 1..Len(r) /\ Len(r) = n - 1
      BY <1>1, <3>1
    <3> QED
      BY <2>2, <3>3, <3>4, <3>5 DEF LastOf
  <2> QED
    BY <2>3, <2>4
<1> QED
  BY <1>2, <1>3 DEF r

\* More backups do not matter, as long as the file stays.
LEMMA RollsBackStill ==
    ASSUME Extends(backups', backups), NEW was, NEW todo, todo \in Seq(1..Len(backups)),
           NEW f, files'[f] = files[f] \/ ~NoneOf(todo, On(f)), RollsBackTo(was, todo, f)
    PROVE  RollsBackTo(was, todo, f)'
<1>1. /\ Len(backups) \in Nat /\ Len(backups') \in Nat /\ Len(backups) <= Len(backups')
      /\ \A p \in 1..Len(backups) : backups'[p] = backups[p]
  BY DEF Extends
<1>2. \A p \in 1..Len(backups) : p \in On(f)' <=> p \in On(f)
  <2>1. \A p \in 1..Len(backups) : p \in 1..Len(backups')
    BY <1>1
  <2> QED
    BY <1>1, <2>1 DEF On
<1>3. \A i \in 1..Len(todo) : todo[i] \in 1..Len(backups)
  OBVIOUS
<1>4. CASE NoneOf(todo, On(f)) /\ files[f] = was[f]
  <2>1. NoneOf(todo, On(f)')
    BY <1>2, <1>3, <1>4 DEF NoneOf
  <2>2. files'[f] = was[f]
    BY <1>4
  <2> QED
    BY <2>1, <2>2 DEF RollsBackTo, NoneOf
<1>5. CASE \E p \in On(f) : LastOf(todo, On(f), p) /\ backups[p].content = was[f]
  <2>1. PICK p \in On(f) : LastOf(todo, On(f), p) /\ backups[p].content = was[f]
    BY <1>5
  <2>2. p \in On(f)' /\ backups'[p].content = was[f]
    BY <1>1, <1>2, <2>1 DEF On
  <2>3. PICK i \in 1..Len(todo) :
           todo[i] = p /\ \A j \in (i + 1)..Len(todo) : todo[j] \notin On(f)
    BY <2>1 DEF LastOf
  <2>4. \A j \in (i + 1)..Len(todo) : j \in 1..Len(todo)
    <3>1. Len(todo) \in Nat
      OBVIOUS
    <3> QED
      BY ONLY <3>1, i \in 1..Len(todo)
  <2>5. \A j \in (i + 1)..Len(todo) : todo[j] \notin On(f)'
    BY <1>2, <1>3, <2>3, <2>4
  <2>6. LastOf(todo, On(f), p)'
    BY <2>2, <2>3, <2>5 DEF LastOf
  <2> QED
    BY <2>2, <2>6 DEF RollsBackTo
<1> QED
  BY <1>4, <1>5 DEF RollsBackTo

\* Steps of anything but the rewind.
LEMMA OthersRewind ==
    ASSUME TypesInv, RecordInv, [Next]_vars, NEW s \in Session, Rewinding(s),
           UNCHANGED <<rewinds[s], saving[Rewinder(s)]>>, ~RollbackSaves(s)
    PROVE  Rewinding(s)'
<1> SUFFICES ASSUME rewinds[s] # NoRewind PROVE Rewinding(s)'
  BY DEF Rewinding
<1> DEFINE r == rewinds[s]
           was == checkpoints[s][r.target].was
<1>1. /\ r \in RewindType /\ r.todo \in Seq(1..Len(backups))
      /\ r.from \in 0..Len(history) /\ r.later \subseteq 1..Len(checkpoints[s])
  BY TypedRewind DEF Rewinding
<1>2. /\ Extends(backups', backups) /\ Extends(checkpoints'[s], checkpoints[s])
      /\ Len(history) \in Nat /\ Len(history') \in Nat /\ Len(history) <= Len(history')
  <2>1. IsSeq(history) /\ Len(history) \in Nat
    BY AppendAny DEF TypesInv, FilesTyped
  <2>2. Len(history') \in Nat /\ Len(history) <= Len(history')
    <3>1. CASE UNCHANGED history
      BY <2>1, <3>1
    <3>2. CASE ~UNCHANGED history
      <4>1. Len(history') = Len(history) + 1
        BY <2>1, <3>2, NextHistory, AppendAny
      <4> QED
        BY <2>1, <4>1
    <3> QED
      BY <3>1, <3>2
  <2> QED
    BY <2>1, <2>2, NextGrows
<1>3. r.from \in 0..Len(history') /\ r.later \subseteq 1..Len(checkpoints'[s])
  <2>1. r.from \in 0..Len(history')
    <3> HIDE DEF r
    <3> QED
      BY ONLY <1>1, <1>2
  <2>2. 1..Len(checkpoints[s]) \subseteq 1..Len(checkpoints'[s])
    BY <1>2 DEF Extends
  <2> QED
    BY <1>1, <2>1, <2>2
<1>4. saving'[Rewinder(s)] # NotSaving =>
        /\ saving'[Rewinder(s)].file = backups'[Head(r.todo)].file
        /\ saving'[Rewinder(s)].content = backups'[Head(r.todo)].content
  <2> SUFFICES ASSUME saving'[Rewinder(s)] # NotSaving
               PROVE  /\ saving'[Rewinder(s)].file = backups'[Head(r.todo)].file
                      /\ saving'[Rewinder(s)].content = backups'[Head(r.todo)].content
    OBVIOUS
  <2>1. Todo(s)
    BY DEF TypesInv, RewindsBusy
  <2>2. Head(r.todo) \in 1..Len(backups)
    BY <1>1, <2>1 DEF Todo
  <2>3. backups'[Head(r.todo)] = backups[Head(r.todo)]
    BY <1>2, <2>2 DEF Extends
  <2> QED
    BY <2>3 DEF Rewinding
<1>5. ASSUME Clean(s)'
      PROVE  /\ \A f \in File : RollsBackTo(checkpoints[s][r.target].was, r.todo, f)'
             /\ checkpoints'[s][r.target] = checkpoints[s][r.target]
             /\ saving'[Rewinder(s)].step = "saved" =>
                  files'[saving'[Rewinder(s)].file] = saving'[Rewinder(s)].content
  <2>1. /\ Clean(s) /\ checkpoints'[s][r.target] = checkpoints[s][r.target]
        /\ \A h : history' = Append(history, h) => h.rewind = {s}
    BY <1>5, StillClean
  <2>2. UNCHANGED files
    <3>1. ASSUME NEW q \in Session, RollbackSaves(q) PROVE UNCHANGED files
      <4>1. Rewinder(q) \in Writer /\ WriteFile(Rewinder(q)) /\ Rewinder(q)[2] = q /\ q # s
        BY <3>1, TypesFacts, ToolsApart DEF RollbackSaves
      <4>2. \/ UNCHANGED files
            \/ \E h : history' = Append(history, h) /\ (h.rewind = {} \/ h.rewind = {q})
        BY <4>1, WriteSteps
      <4> QED
        BY <2>1, <4>1, <4>2
    <3>2. ~\E h : history' = Append(history, h) /\ h.rewind = {}
      BY <2>1
    <3> QED
      BY <3>1, <3>2, NextChanges
  <2>3. \A f \in File : RollsBackTo(was, r.todo, f)
    BY <2>1 DEF Rewinding
  <2>4. PICK w, t : w = was /\ t = r.todo
    OBVIOUS
  <2>5. ASSUME NEW f \in File PROVE RollsBackTo(w, t, f)'
    BY <1>1, <1>2, <2>2, <2>3, <2>4, RollsBackStill
  <2>6. saving[Rewinder(s)].step = "saved" =>
           files[saving[Rewinder(s)].file] = saving[Rewinder(s)].content
    BY <2>1 DEF Rewinding
  <2> QED
    BY <2>1, <2>2, <2>4, <2>5, <2>6
<1> QED
  BY <1>3, <1>4, <1>5 DEF Rewinding

LEMMA StartRewinding ==
    ASSUME TypesInv, RecordInv, StoryInv, InOrder, NEW s \in Session, RewindStart(s)
    PROVE  Rewinding(s)'
<1>1. PICK target \in 1..Len(checkpoints[s]), code \in BOOLEAN, conversation \in BOOLEAN :
          rewinds' = [rewinds EXCEPT ![s] =
               [step |-> "code", target |-> target, code |-> code,
                conversation |-> conversation,
                todo |-> IF code THEN Rollbacks(s, target) ELSE <<>>,
                later |-> IF code THEN Later(s, target) ELSE {},
                from |-> Len(history), failed |-> FALSE]]
  BY DEF RewindStart
<1>2. rewinds \in [Session -> {NoRewind} \union RewindType]
  BY DEF TypesInv, RewindsTyped
<1>3. /\ rewinds'[s].target = target /\ rewinds'[s].from = Len(history)
      /\ rewinds'[s].code = code
      /\ code => rewinds'[s].todo = Rollbacks(s, target) /\ rewinds'[s].later = Later(s, target)
      /\ ~code => rewinds'[s].later = {}
  BY <1>1, <1>2
<1>4. /\ UNCHANGED <<checkpoints, history, backups, files>>
      /\ saving'[Rewinder(s)] = NotSaving
  BY DEF RewindStart, sessionVars, engineVars, fileVars, TypesInv, RewindsBusy, Todo
<1>5. Len(history) \in Nat /\ Len(checkpoints[s]) \in Nat /\ Len(history) \in 0..Len(history)
  <2>1. Len(history) \in Nat /\ Len(checkpoints[s]) \in Nat
    BY AppendAny DEF TypesInv, FilesTyped, SavesTyped
  <2> QED
    BY <2>1
<1>6. rewinds'[s].later \subseteq 1..Len(checkpoints[s])
  <2>1. Later(s, target) \subseteq 1..Len(checkpoints[s])
    BY <1>5 DEF Later
  <2> QED
    BY <1>3, <2>1
<1>7. ASSUME Clean(s)', NEW f \in File
      PROVE  RollsBackTo(checkpoints[s][target].was, Rollbacks(s, target), f)
  <2>1. code /\ Undisturbed(s)' /\ OneCheckpointPerFile(s)'
    BY <1>3, <1>7 DEF Clean
  <2>2. /\ {h.patch : h \in {history[i] : i \in (checkpoints[s][target].at + 1)..Len(history)}}
             = UNION {ToSet(checkpoints[s][k].changes) : k \in Later(s, target)}
        /\ \A p \in UNION {ToSet(checkpoints[s][k].changes) : k \in Later(s, target)} :
             backups[p].by = s
    <3>1. Undisturbed(s)'
      BY <2>1
    <3>2. /\ {h.patch : h \in {history'[i] : i \in
                (checkpoints'[s][rewinds'[s].target].at + 1)..rewinds'[s].from}}
               = UNION {ToSet(checkpoints'[s][k].changes) : k \in rewinds'[s].later}
          /\ \A p \in UNION {ToSet(checkpoints'[s][k].changes) : k \in rewinds'[s].later} :
               backups'[p].by = s
      BY ONLY <3>1 DEF Undisturbed
    <3>3. /\ history' = history /\ checkpoints' = checkpoints /\ backups' = backups
          /\ rewinds'[s].target = target /\ rewinds'[s].from = Len(history)
          /\ rewinds'[s].later = Later(s, target)
      BY <1>3, <1>4, <2>1
    <3>4. /\ (checkpoints'[s][rewinds'[s].target].at + 1)..rewinds'[s].from
               = (checkpoints[s][target].at + 1)..Len(history)
          /\ {ToSet(checkpoints'[s][k].changes) : k \in rewinds'[s].later}
               = {ToSet(checkpoints[s][k].changes) : k \in Later(s, target)}
      BY <3>3
    <3>5. {h.patch : h \in {history'[i] : i \in
                (checkpoints'[s][rewinds'[s].target].at + 1)..rewinds'[s].from}}
            = {h.patch : h \in {history[i] : i \in
                  (checkpoints[s][target].at + 1)..Len(history)}}
      BY <3>3, <3>4
    <3>6. UNION {ToSet(checkpoints'[s][k].changes) : k \in rewinds'[s].later}
            = UNION {ToSet(checkpoints[s][k].changes) : k \in Later(s, target)}
      BY <3>4
    <3> QED
      BY <3>2, <3>3, <3>5, <3>6
  <2>3. /\ {history[i].patch : i \in (checkpoints[s][target].at + 1)..Len(history)}
             = ListedAfter(s, target)
        /\ \A p \in ListedAfter(s, target) : backups[p].by = s
    <3>1. {h.patch : h \in {history[i] : i \in (checkpoints[s][target].at + 1)..Len(history)}}
            = {history[i].patch : i \in (checkpoints[s][target].at + 1)..Len(history)}
      OBVIOUS
    <3>2. ListedAfter(s, target) = UNION {ToSet(checkpoints[s][k].changes) : k \in Later(s, target)}
      BY DEF ListedAfter, ListOf
    <3> QED
      BY <2>2, <3>1, <3>2
  <2>4. \A k : FilesOf(s, k)' = FilesOf(s, k)
    BY <1>4 DEF FilesOf
  <2>5. \A j, k \in Later(s, target) : j # k => FilesOf(s, j) \intersect FilesOf(s, k) = {}
    BY <1>3, <2>1, <2>4 DEF OneCheckpointPerFile
  <2> QED
    BY <2>3, <2>5, StartExact
<1>8. ASSUME Clean(s)', NEW f \in File
      PROVE  RollsBackTo(checkpoints[s][rewinds[s].target].was, rewinds[s].todo, f)'
  <2>1. code
    BY <1>3, <1>8 DEF Clean
  <2>2. PICK was, todo : was = checkpoints[s][target].was /\ todo = Rollbacks(s, target)
    OBVIOUS
  <2>3. RollsBackTo(was, todo, f)
    BY <1>7, <1>8, <2>2
  <2>4. RollsBackTo(was, todo, f)'
    BY <1>4, <2>3 DEF RollsBackTo, On
  <2> QED
    BY <1>3, <1>4, <2>1, <2>2, <2>4
<1> QED
  BY <1>3, <1>4, <1>5, <1>6, <1>8 DEF Rewinding, NotSaving

\* A step of a rewind that changes the other fields of its record at most.
LEMMA StepRewinding ==
    ASSUME TypesInv, RecordInv, [Next]_vars, NEW s \in Session, rewinds[s] # NoRewind,
           Rewinding(s), UNCHANGED <<checkpoints, backups>>,
           rewinds'[s].code = rewinds[s].code, rewinds'[s].target = rewinds[s].target,
           rewinds'[s].later = rewinds[s].later, rewinds'[s].from = rewinds[s].from,
           rewinds[s].failed => rewinds'[s].failed,
           saving'[Rewinder(s)] # NotSaving =>
             /\ saving'[Rewinder(s)].file = backups[Head(rewinds'[s].todo)].file
             /\ saving'[Rewinder(s)].content = backups[Head(rewinds'[s].todo)].content,
           NEW was, was = checkpoints[s][rewinds[s].target].was,
           NEW todo, todo = rewinds'[s].todo,
           Clean(s)' /\ Clean(s) =>
             /\ \A f \in File : RollsBackTo(was, todo, f)'
             /\ saving'[Rewinder(s)].step = "saved" =>
                  files'[saving'[Rewinder(s)].file] = saving'[Rewinder(s)].content
    PROVE  Rewinding(s)'
<1>1. rewinds[s].from \in 0..Len(history) /\ rewinds[s].later \subseteq 1..Len(checkpoints[s])
  BY DEF Rewinding
<1>2. 0..Len(history) \subseteq 0..Len(history')
  <2>1. IsSeq(history) /\ Len(history) \in Nat
    BY AppendAny DEF TypesInv, FilesTyped
  <2>2. CASE UNCHANGED history
    BY <2>2
  <2>3. CASE ~UNCHANGED history
    <3>1. Len(history') = Len(history) + 1
      BY <2>1, <2>3, NextHistory, AppendAny
    <3> QED
      BY <2>1, <3>1
  <2> QED
    BY <2>2, <2>3
<1>3. Clean(s)' => Clean(s)
  BY StillClean
<1> QED
  BY <1>1, <1>2, <1>3 DEF Rewinding

LEMMA DoneRewind ==
    ASSUME TypesInv, NEW s \in Session, Todo(s), NEW failed, Done(s, failed)
    PROVE  /\ rewinds[s] # NoRewind
           /\ rewinds'[s].todo = Tail(rewinds[s].todo)
           /\ rewinds'[s].code = rewinds[s].code /\ rewinds'[s].target = rewinds[s].target
           /\ rewinds'[s].later = rewinds[s].later /\ rewinds'[s].from = rewinds[s].from
           /\ rewinds'[s].failed = (rewinds[s].failed \/ failed)
           /\ \A r \in Session : r # s => rewinds'[r] = rewinds[r]
<1>1. rewinds[s] # NoRewind
  BY DEF Todo, NoRewind
<1>2. /\ rewinds \in [Session -> {NoRewind} \union RewindType]
      /\ rewinds[s] \in RewindType
  BY <1>1, TypedRewind DEF TypesInv, RewindsTyped
<1> QED
  BY <1>1, <1>2 DEF Done, RewindType

LEMMA RollbackRewinding ==
    ASSUME TypesInv, RecordInv, [Next]_vars, NEW s \in Session, Rewinding(s), Rollback(s)
    PROVE  Rewinding(s)'
<1> DEFINE p == Head(rewinds[s].todo)
<1>1. /\ Todo(s) /\ saving[Rewinder(s)] = NotSaving
      /\ UNCHANGED <<checkpoints, backups, files, history>>
      /\ rewinds[s] # NoRewind
      /\ saving \in [Writer -> {NotSaving} \union SavingType] /\ Rewinder(s) \in Writer
  BY TypesFacts DEF Rollback, sessionVars, fileVars, Todo, NoRewind, TypesInv, CallsTyped
<1>2. PICK was, todo : was = checkpoints[s][rewinds[s].target].was /\ todo = rewinds'[s].todo
  OBVIOUS
<1>3. CASE backups[p].meta
  <2>1. /\ saving' = [saving EXCEPT ![Rewinder(s)] =
               [step |-> "temp", file |-> backups[p].file, content |-> backups[p].content]]
        /\ UNCHANGED rewinds
    BY <1>3 DEF Rollback, StartSaving
  <2>2. /\ saving'[Rewinder(s)].file = backups[p].file
        /\ saving'[Rewinder(s)].content = backups[p].content
        /\ saving'[Rewinder(s)].step = "temp"
    BY <1>1, <2>1
  <2>3. ASSUME Clean(s), NEW f \in File PROVE RollsBackTo(was, todo, f)'
    <3>1. RollsBackTo(was, todo, f)
      BY <1>1, <1>2, <2>1, <2>3 DEF Rewinding
    <3> QED
      BY <1>1, <3>1 DEF RollsBackTo, On
  <2> HIDE DEF p
  <2>4. saving'[Rewinder(s)] # NotSaving =>
          /\ saving'[Rewinder(s)].file = backups[Head(rewinds'[s].todo)].file
          /\ saving'[Rewinder(s)].content = backups[Head(rewinds'[s].todo)].content
    BY <2>1, <2>2 DEF p
  <2> QED
    BY <1>1, <1>2, <2>1, <2>2, <2>3, <2>4, StepRewinding
<1>4. CASE ~backups[p].meta
  <2>1. Done(s, TRUE) /\ UNCHANGED saving
    BY <1>4 DEF Rollback
  <2>2. rewinds'[s].failed
    BY <1>1, <2>1, DoneRewind
  <2>3. ~Clean(s)'
    BY <2>2 DEF Clean
  <2> QED
    BY <1>1, <1>2, <2>1, <2>2, <2>3, DoneRewind, StepRewinding
<1> QED
  BY <1>3, <1>4

\* The file that a rollback writes is one that rollbacks are left for.
LEMMA SavesRewinding ==
    ASSUME TypesInv, RecordInv, [Next]_vars, NEW s \in Session, Rewinding(s), RollbackSaves(s)
    PROVE  Rewinding(s)'
<1> DEFINE w == Rewinder(s)
           f0 == saving[w].file
<1>1. WriteFile(w) /\ w \in Writer /\ UNCHANGED <<checkpoints, rewinds>>
  BY TypesFacts DEF RollbackSaves, sessionVars, rewindVars
<1>2. /\ UNCHANGED backups /\ saving[w] # NotSaving
      /\ saving'[w].file = saving[w].file /\ saving'[w].content = saving[w].content
      /\ f0 \in File
      /\ \/ UNCHANGED <<files, history>> /\ saving'[w].step # "saved"
         \/ \E h : /\ history' = Append(history, h) /\ h.file = f0
                   /\ \A f \in File : f # h.file => files'[f] = files[f]
                   /\ h.rewind = {} \/ files'[h.file] = saving[w].content
  <2>1. saving[w].step \in {"temp", "rename", "remove"}
    BY <1>1, WriteSteps
  <2>2. saving[w] # NotSaving
    BY <2>1 DEF NotSaving
  <2> QED
    BY <1>1, <2>2, WriteSteps
<1>3. Todo(s)
  BY <1>2 DEF TypesInv, RewindsBusy
<1>4. /\ rewinds[s] # NoRewind /\ rewinds[s].todo # <<>>
      /\ rewinds[s].todo \in Seq(1..Len(backups))
  <2>1. rewinds[s] # NoRewind
    BY <1>3 DEF Todo, NoRewind
  <2> QED
    BY <1>3, <2>1, TypedRewind DEF Todo
<1>5. PICK was, todo : was = checkpoints[s][rewinds[s].target].was /\ todo = rewinds[s].todo
  OBVIOUS
<1>6. saving[w].file = backups[Head(todo)].file /\ saving[w].content = backups[Head(todo)].content
  BY <1>2, <1>4, <1>5 DEF Rewinding
<1>7. ~NoneOf(todo, On(f0))
  <2>1. Head(todo) \in 1..Len(backups)
    BY <1>4, <1>5
  <2>2. Head(todo) \in On(f0)
    BY <1>6, <2>1 DEF On
  <2> HIDE DEF f0
  <2> QED
    BY <1>4, <1>5, <2>2, LastOfTail
<1> HIDE DEF f0
<1>8. ASSUME Clean(s), Clean(s)'
      PROVE  /\ \A f \in File : RollsBackTo(was, todo, f)'
             /\ saving'[w].step = "saved" => files'[saving'[w].file] = saving'[w].content
  <2>1. \A h : history' = Append(history, h) => h.rewind = {s}
    BY <1>1, <1>4, <1>8, StillClean
  <2>2. \A f \in File : RollsBackTo(was, todo, f)
    BY <1>4, <1>5, <1>8 DEF Rewinding
  <2>3. \A f \in File : f # f0 => files'[f] = files[f]
    BY <1>2
  <2>4. Extends(backups', backups)
    BY NextGrows
  <2>5. ASSUME NEW f \in File PROVE RollsBackTo(was, todo, f)'
    BY <1>4, <1>5, <1>7, <2>2, <2>3, <2>4, RollsBackStill
  <2>6. saving'[w].step = "saved" => files'[saving'[w].file] = saving'[w].content
    BY <1>2, <2>1 DEF f0
  <2> QED
    BY <2>5, <2>6
<1>9. saving'[w].file = backups[Head(rewinds'[s].todo)].file
      /\ saving'[w].content = backups[Head(rewinds'[s].todo)].content
  BY <1>1, <1>2, <1>5, <1>6
<1> QED
  BY <1>1, <1>2, <1>4, <1>5, <1>8, <1>9, StepRewinding

LEMMA ReturnsRewinding ==
    ASSUME TypesInv, RecordInv, [Next]_vars, NEW s \in Session, Rewinding(s), RollbackReturns(s)
    PROVE  Rewinding(s)'
<1> DEFINE w == Rewinder(s)
<1>1. /\ saving[w].step \in {"saved", "failed"} /\ Done(s, saving[w].step = "failed")
      /\ saving' = [saving EXCEPT ![w] = NotSaving]
      /\ UNCHANGED <<checkpoints, backups, files, history>>
  BY DEF RollbackReturns, sessionVars, fileVars
<1>2. saving[w] # NotSaving /\ Todo(s)
  BY <1>1 DEF NotSaving, TypesInv, RewindsBusy
<1>3. saving'[w] = NotSaving
  <2>1. saving \in [Writer -> {NotSaving} \union SavingType] /\ w \in Writer
    BY TypesFacts DEF TypesInv, CallsTyped
  <2> QED
    BY <1>1, <2>1
<1>4. /\ rewinds[s] # NoRewind /\ rewinds'[s].todo = Tail(rewinds[s].todo)
      /\ rewinds'[s].code = rewinds[s].code /\ rewinds'[s].target = rewinds[s].target
      /\ rewinds'[s].later = rewinds[s].later /\ rewinds'[s].from = rewinds[s].from
      /\ rewinds'[s].failed = (rewinds[s].failed \/ saving[w].step = "failed")
  BY <1>1, <1>2, DoneRewind
<1>5. PICK was, old, todo : /\ was = checkpoints[s][rewinds[s].target].was
                            /\ old = rewinds[s].todo /\ todo = rewinds'[s].todo
  OBVIOUS
<1>6. old \in Seq(1..Len(backups)) /\ old # <<>> /\ todo = Tail(old)
  BY <1>2, <1>4, <1>5, TypedRewind DEF Todo
<1>7. ASSUME Clean(s), Clean(s)', NEW f \in File PROVE RollsBackTo(was, todo, f)'
  <2>1. saving[w].step = "saved"
    BY <1>1, <1>4, <1>7 DEF Clean
  <2>2. files[saving[w].file] = backups[Head(old)].content
        /\ saving[w].file = backups[Head(old)].file
    BY <1>2, <1>4, <1>5, <1>7, <2>1 DEF Rewinding
  <2>3. RollsBackTo(was, old, f)
    BY <1>4, <1>5, <1>7 DEF Rewinding
  <2>4. RollsBackTo(was, todo, f)
    <3>1. CASE NoneOf(old, On(f)) /\ files[f] = was[f]
      <4>1. NoneOf(todo, On(f))
        BY <1>6, <3>1, LastOfTail
      <4> QED
        BY <3>1, <4>1 DEF RollsBackTo
    <3>2. CASE \E p \in On(f) : LastOf(old, On(f), p) /\ backups[p].content = was[f]
      <4>1. PICK p \in On(f) : LastOf(old, On(f), p) /\ backups[p].content = was[f]
        BY <3>2
      <4>2. LastOf(todo, On(f), p) \/ (NoneOf(todo, On(f)) /\ p = Head(old))
        BY <1>6, <4>1, LastOfTail
      <4>3. p = Head(old) => files[f] = was[f]
        BY <2>2, <4>1 DEF On
      <4> QED
        BY <4>1, <4>2, <4>3 DEF RollsBackTo
    <3> QED
      BY <2>3, <3>1, <3>2 DEF RollsBackTo
  <2> QED
    BY <1>1, <2>4 DEF RollsBackTo, On
<1>8. saving'[w].step # "saved"
  BY <1>3 DEF NotSaving
<1>9. /\ Clean(s)' /\ Clean(s) =>
           /\ \A f \in File : RollsBackTo(was, todo, f)'
           /\ saving'[w].step = "saved" => files'[saving'[w].file] = saving'[w].content
      /\ saving'[w] = NotSaving /\ UNCHANGED <<checkpoints, backups>>
      /\ rewinds[s].failed => rewinds'[s].failed
  BY <1>1, <1>3, <1>4, <1>7, <1>8
<1> QED
  BY <1>4, <1>5, <1>9, StepRewinding

-----------------------------------------------------------------------------
\* A session's rewind goes on by its own steps only.
LEMMA OnlyItsSteps ==
    ASSUME TypesInv, [Next]_vars, NEW s \in Session, ~RewindStep(s)
    PROVE  UNCHANGED <<rewinds[s], saving[Rewinder(s)]>>
<1>0. /\ saving \in [Writer -> {NotSaving} \union SavingType]
      /\ rewinds \in [Session -> {NoRewind} \union RewindType]
      /\ \A r \in Session : Tool(r) \in Writer /\ Rewinder(r) \in Writer
  BY TypesFacts DEF TypesInv, CallsTyped, RewindsTyped
<1>1. ASSUME NEW f \in File, Outside(f), UNCHANGED <<sessionVars, rewindVars>>
      PROVE  UNCHANGED <<rewinds, saving>>
  BY <1>1 DEF Outside, rewindVars
<1>2. ASSUME NEW r \in Session, Message(r) PROVE UNCHANGED <<rewinds, saving>>
  BY <1>2 DEF Message, rewindVars, engineVars
<1>3. ASSUME NEW r \in Session, RunTool(r)
      PROVE  UNCHANGED <<rewinds[s], saving[Rewinder(s)]>>
  <2>1. UNCHANGED rewinds /\ Tool(r) # Rewinder(s)
    BY <1>3, ToolsApart DEF RunTool, rewindVars
  <2>2. CASE WriteFile(Tool(r))
    BY <1>0, <2>1, <2>2, WriteSteps
  <2>3. CASE ToolCall(r) \/ ToolStep(r)
    <3>1. saving' = saving \/ \E v : saving' = [saving EXCEPT ![Tool(r)] = v]
      BY <2>3 DEF ToolCall, ToolRead, ToolReadSame, ToolStep, ToolCreate, ApplyNoBackup,
                  ApplyPatch, ApplyMisfits, ApplyRecord, ApplyFailed, StartSaving
    <3> QED
      BY <1>0, <2>1, <3>1
  <2> QED
    BY <1>3, <2>2, <2>3 DEF RunTool
<1>4. ASSUME NEW r \in Session,
             \/ Recover(r) \/ CheckpointTake(r) \/ CheckpointSaveState(r)
             \/ CheckpointSave(r) \/ CheckpointFails(r)
      PROVE  UNCHANGED <<rewinds, saving>>
  BY <1>4 DEF Recover, CheckpointTake, CheckpointSaveState, CheckpointSave, CheckpointFails,
              rewindVars, engineVars
<1>5. ASSUME NEW r \in Session, RewindStep(r)
      PROVE  UNCHANGED <<rewinds[s], saving[Rewinder(s)]>>
  <2>1. r # s /\ Rewinder(r) # Rewinder(s)
    BY <1>5, ToolsApart
  <2>2. CASE RollbackSaves(r)
    BY <1>0, <2>1, <2>2, WriteSteps DEF RollbackSaves, rewindVars
  <2>3. CASE ~RollbackSaves(r)
    <3>1. /\ rewinds' = rewinds \/ \E v : rewinds' = [rewinds EXCEPT ![r] = v]
          /\ saving' = saving \/ \E v : saving' = [saving EXCEPT ![Rewinder(r)] = v]
      BY <1>5, <2>3
      DEF RewindStep, RewindStart, Rollback, RollbackReturns, Done, StartSaving, RewindCodeFails,
          RewindSucceeds, RewindCode, RewindConversation, RewindConversationFails, RewindOver,
          engineVars
    <3> QED
      BY <1>0, <2>1, <3>1
  <2> QED
    BY <2>2, <2>3
<1>6. CASE UNCHANGED vars
  BY <1>6 DEF vars, rewindVars, engineVars
<1> QED
  BY <1>1, <1>2, <1>3, <1>4, <1>5, <1>6 DEF Next, Loop

LEMMA NextRewinding ==
    ASSUME TypesInv, RecordInv, StoryInv, InOrder, RewindingInv, [Next]_vars
    PROVE  RewindingInv'
<1> SUFFICES ASSUME NEW s \in Session PROVE Rewinding(s)'
  BY DEF RewindingInv
<1>0. Rewinding(s)
  BY DEF RewindingInv
<1>1. CASE RewindStart(s)
  BY <1>1, StartRewinding
<1>2. CASE Rollback(s)
  BY <1>0, <1>2, RollbackRewinding
<1>3. CASE RollbackSaves(s)
  BY <1>0, <1>3, SavesRewinding
<1>4. CASE RollbackReturns(s)
  BY <1>0, <1>4, ReturnsRewinding
<1>5. CASE RewindCodeFails(s) \/ RewindSucceeds(s) \/ RewindConversationFails(s)
  <2>1. rewinds'[s] = NoRewind
    BY <1>5 DEF RewindCodeFails, RewindSucceeds, RewindCode, RewindConversation,
                RewindConversationFails, RewindOver, TypesInv, RewindsTyped
  <2> QED
    BY <2>1 DEF Rewinding
<1>6. CASE ~RewindStep(s)
  <2>1. ~RollbackSaves(s)
    BY <1>6 DEF RewindStep
  <2> QED
    BY <1>0, <1>6, <2>1, OnlyItsSteps, OthersRewind
<1> QED
  BY <1>1, <1>2, <1>3, <1>4, <1>5, <1>6 DEF RewindStep

\* When nothing is left to take back, every file is what it was.
LEMMA CleanIsExact ==
    ASSUME TypesInv, RewindingInv, NEW s \in Session, Tried(s), Clean(s)
    PROVE  Rewound(s)
<1> DEFINE was == checkpoints[s][rewinds[s].target].was
<1>1. rewinds[s] # NoRewind /\ rewinds[s].todo = <<>>
  BY DEF Tried, NoRewind
<1>2. files \in [File -> Contents] /\ was \in [File -> Contents]
  <2>1. checkpoints[s][rewinds[s].target] \in CheckpointType
    BY <1>1, TypedRewind DEF TypesInv, SavesTyped
  <2> QED
    BY <2>1 DEF TypesInv, FilesTyped, CheckpointType
<1>3. ASSUME NEW f \in File PROVE files[f] = was[f]
  <2>1. RollsBackTo(was, <<>>, f)
    BY <1>1 DEF RewindingInv, Rewinding
  <2>2. \A p : ~LastOf(<<>>, On(f), p)
    BY DEF LastOf
  <2> QED
    BY <2>1, <2>2 DEF RollsBackTo
<1> HIDE DEF was
<1>4. files = was
  BY <1>2, <1>3
<1> QED
  BY <1>4 DEF Rewound, was

\* A code rewind that succeeds leaves the files as they were at its checkpoint
\* (RewindExact), for any sessions, files and bounds: however other sessions'
\* calls, checkpoints and rewinds come in between, as long as they do not touch
\* the files.
THEOREM RewindsAreExact == Spec => RewindExact
<1> DEFINE Inv == TypesInv /\ RecordInv /\ StoryInv /\ InOrder /\ RewindingInv
           Exact == \A s \in Session :
               RewindSucceeds(s) /\ rewinds[s].code /\ Undisturbed(s) /\ OneCheckpointPerFile(s)
                   => Rewound(s)
<1>1. Init => Inv
  <2>1. Init => RewindingInv
    BY DEF Init, RewindingInv, Rewinding
  <2> QED
    BY <2>1, InitTypes, InitRecordInv, InitStory, InitOrder
<1>2. Inv /\ [Next]_vars => Inv'
  BY NextTypes, NextRecordInv, NextStory, NextOrder, NextRewinding
<1>3. Inv /\ [Next]_vars => [Exact]_vars
  <2> SUFFICES ASSUME Inv, NEW s \in Session, RewindSucceeds(s), rewinds[s].code,
                      Undisturbed(s), OneCheckpointPerFile(s)
               PROVE  Rewound(s)
    OBVIOUS
  <2>1. Tried(s) /\ Clean(s)
    BY DEF RewindSucceeds, RewindCode, RewindConversation, Clean
  <2> QED
    BY <2>1, CleanIsExact
<1> QED
  BY <1>1, <1>2, <1>3, PTL DEF Spec, RewindExact

=============================================================================
