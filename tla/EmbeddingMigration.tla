-------------------------- MODULE EmbeddingMigration --------------------------
(* The migration of embeddings to another space (embedding_migration.rs):    *)
(* callers of one process move the durable state through its phases by       *)
(* compare and swap, while an executor fills the target collections.  The    *)
(* process may stop anywhere and come back.                                  *)
EXTENDS Integers, Sequences, FiniteSets, Absent

CONSTANTS
  Movers,           \* callers that move the state
  MigrationItems,   \* a sequence of items: a name and a modality
  MappedModalities, \* modalities with a source and a target collection
  EncoderBatch,     \* inputs the encoder takes at once
  MinRecall,        \* gate: pairs that must be recalled
  FillPhases,       \* bound: phases in which the executor is started (it does not look at them)
  MaxGeneration, MaxStopped \* bounds: generations, stops of the process

VARIABLES
  stateFile,  \* the state in the file, and the one that survives a stop
  lockHolder, \* holder of the store's lock
  moves,      \* per caller: where it is, the generation it expects and its next state
  states,    \* the states that led to the file's, by generation
  won,        \* states whose callers were told of success
  filling,    \* the executor: where it is, its next item and what it has written
  collections \* target collections: pairs of a modality and an item

migrationVars == <<stateFile, lockHolder, moves, states, won, filling, collections>>
stopVars == <<filling, collections>>

PhaseOrder == <<"reindex", "dual_write", "evaluating", "cutover", "complete">>
CanTransition(phase, next) == \E k \in 1..(Len(PhaseOrder) - 1) : PhaseOrder[k] = phase /\ PhaseOrder[k + 1] = next

FirstState == [generation |-> 1, phase |-> "reindex", evaluation |-> NULL]
CurrentState == stateFile.now
ActualGeneration == IF CurrentState = NULL THEN 0 ELSE CurrentState.generation

\* Of the pairs, one for each text, those whose positive is in the target collection.
TextItems == {k \in DOMAIN MigrationItems : MigrationItems[k].modality = "text"}
RecalledPairs == Cardinality({k \in TextItems : <<"text", MigrationItems[k].name>> \in collections})

PassesGate(state) == state.evaluation # NULL /\ state.evaluation.recalled >= MinRecall /\ state.evaluation.apart

\* What transition asks of the state it has loaded.
MayMove(expected, phase) ==
  /\ CurrentState.generation = expected /\ CanTransition(CurrentState.phase, phase)
  /\ phase = "cutover" => PassesGate(CurrentState)

StillMover == [at |-> "idle", expected |-> 0, next |-> NULL]
Swap(c, expected, next) == moves' = [moves EXCEPT ![c] = [at |-> "swap", expected |-> expected, next |-> next]]
RefusedMove(c) == moves' = [moves EXCEPT ![c] = StillMover]
Ready(c) == moves[c].at = "idle" /\ ActualGeneration < MaxGeneration

CreateState(c) ==
  /\ Ready(c) /\ CurrentState = NULL
  /\ Swap(c, 0, FirstState)
  /\ UNCHANGED <<stateFile, lockHolder, states, won, stopVars>>

\* The caller may know an older generation, and asks for any phase.
Transition(c) ==
  /\ Ready(c) /\ CurrentState # NULL
  /\ \E expected \in {ActualGeneration - 1, ActualGeneration}, phase \in {PhaseOrder[k] : k \in DOMAIN PhaseOrder} :
       IF MayMove(expected, phase)
       THEN Swap(c, expected, [CurrentState EXCEPT !.phase = phase, !.generation = @ + 1])
       ELSE RefusedMove(c)
  /\ UNCHANGED <<stateFile, lockHolder, states, won, stopVars>>

\* The metrics of the target collection go into the state through the same compare and swap.
Evaluate(c) ==
  /\ Ready(c) /\ CurrentState # NULL /\ CurrentState.phase = "evaluating"
  /\ \E apart \in BOOLEAN :
       Swap(c, ActualGeneration, [CurrentState EXCEPT !.evaluation = [recalled |-> RecalledPairs, apart |-> apart], !.generation = @ + 1])
  /\ UNCHANGED <<stateFile, lockHolder, states, won, stopVars>>

(***************************************************************************)
(* Compare and swap: under the lock the file is read again, the next state *)
(* is written beside it (a file the lock makes the holder's own), renamed  *)
(* over it and the directory is synced.                                    *)
(***************************************************************************)
StillExpected(c) == ActualGeneration = moves[c].expected /\ moves[c].next.generation = moves[c].expected + 1

Compare(c) ==
  /\ moves[c].at = "swap" /\ lockHolder = NULL
  /\ IF StillExpected(c)
     THEN lockHolder' = c /\ moves' = [moves EXCEPT ![c].at = "write"]
     ELSE RefusedMove(c) /\ UNCHANGED lockHolder
  /\ UNCHANGED <<stateFile, states, won, stopVars>>

\* What the temporary file holds is seen by nobody before the rename.
WriteAndRename(c) ==
  /\ moves[c].at = "write"
  /\ stateFile' = [stateFile EXCEPT !.now = moves[c].next]
  /\ states' = Append(states, moves[c].next)
  /\ moves' = [moves EXCEPT ![c].at = "sync"]
  /\ UNCHANGED <<lockHolder, won, stopVars>>

SyncDirectory(c) ==
  /\ moves[c].at = "sync"
  /\ stateFile' = [stateFile EXCEPT !.durable = stateFile.now]
  /\ moves' = [moves EXCEPT ![c] = StillMover]
  /\ won' = won \cup {moves[c].next}
  /\ lockHolder' = NULL
  /\ UNCHANGED <<states, stopVars>>

\* A file operation fails: the caller is told, whatever has reached the file.
FailSwap(c) ==
  /\ moves[c].at \in {"write", "sync"}
  /\ RefusedMove(c) /\ lockHolder' = NULL
  /\ UNCHANGED <<stateFile, states, won, stopVars>>

\* The process stops: a rename that was not synced may be lost.
StopProcess ==
  /\ stateFile.stops < MaxStopped
  /\ \E kept \in {stateFile.now, stateFile.durable} :
       /\ stateFile' = [now |-> kept, durable |-> kept, stops |-> stateFile.stops + 1]
       /\ states' = SubSeq(states, 1, IF kept = NULL THEN 0 ELSE kept.generation)
  /\ moves' = [c \in Movers |-> StillMover] /\ lockHolder' = NULL
  /\ filling' = [filling EXCEPT !.at = "idle"]
  /\ UNCHANGED <<won, collections>>

(***************************************************************************)
(* The executor checks every item before it writes one, then encodes and   *)
(* writes batch by batch; it may be run again.                             *)
(***************************************************************************)
Supported == \A k \in DOMAIN MigrationItems : MigrationItems[k].modality \in MappedModalities

RunExecutor ==
  /\ filling.at # "running"
  /\ CurrentState # NULL /\ CurrentState.phase \in FillPhases
  /\ filling' = IF Supported THEN [at |-> "running", written |-> 0] ELSE [filling EXCEPT !.at = "refused"]
  /\ UNCHANGED <<stateFile, lockHolder, moves, states, won, collections>>

\* The encoder refuses a batch whole: an input it lacks, an error of the endpoint, another count or space.
EncoderAnswers == BOOLEAN

\* n of the batch's items are written before the index fails.
RunBatch ==
  /\ filling.at = "running" /\ filling.written < Len(MigrationItems)
  /\ LET left == Len(MigrationItems) - filling.written
         size == IF left < EncoderBatch THEN left ELSE EncoderBatch
     IN \E encoded \in EncoderAnswers : \E n \in 0..(IF encoded THEN size ELSE 0) :
          /\ collections' = collections \cup {<<MigrationItems[filling.written + j].modality, MigrationItems[filling.written + j].name>> : j \in 1..n}
          /\ filling' = [at |-> IF n < size THEN "failed" ELSE IF size = left THEN "done" ELSE "running", written |-> filling.written + n]
  /\ UNCHANGED <<stateFile, lockHolder, moves, states, won>>

MigrationInit ==
  /\ stateFile = [now |-> NULL, durable |-> NULL, stops |-> 0] /\ lockHolder = NULL
  /\ moves = [c \in Movers |-> StillMover] /\ states = << >> /\ won = {}
  /\ filling = [at |-> "idle", written |-> 0] /\ collections = {}

MigrationNext ==
  \/ \E c \in Movers :
       CreateState(c) \/ Transition(c) \/ Evaluate(c) \/ Compare(c) \/ WriteAndRename(c) \/ SyncDirectory(c) \/ FailSwap(c)
  \/ StopProcess \/ RunExecutor \/ RunBatch

(***************************************************************************)
(* What must hold.                                                         *)
(***************************************************************************)
\* A caller that was told of success moved the state alone, and no stop takes it back.
WinsLast == \A state \in won : state.generation <= Len(states) /\ states[state.generation] = state

\* Phases follow each other without a gap, and the cutover follows an evaluation that passed the gate.
PhasesFollow ==
  \A g \in DOMAIN states :
    /\ states[g].generation = g
    /\ g > 1 =>
         LET before == states[g - 1]
         IN /\ states[g].phase = before.phase \/ CanTransition(before.phase, states[g].phase)
            /\ states[g].phase = "cutover" /\ before.phase # "cutover" => PassesGate(before)

\* A run that says it is done has filled the target collection of every modality.
RunsFill ==
  filling.at = "done" =>
    filling.written = Len(MigrationItems) /\ \A k \in DOMAIN MigrationItems : <<MigrationItems[k].modality, MigrationItems[k].name>> \in collections

MigrationSound == WinsLast /\ PhasesFollow /\ RunsFill
=============================================================================
