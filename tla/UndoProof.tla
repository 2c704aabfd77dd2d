------------------------------ MODULE UndoProof ------------------------------
(***************************************************************************)
(* The proof that the host groups a batch of operations into one step of   *)
(* its undo history.  A real batch leaves a candidate behind; a person     *)
(* undoes one step; a snapshot that names the trace of the batch then      *)
(* compares the undo history and the created objects with the candidate.   *)
(*                                                                         *)
(* What the snapshot compares does not tell a host that makes one step     *)
(* from a host that makes many and labels every one of them: it does not   *)
(* see how many steps the person has undone.                               *)
(*                                                                         *)
(* People edit, undo, redo and switch documents at any time, and other     *)
(* batches run.  The state of a document is its undo history: an object is *)
(* there when a step that is not undone has added it and no later one has  *)
(* removed it.                                                             *)
(***************************************************************************)
EXTENDS Integers, Sequences, SequencesExt, FiniteSetsExt

CONSTANTS
  Documents,  \* Open documents.
  Traces,     \* Trace ids; every batch has one of its own.
  None,       \* No label, no candidate.
  MaxSteps    \* Bound on the steps of all documents, done and undone.

ASSUME UndoAssumption ==
  /\ None \notin Traces \cup Documents
  /\ MaxSteps \in Nat

VARIABLES
  host,      \* How the host records a batch.
  undo,      \* Steps of a document that can be undone, the last one on top.
  redo,      \* Steps that can be redone, the one undone last on top.
  activeDoc, \* The active document.
  used,      \* Traces of the batches so far.
  candidate, \* #undoProofCandidate.
  probed     \* #undoGroupingProbed.

vars == <<host, undo, redo, activeDoc, used, candidate, probed>>

-----------------------------------------------------------------------------
(* The host.                                                               *)

\* A batch becomes one step under its label; or a step for each operation, of
\* which each, only the last, or only the first has the label.
Hosts == {"whole", "each", "last", "first"}

Items == {"shape", "textFrame", "group"}
Objects == Traces \X Items

\* The name of a step and the objects that it adds, removes and changes.
Step(label, adds, drops, changes) ==
  [label |-> label, adds |-> adds, drops |-> drops, changes |-> changes]

Present(d, o) ==
  \E i \in DOMAIN undo[d] :
    /\ o \in undo[d][i].adds
    /\ \A j \in i + 1 .. Len(undo[d]) : o \notin undo[d][j].drops

\* The fingerprint of an object tells apart how often it was changed.
ChangesOf(o, steps) == Cardinality({i \in DOMAIN steps : o \in steps[i].changes})

TopLabel(steps) == IF steps = <<>> THEN None ELSE Last(steps).label

Size(h) == MapThenSumSet(LAMBDA d : Len(h[d]), Documents)

\* New steps take away what could be redone.
Does(d, steps) ==
  /\ undo' = [undo EXCEPT ![d] = @ \o steps]
  /\ redo' = [redo EXCEPT ![d] = <<>>]
  /\ Size(undo) + Len(steps) + Size(redo) - Len(redo[d]) <= MaxSteps

-----------------------------------------------------------------------------
(* A batch.                                                                *)

\* The one batch that can prove anything: shapes (two in the code), a frame
\* whose text is set, and a group of the shapes.  Any other batch is one shape.
Operations(t, approved) ==
  LET created(items) == Step(None, {t} \X items, {}, {})
  IN IF approved
     THEN <<created({"shape"}), created({"textFrame"}),
            Step(None, {}, {}, {<<t, "textFrame">>}),
            Step(None, {<<t, "group">>}, {}, {<<t, "shape">>})>>
     ELSE <<created({"shape"})>>

Recorded(t, steps) ==
  CASE host = "each"  -> [i \in DOMAIN steps |-> [steps[i] EXCEPT !.label = t]]
    [] host = "last"  -> [steps EXCEPT ![Len(steps)].label = t]
    [] host = "first" -> [steps EXCEPT ![1].label = t]
    [] host = "whole" -> <<Step(t, UNION {steps[i].adds : i \in DOMAIN steps}, {},
                                UNION {steps[i].changes : i \in DOMAIN steps})>>

NoCandidate == [trace |-> None, document |-> None,
                aliases |-> {}, approved |-> FALSE]

\* References to the created objects, as they are when the batch ends.
References(t, steps) ==
  {[object |-> o, version |-> ChangesOf(o, steps)] : o \in UNION {steps[i].adds : i \in DOMAIN steps}}

\* The batch that ran to its end is on top of the undo history of the active
\* document; otherwise it is reported as a partial failure.
ExactUndo(d, t, steps) == activeDoc = d /\ TopLabel(steps) = t

Apply(d, t, approved) ==
  /\ t \notin used
  /\ used' = used \cup {t}
  /\ LET steps == Operations(t, approved)
     IN \/ /\ Does(d, Recorded(t, steps))
           /\ candidate' = IF ExactUndo(d, t, Recorded(t, steps))
                           THEN [trace |-> t, document |-> d, aliases |-> References(t, steps),
                                 approved |-> approved]
                           ELSE candidate
        \/ \* An operation fails after others have changed the document.
           /\ \E n \in 1 .. Len(steps) - 1 : Does(d, Recorded(t, SubSeq(steps, 1, n)))
           /\ UNCHANGED candidate
  /\ UNCHANGED <<host, activeDoc, probed>>

-----------------------------------------------------------------------------
(* The verification of a snapshot.                                         *)

\* What resolveObject does with a reference.
Resolution(d, reference) ==
  CASE ~Present(d, reference.object) -> "ITEM_NOT_FOUND"
    [] Present(d, reference.object) /\ ChangesOf(reference.object, undo[d]) # reference.version -> "STALE_OBJECT"
    [] Present(d, reference.object) /\ ChangesOf(reference.object, undo[d]) = reference.version -> "found"

Missing(d, reference) == Resolution(d, reference) = "ITEM_NOT_FOUND"

\* Mutant: one created object that is gone is enough.
SomeMissing(d, aliases) == \E reference \in aliases : Missing(d, reference)

AllMissing(d, aliases) == aliases # {} /\ \A reference \in aliases : Missing(d, reference)

ExactRedo(d, t) == activeDoc = d /\ TopLabel(redo[d]) = t

Verify(d, t) ==
  /\ probed' = (probed \/ ( /\ candidate.trace = t
                            /\ candidate.document = d
                            /\ candidate.approved
                            /\ ExactRedo(d, t)
                            /\ AllMissing(d, candidate.aliases)))
  /\ UNCHANGED <<host, undo, redo, activeDoc, used, candidate>>

ReloadPanel ==
  /\ candidate' = NoCandidate
  /\ probed' = FALSE
  /\ UNCHANGED <<host, undo, redo, activeDoc, used>>

-----------------------------------------------------------------------------
(* People.                                                                 *)

PersonEdits(d) ==
  /\ \E o \in Objects :
       /\ Present(d, o)
       /\ \/ Does(d, <<Step(None, {}, {o}, {})>>)
          \/ Does(d, <<Step(None, {}, {}, {o})>>)
  /\ UNCHANGED <<host, activeDoc, used, candidate, probed>>

PersonUndoes ==
  /\ undo[activeDoc] # <<>>
  /\ undo' = [undo EXCEPT ![activeDoc] = Front(@)]
  /\ redo' = [redo EXCEPT ![activeDoc] = Append(@, Last(undo[activeDoc]))]
  /\ UNCHANGED <<host, activeDoc, used, candidate, probed>>

PersonRedoes ==
  /\ redo[activeDoc] # <<>>
  /\ redo' = [redo EXCEPT ![activeDoc] = Front(@)]
  /\ undo' = [undo EXCEPT ![activeDoc] = Append(@, Last(redo[activeDoc]))]
  /\ UNCHANGED <<host, activeDoc, used, candidate, probed>>

PersonActivates(d) ==
  /\ activeDoc # d
  /\ activeDoc' = d
  /\ UNCHANGED <<host, undo, redo, used, candidate, probed>>

-----------------------------------------------------------------------------

Init ==
  /\ host \in Hosts
  /\ undo = [d \in Documents |-> <<>>]
  /\ redo = [d \in Documents |-> <<>>]
  /\ activeDoc \in Documents
  /\ used = {}
  /\ candidate = NoCandidate
  /\ probed = FALSE

Next ==
  \/ \E d \in Documents, t \in Traces :
       \/ \E approved \in BOOLEAN : Apply(d, t, approved)
       \/ Verify(d, t)
  \/ \E d \in Documents : PersonEdits(d) \/ PersonActivates(d)
  \/ PersonUndoes \/ PersonRedoes \/ ReloadPanel

Spec == Init /\ [][Next]_vars

-----------------------------------------------------------------------------
(* Properties.                                                             *)

\* The capability is not claimed of a host on which some step of a batch goes
\* without the label of the batch, whatever people have edited, undone and
\* redone before the snapshot.  That the batch is one step does not follow: a
\* host that labels every step passes once they are all undone.
ProofIsSound == probed => host \in {"whole", "each"}

=============================================================================
