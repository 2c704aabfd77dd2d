-------------------------- MODULE DocumentRevision --------------------------
(***************************************************************************)
(* Document identity and revisions of the InDesign plugin.                 *)
(*                                                                         *)
(* IdentityRegistry gives every open document a UUID and a revision.  The  *)
(* UUID comes from a label in the document, else from the session (one per *)
(* native id), else it is made up.  The revision lives in the session map  *)
(* and, across plugin reloads, in a persistent store keyed by UUID and     *)
(* native id.  #applyOperations accepts a batch at the current revision,   *)
(* reserves the next one in the store, runs the batch in one Undo group,   *)
(* and commits the reservation or, when nothing changed, takes it back.    *)
(*                                                                         *)
(* The panel serves one request at a time (module RequestQueue), so at     *)
(* most one batch is under way and nothing is inspected meanwhile.  The    *)
(* user may act at every await of the batch, and the panel may be reloaded *)
(* (or crash) at every moment.                                             *)
(***************************************************************************)
EXTENDS Integers

CONSTANTS
  NativeIds,    \* Native ids: one per opening of a document, never reused.
  Uuids,        \* Document UUIDs that createUuid can return.
  None,         \* No UUID, no request, no reservation.
  MaxRevision,  \* Number.MAX_SAFE_INTEGER; small when model checking.
  StoreFaults   \* The calls of the revision store that may throw.

ASSUME ConstantsAssumption ==
  /\ None \notin Uuids
  /\ MaxRevision \in Nat \ {0}
  /\ StoreFaults \subseteq {"read", "write"}

VARIABLES
  status,          \* Host: which documents are open.
  label,           \* Host: the UUID label inside each document.
  redoLabel,       \* Host: the label that a Redo would bring back.
  uuidOf,          \* Session: UUID last resolved for a native id.
  sessionRevision, \* Session: revision of a document instance, or Absent.
  stored,          \* Store: persisted revision of an instance, or Absent.
  created,         \* UUIDs that createUuid has returned.
  phase,           \* Progress of the batch under way.
  request,         \* The reference and revision the batch was accepted with.
  reservation,     \* RevisionReservation of the batch.
  progress,        \* ExecutionProgress, and whether the document changed.
  report,          \* What the last batch told its caller.
  spent            \* History: the highest revision of an instance at which, or
                   \* since which, a batch has changed its document.

host    == <<status, label, redoLabel>>
session == <<uuidOf, sessionRevision>>
batch   == <<phase, request, reservation, progress, report>>
vars    == <<status, label, redoLabel, uuidOf, sessionRevision, stored, created,
             phase, request, reservation, progress, report, spent>>

-----------------------------------------------------------------------------
(* Types.                                                                  *)

Absent    == 0
Revisions == 1 .. MaxRevision
Statuses  == {"unopened", "open", "closed"}
Phases    == {"idle", "preparing", "reserved", "executed"}

References   == [doc : NativeIds, uuid : Uuids, revision : Revisions]
Reservations == [doc : NativeIds, uuid : Uuids, previous : Revisions]
Progress     == [started : BOOLEAN, applied : BOOLEAN, complete : BOOLEAN]
Reports      == {"none", "success", "partial", "unchanged"}

NoProgress == [started |-> FALSE, applied |-> FALSE, complete |-> FALSE]

TypeOK ==
  /\ status \in [NativeIds -> Statuses]
  /\ label \in [NativeIds -> Uuids \cup {None}]
  /\ redoLabel \in [NativeIds -> Uuids \cup {None}]
  /\ uuidOf \in [NativeIds -> Uuids \cup {None}]
  /\ sessionRevision \in [NativeIds -> [Uuids -> Revisions \cup {Absent}]]
  /\ stored \in [NativeIds -> [Uuids -> Revisions \cup {Absent}]]
  /\ created \subseteq Uuids
  /\ phase \in Phases
  /\ request \in References \cup {None}
  /\ reservation \in Reservations \cup {None}
  /\ progress \in Progress
  /\ report \in Reports
  /\ spent \in [NativeIds -> [Uuids -> 0 .. MaxRevision]]

-----------------------------------------------------------------------------
(* Identity of a document.                                                 *)

OpenDocuments == {d \in NativeIds : status[d] = "open"}

\* The UUID of a document: its label, else the session's, else a new one.
ResolvedUuids(d) ==
  IF label[d] # None THEN {label[d]}
  ELSE IF uuidOf[d] # None THEN {uuidOf[d]}
  ELSE Uuids \ created

\* UUIDs for a scan of the documents S; the new ones are pairwise distinct.
Identification(S) ==
  {f \in [S -> Uuids] :
     /\ \A d \in S : f[d] \in ResolvedUuids(d)
     /\ \A d, e \in S : d # e /\ f[d] \notin created => f[d] # f[e]}

\* Mutant: the store is keyed by the UUID alone, so copies share a revision.
StoredUnderUuid(d, u) ==
  IF \A e \in NativeIds : stored[e][u] = Absent THEN 1
  ELSE CHOOSE r \in Revisions : /\ \E e \in NativeIds : stored[e][u] = r
                                /\ \A e \in NativeIds : stored[e][u] <= r

\* The persisted revision of an instance, 1 when there is none.
StoredOrFirst(d, u) == IF stored[d][u] = Absent THEN 1 ELSE stored[d][u]

\* The session's revision wins over the persisted one.
CurrentRevision(d, u) ==
  IF sessionRevision[d][u] = Absent THEN StoredOrFirst(d, u)
                                    ELSE sessionRevision[d][u]

\* Mutant: any revision that has existed is accepted.
AssertNotNewer(d, u, expected) == expected <= CurrentRevision(d, u)

\* The revision a caller expects is the current one.
AssertRevision(d, u, expected) == CurrentRevision(d, u) = expected

\* documentRef on every document of DOMAIN f, which resolve to the UUIDs f.
Observe(f) ==
  /\ uuidOf' = [d \in NativeIds |-> IF d \in DOMAIN f THEN f[d] ELSE uuidOf[d]]
  /\ sessionRevision' =
       [d \in NativeIds |-> [u \in Uuids |->
          IF d \in DOMAIN f /\ f[d] = u THEN CurrentRevision(d, u)
                                        ELSE sessionRevision[d][u]]]
  /\ created' = created \cup {f[d] : d \in DOMAIN f}

Init ==
  /\ status = [d \in NativeIds |-> "unopened"]
  /\ label = [d \in NativeIds |-> None]
  /\ redoLabel = [d \in NativeIds |-> None]
  /\ uuidOf = [d \in NativeIds |-> None]
  /\ sessionRevision = [d \in NativeIds |-> [u \in Uuids |-> Absent]]
  /\ stored = [d \in NativeIds |-> [u \in Uuids |-> Absent]]
  /\ created = {}
  /\ phase = "idle"
  /\ request = None
  /\ reservation = None
  /\ progress = NoProgress
  /\ report = "none"
  /\ spent = [d \in NativeIds |-> [u \in Uuids |-> 0]]

-----------------------------------------------------------------------------
(* The user and the host.  No user action falls between the reservation    *)
(* and the callback of doScript: that code runs without an await.          *)

\* A document without a label, or a file that carries the label of another
\* document: the same file opened again, or a copy of it.
UserOpens(d) ==
  /\ phase # "reserved"
  /\ status[d] = "unopened"
  /\ status' = [status EXCEPT ![d] = "open"]
  /\ \E l \in {label[e] : e \in NativeIds} \cup {None} :
       label' = [label EXCEPT ![d] = l]
  /\ UNCHANGED <<redoLabel, session, stored, created, batch, spent>>

UserCloses(d) ==
  /\ phase # "reserved"
  /\ status[d] = "open"
  /\ status' = [status EXCEPT ![d] = "closed"]
  /\ UNCHANGED <<label, redoLabel, session, stored, created, batch, spent>>

\* The label is written inside the Undo group of the first batch, so undoing
\* that group takes the label away.
UserUndoesIdentity(d) ==
  /\ phase # "reserved"
  /\ status[d] = "open"
  /\ label[d] # None
  /\ label' = [label EXCEPT ![d] = None]
  /\ redoLabel' = [redoLabel EXCEPT ![d] = label[d]]
  /\ UNCHANGED <<status, session, stored, created, batch, spent>>

UserRedoesIdentity(d) ==
  /\ phase # "reserved"
  /\ status[d] = "open"
  /\ redoLabel[d] # None
  /\ label' = [label EXCEPT ![d] = redoLabel[d]]
  /\ redoLabel' = [redoLabel EXCEPT ![d] = None]
  /\ UNCHANGED <<status, session, stored, created, batch, spent>>

\* An edit by hand discards what could be redone; it moves no revision.
UserEdits(d) ==
  /\ phase # "reserved"
  /\ status[d] = "open"
  /\ redoLabel[d] # None
  /\ redoLabel' = [redoLabel EXCEPT ![d] = None]
  /\ UNCHANGED <<status, label, session, stored, created, batch, spent>>

\* A reload or crash of the panel: the session maps and the batch are gone,
\* the store, the documents and the references the callers hold remain.
PanelReload ==
  /\ uuidOf' = [d \in NativeIds |-> None]
  /\ sessionRevision' = [d \in NativeIds |-> [u \in Uuids |-> Absent]]
  /\ phase' = "idle"
  /\ request' = None
  /\ reservation' = None
  /\ progress' = NoProgress
  /\ report' = "none"
  /\ UNCHANGED <<host, stored, created, spent>>

-----------------------------------------------------------------------------
(* Requests that change no document.                                       *)

\* Status, list, snapshot, selection, inspection and file-only exports, and
\* requests refused as stale or mismatched: documentRef on the documents the
\* scan reaches, whose references go to the caller.
Inspect(S) ==
  /\ phase = "idle"
  /\ \E f \in Identification(S) : Observe(f)
  /\ UNCHANGED <<host, stored, batch, spent>>

\* The store cannot be read: the UUID is in the session already, the revision
\* is not.
InspectFails(d) ==
  /\ phase = "idle"
  /\ "read" \in StoreFaults
  /\ status[d] = "open"
  /\ \E u \in ResolvedUuids(d) :
       /\ uuidOf' = [uuidOf EXCEPT ![d] = u]
       /\ created' = created \cup {u}
  /\ UNCHANGED <<host, sessionRevision, stored, batch, spent>>

-----------------------------------------------------------------------------
(* document.create: one synchronous handler.  observed: the store could be *)
(* read; labelled: the window is visible and the label could be written;   *)
(* persisted: the first revision is in the store.  Whatever fails later is *)
(* reported with the same reference.                                       *)

CreateDocument(d) ==
  /\ phase = "idle"
  /\ status[d] = "unopened"
  /\ status' = [status EXCEPT ![d] = "open"]
  /\ \E u \in Uuids \ created, observed, labelled, persisted \in BOOLEAN :
       /\ labelled => observed
       /\ persisted => labelled
       /\ ~observed => "read" \in StoreFaults
       /\ labelled /\ ~persisted => "write" \in StoreFaults
       /\ uuidOf' = [uuidOf EXCEPT ![d] = u]
       /\ created' = created \cup {u}
       /\ sessionRevision' = IF observed
                             THEN [sessionRevision EXCEPT ![d][u] = 1]
                             ELSE sessionRevision
       /\ label' = IF labelled THEN [label EXCEPT ![d] = u] ELSE label
       /\ stored' = IF persisted THEN [stored EXCEPT ![d][u] = 1] ELSE stored
  /\ UNCHANGED <<redoLabel, batch, spent>>

-----------------------------------------------------------------------------
(* document.applyOperations.                                               *)

\* resolveDocument scans open documents until the native id matches (all of
\* them when the reference has none); assertRevision accepts the request.
\* The handler then awaits prepareOperations.
BeginBatch(d) ==
  /\ phase = "idle"
  /\ status[d] = "open"
  /\ \E S \in SUBSET OpenDocuments : \E f \in Identification(S) :
       /\ d \in S
       /\ Observe(f)
       /\ \E expected \in Revisions :
            /\ AssertRevision(d, f[d], expected)
            /\ request' = [doc |-> d, uuid |-> f[d], revision |-> expected]
  /\ phase' = "preparing"
  /\ report' = "none"
  /\ UNCHANGED <<host, stored, reservation, progress, spent>>

\* The batch ends before it reserves: an operation is invalid, the document
\* is closed, the host cannot group Undo, the store fails, the revision limit
\* is reached, or it was a dry run (which returns the current reference).
EndBatchEarly ==
  /\ phase = "preparing"
  /\ \/ UNCHANGED <<session, created>>
     \/ /\ status[request.doc] = "open"
        /\ \E f \in Identification({request.doc}) : Observe(f)
  /\ phase' = "idle"
  /\ request' = None
  /\ report' = "unchanged"
  /\ UNCHANGED <<host, stored, reservation, progress, spent>>

NextRevision(d, u) == CurrentRevision(d, u) + 1

\* Mutant: off by one at the limit.
CanAdvanceOnceMore(d, u) == CurrentRevision(d, u) <= MaxRevision

CanAdvance(d, u) == CurrentRevision(d, u) < MaxRevision

\* reserveRevision: the next revision of the instance the document resolves
\* to now is written to the store; the session keeps the previous one.
ReserveRevision ==
  /\ phase = "preparing"
  /\ status[request.doc] = "open"
  /\ \E f \in Identification({request.doc}) :
       LET d == request.doc
           u == f[d]
       IN /\ CanAdvance(d, u)
          /\ Observe(f)
          /\ stored' = [stored EXCEPT ![d][u] = NextRevision(d, u)]
          /\ reservation' = [doc |-> d, uuid |-> u, previous |-> CurrentRevision(d, u)]
  /\ phase' = "reserved"
  /\ UNCHANGED <<host, request, progress, report, spent>>

\* Mutant: mutationStarted is set after the DOM call of the operation.
OutcomesMarkedLate ==
  {p \in Progress : p.complete => p.applied /\ p.started}

\* mutationStarted is set before the first DOM call that may change the
\* document; every operation may throw.
ExecutionOutcomes ==
  {p \in Progress : (p.complete => p.applied) /\ (p.applied => p.started)}

\* The callback of doScript writes the label of a document that has none and
\* runs the operations.  A batch that changed the document spends every
\* revision handed out for it so far.
ExecuteBatch ==
  /\ phase = "reserved"
  /\ progress' \in ExecutionOutcomes
  /\ IF progress'.applied
     THEN /\ label' = IF label[reservation.doc] = None
                      THEN [label EXCEPT ![reservation.doc] = reservation.uuid]
                      ELSE label
          /\ redoLabel' = [redoLabel EXCEPT ![reservation.doc] = None]
          /\ spent' = [spent EXCEPT ![reservation.doc] =
               [u \in Uuids |-> IF u \in created
                                THEN CurrentRevision(reservation.doc, u) ELSE @[u]]]
     ELSE UNCHANGED <<label, redoLabel, spent>>
  /\ phase' = "executed"
  /\ UNCHANGED <<status, session, stored, created, request, reservation, report>>

\* commitRevision: the session moves to the reserved revision.
CommittedSession ==
  [sessionRevision EXCEPT ![reservation.doc][reservation.uuid] = reservation.previous + 1]

Settle(said) ==
  /\ phase' = "idle"
  /\ request' = None
  /\ reservation' = None
  /\ progress' = NoProgress
  /\ report' = said

\* The document resolves to its label or to the UUID that the reservation
\* left in the session.
SettledUuid ==
  IF label[reservation.doc] # None THEN label[reservation.doc]
                                   ELSE uuidOf[reservation.doc]

\* documentRef after the commit: the reference goes to the caller.
SettleWithReference(said) ==
  LET d == reservation.doc
      u == SettledUuid
      revision == IF CommittedSession[d][u] = Absent
                  THEN StoredOrFirst(d, u) ELSE CommittedSession[d][u]
  IN /\ status[d] = "open"
     /\ uuidOf' = [uuidOf EXCEPT ![d] = u]
     /\ sessionRevision' = [CommittedSession EXCEPT ![d][u] = revision]
     /\ Settle(said)

\* Every operation completed and the Undo stack shows the batch on top.
FinishSuccess ==
  /\ phase = "executed"
  /\ progress.complete
  /\ SettleWithReference("success")
  /\ UNCHANGED <<host, stored, created, spent>>

\* The host or an operation failed, or the Undo stack does not show the
\* batch: the reservation is committed and PARTIAL_FAILURE reported.
FinishPartial ==
  /\ phase = "executed"
  /\ progress.started
  /\ SettleWithReference("partial")
  /\ UNCHANGED <<host, stored, created, spent>>

\* documentRef throws after the commit, because the document was closed
\* meanwhile or the store cannot be read: its error, which says nothing of a
\* change, replaces the report.
FinishWithoutReference ==
  /\ phase = "executed"
  /\ progress.started
  /\ \/ /\ status[reservation.doc] = "closed"
        /\ UNCHANGED uuidOf
     \/ /\ status[reservation.doc] = "open"
        /\ "read" \in StoreFaults
        /\ uuidOf' = [uuidOf EXCEPT ![reservation.doc] = SettledUuid]
  /\ sessionRevision' = CommittedSession
  /\ Settle("unchanged")
  /\ UNCHANGED <<host, stored, created, spent>>

\* Nothing changed: the store goes back to the previous revision; when it
\* cannot be written the reservation is committed instead.
FinishRollback ==
  /\ phase = "executed"
  /\ ~progress.started
  /\ \/ /\ stored' = [stored EXCEPT ![reservation.doc][reservation.uuid] = reservation.previous]
        /\ UNCHANGED sessionRevision
     \/ /\ "write" \in StoreFaults
        /\ sessionRevision' = CommittedSession
        /\ UNCHANGED stored
  /\ Settle("unchanged")
  /\ UNCHANGED <<host, uuidOf, created, spent>>

-----------------------------------------------------------------------------

UserNext == \E d \in NativeIds :
  UserOpens(d) \/ UserCloses(d) \/ UserUndoesIdentity(d)
    \/ UserRedoesIdentity(d) \/ UserEdits(d)

BatchNext ==
  \/ \E d \in NativeIds : BeginBatch(d)
  \/ EndBatchEarly
  \/ ReserveRevision
  \/ ExecuteBatch
  \/ FinishSuccess
  \/ FinishPartial
  \/ FinishWithoutReference
  \/ FinishRollback

Next ==
  \/ UserNext
  \/ PanelReload
  \/ \E S \in SUBSET OpenDocuments : Inspect(S)
  \/ \E d \in NativeIds : InspectFails(d) \/ CreateDocument(d)
  \/ BatchNext

Spec == Init /\ [][Next]_vars

-----------------------------------------------------------------------------
(* Properties.                                                             *)

\* An older reference never becomes current again: when no batch is under
\* way, the revision that assertRevision would accept for a document was not
\* handed out before a batch last changed that document, through every order
\* of reloads, rollbacks, failed store calls, Undo and Redo of the label, and
\* reopened or copied files.
NoStaleReference ==
  phase = "idle" =>
    \A d \in OpenDocuments : \A u \in ResolvedUuids(d) :
      CurrentRevision(d, u) > spent[d][u]

\* A batch that has been accepted is still against the latest state when it
\* is about to run: between assertRevision and the DOM write no other batch
\* has changed the document, although the handler awaits in between.
AcceptedStaysFresh ==
  phase \in {"preparing", "reserved"} =>
    request.revision > spent[request.doc][request.uuid]

\* A reservation has been made and is neither committed nor taken back.
UnderWay == phase \in {"reserved", "executed"}

InFlight(d, u) == UnderWay /\ reservation.doc = d /\ reservation.uuid = u

\* Up to the end of doScript the reservation stands: the session still has
\* the previous revision and the store the next one, so commitRevision never
\* reports that the revision changed during execution.
ReservationStands ==
  \A d \in NativeIds, u \in Uuids : InFlight(d, u) =>
    /\ sessionRevision[d][u] = reservation.previous
    /\ stored[d][u] = reservation.previous + 1

\* The revision of an instance moves only by a reservation for exactly that
\* instance, and only to the revision reserved: never back, not by a reload,
\* and not because a copy of the file with the same UUID was changed.
RevisionStep(d, u) ==
  CurrentRevision(d, u)' # CurrentRevision(d, u) =>
    /\ InFlight(d, u)
    /\ CurrentRevision(d, u)' = reservation.previous + 1

RevisionSteps == [][\A d \in NativeIds, u \in Uuids : RevisionStep(d, u)]_vars

\* No batch changes a document in silence: one that ends with a report of no
\* change either has made none or has moved the revision of its document, so
\* that every reference from before it is refused; whatever fails on the way.
ChangesNeverSilent ==
  [][phase = "executed" /\ report' = "unchanged" /\ progress.applied
       => /\ sessionRevision' = CommittedSession
          /\ stored'[reservation.doc][reservation.uuid] = reservation.previous + 1]_vars

-----------------------------------------------------------------------------
(* The inductive invariant behind NoStaleReference, AcceptedStaysFresh and *)
(* RevisionSteps.                                                          *)

BatchWellFormed ==
  /\ phase # "idle" => request \in References
  /\ UnderWay => reservation \in Reservations
  /\ phase # "executed" => progress = NoProgress
  /\ progress.complete => progress.applied
  /\ progress.applied => progress.started

\* Only UUIDs that were created are in use, and a document that was never
\* open has no history.
IdentitiesKnown ==
  \A d \in NativeIds :
    /\ {label[d], redoLabel[d], uuidOf[d]} \subseteq created \cup {None}
    /\ \A u \in Uuids :
         /\ u \notin created => /\ sessionRevision[d][u] = Absent
                               /\ stored[d][u] = Absent
                               /\ spent[d][u] = 0
         /\ status[d] = "unopened" => spent[d][u] = 0

\* A batch under way works on the instance that its document resolves to.
ReservationResolves ==
  UnderWay => LET d == reservation.doc
              IN /\ reservation.uuid \in created
                 /\ status[d] # "unopened"
                 /\ uuidOf[d] # None
                 /\ phase = "reserved" => /\ uuidOf[d] = reservation.uuid
                                          /\ label[d] \in {None, reservation.uuid}

\* The session agrees with the store on every instance no batch works on.
SessionMatchesStore ==
  \A d \in NativeIds, u \in Uuids :
    ~InFlight(d, u) /\ sessionRevision[d][u] # Absent
      => sessionRevision[d][u] = StoredOrFirst(d, u)

\* The revision that the instance has at least, whatever happens next.
Guaranteed(d, u) ==
  IF InFlight(d, u) /\ ~progress.applied THEN reservation.previous
                                         ELSE StoredOrFirst(d, u)

\* The document can never resolve to this UUID again.
Abandoned(d, u) == u \in created /\ u \notin {label[d], redoLabel[d], uuidOf[d]}

\* Every revision at which a document was changed is behind its instance, or
\* belongs to an identity that the document has lost for good.
SpentIsBehind ==
  \A d \in NativeIds, u \in Uuids :
    spent[d][u] < Guaranteed(d, u) \/ Abandoned(d, u)

RevisionInv ==
  /\ TypeOK
  /\ BatchWellFormed
  /\ IdentitiesKnown
  /\ ReservationResolves
  /\ ReservationStands
  /\ SessionMatchesStore
  /\ SpentIsBehind
  /\ AcceptedStaysFresh

=============================================================================
