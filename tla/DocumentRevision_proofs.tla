----------------------- MODULE DocumentRevision_proofs ----------------------
(***************************************************************************)
(* Proofs about DocumentRevision, for every set of documents and UUIDs,    *)
(* every revision limit and every choice of failing store calls.           *)
(*                                                                         *)
(* RevisionInv is inductive.  Its heart is SpentIsBehind: the store always *)
(* holds more than every revision at which the document was changed, or    *)
(* the document can no longer resolve to the UUID in question.  Writing    *)
(* the reservation before the DOM is touched makes that true of a crash at *)
(* any moment; SessionMatchesStore makes it true of a reload.              *)
(***************************************************************************)
EXTENDS DocumentRevision, TLAPS

LEMMA ConstantFacts ==
  /\ None \notin Uuids
  /\ MaxRevision \in Nat
  /\ MaxRevision >= 1
  /\ StoreFaults \subseteq {"read", "write"}
BY ConstantsAssumption DEF ConstantsAssumption

\* The revision that documentRef reports is a revision, for every instance.
LEMMA CurrentRevisionType ==
  ASSUME TypeOK, NEW d \in NativeIds, NEW u \in Uuids
  PROVE  /\ StoredOrFirst(d, u) \in Revisions
         /\ CurrentRevision(d, u) \in Revisions
BY ConstantFacts DEF TypeOK, StoredOrFirst, CurrentRevision, Revisions, Absent

LEMMA IdentificationType ==
  ASSUME TypeOK, NEW S \in SUBSET NativeIds, NEW f \in Identification(S)
  PROVE  /\ DOMAIN f = S
         /\ f \in [S -> Uuids]
         /\ \A d \in S : f[d] \in ResolvedUuids(d)
         /\ \A d \in S : f[d] # None
BY ConstantFacts DEF Identification, ResolvedUuids, TypeOK

-----------------------------------------------------------------------------
(* Type correctness.                                                       *)

LEMMA InitInv == Init => RevisionInv
<1> SUFFICES ASSUME Init PROVE RevisionInv
  OBVIOUS
<1>1. TypeOK
  BY ConstantFacts DEF Init, TypeOK, Statuses, Phases, Progress, NoProgress,
                       Reports, Revisions, Absent
<1>2. /\ BatchWellFormed /\ IdentitiesKnown /\ ReservationResolves
      /\ ReservationStands /\ SessionMatchesStore /\ AcceptedStaysFresh
  BY DEF Init, BatchWellFormed, IdentitiesKnown, ReservationResolves, UnderWay,
         ReservationStands, SessionMatchesStore, AcceptedStaysFresh, InFlight,
         NoProgress
<1>3. SpentIsBehind
  BY DEF Init, SpentIsBehind, Guaranteed, InFlight, UnderWay, StoredOrFirst, Absent
<1> QED
  BY <1>1, <1>2, <1>3 DEF RevisionInv

LEMMA ObserveType ==
  ASSUME TypeOK, NEW S \in SUBSET NativeIds, NEW f \in Identification(S), Observe(f)
  PROVE  /\ uuidOf' \in [NativeIds -> Uuids \cup {None}]
         /\ sessionRevision' \in [NativeIds -> [Uuids -> Revisions \cup {Absent}]]
         /\ created' \subseteq Uuids
<1>1. f \in [S -> Uuids] /\ DOMAIN f = S
  BY IdentificationType
<1>2. uuidOf' \in [NativeIds -> Uuids \cup {None}]
  BY <1>1 DEF Observe, TypeOK
<1>3. created' \subseteq Uuids
  BY <1>1 DEF Observe, TypeOK
<1>4. sessionRevision' \in [NativeIds -> [Uuids -> Revisions \cup {Absent}]]
  BY <1>1, CurrentRevisionType DEF Observe, TypeOK
<1> QED
  BY <1>2, <1>3, <1>4

-----------------------------------------------------------------------------
(* Steps that observe documents and move no revision.                      *)

\* Resolving documents while no reservation is made keeps every part of the
\* invariant that speaks of identities and revisions.
LEMMA ObservationInv ==
  ASSUME RevisionInv, ~UnderWay,
         NEW S \in SUBSET NativeIds, NEW f \in Identification(S), Observe(f)
  PROVE  /\ \A d \in NativeIds : {label[d], redoLabel[d], uuidOf'[d]}
                                  \subseteq created' \cup {None}
         /\ created \subseteq created'
         /\ \A d \in NativeIds, u \in Uuids :
              /\ u \notin created' => sessionRevision'[d][u] = Absent
              /\ sessionRevision'[d][u] # Absent
                   => sessionRevision'[d][u] = StoredOrFirst(d, u)
              /\ sessionRevision[d][u] # Absent
                   => sessionRevision'[d][u] = sessionRevision[d][u]
              /\ Abandoned(d, u)
                   => u \notin {label[d], redoLabel[d], uuidOf'[d]}
<1> USE DEF RevisionInv
<1>1. f \in [S -> Uuids] /\ DOMAIN f = S /\ \A d \in S : f[d] \in ResolvedUuids(d)
  BY IdentificationType
<1>2. \A d \in NativeIds, u \in Uuids :
        sessionRevision[d][u] # Absent => sessionRevision[d][u] = StoredOrFirst(d, u)
  BY DEF SessionMatchesStore, InFlight
<1>3. \A d \in NativeIds, u \in Uuids :
        CurrentRevision(d, u) = StoredOrFirst(d, u)
  BY <1>2 DEF CurrentRevision
<1>4. /\ \A d \in NativeIds : uuidOf'[d] = IF d \in S THEN f[d] ELSE uuidOf[d]
      /\ \A d \in NativeIds, u \in Uuids :
           sessionRevision'[d][u] = IF d \in S /\ f[d] = u THEN CurrentRevision(d, u)
                                                          ELSE sessionRevision[d][u]
      /\ created' = created \cup {f[d] : d \in S}
  BY <1>1 DEF Observe
<1>5. \A d \in NativeIds : {label[d], redoLabel[d], uuidOf'[d]} \subseteq created' \cup {None}
  BY <1>1, <1>4 DEF IdentitiesKnown
<1>6. ASSUME NEW d \in NativeIds, NEW u \in Uuids
      PROVE  /\ u \notin created' => sessionRevision'[d][u] = Absent
             /\ sessionRevision'[d][u] # Absent => sessionRevision'[d][u] = StoredOrFirst(d, u)
             /\ sessionRevision[d][u] # Absent
                  => sessionRevision'[d][u] = sessionRevision[d][u]
  BY <1>1, <1>2, <1>3, <1>4 DEF IdentitiesKnown, CurrentRevision
<1>7. ASSUME NEW d \in NativeIds, NEW u \in Uuids, Abandoned(d, u)
      PROVE  u \notin {label[d], redoLabel[d], uuidOf'[d]}
  BY <1>1, <1>4, <1>7 DEF Abandoned, ResolvedUuids
<1> QED
  BY <1>4, <1>5, <1>6, <1>7

\* A step that only resolves documents keeps the invariant, whether it ends
\* in a reply, in an accepted batch or in a refused one.
LEMMA ObservingStep ==
  ASSUME RevisionInv, ~UnderWay, ~UnderWay', TypeOK', BatchWellFormed',
         NEW S \in SUBSET NativeIds, NEW f \in Identification(S), Observe(f),
         UNCHANGED <<status, label, redoLabel, stored, spent, progress>>,
         AcceptedStaysFresh'
  PROVE  RevisionInv'
<1> USE DEF RevisionInv
<1>1. IdentitiesKnown'
  BY ObservationInv DEF IdentitiesKnown
<1>2. SessionMatchesStore'
  BY ObservationInv DEF SessionMatchesStore, StoredOrFirst
<1>3. SpentIsBehind'
  <2> SUFFICES ASSUME NEW d \in NativeIds, NEW u \in Uuids
               PROVE  spent'[d][u] < Guaranteed(d, u)' \/ Abandoned(d, u)'
    BY DEF SpentIsBehind
  <2>1. Guaranteed(d, u)' = Guaranteed(d, u)
    BY DEF Guaranteed, InFlight, StoredOrFirst
  <2>2. Abandoned(d, u) => Abandoned(d, u)'
    BY ObservationInv DEF Abandoned
  <2> QED
    BY <2>1, <2>2 DEF SpentIsBehind
<1>4. ReservationResolves' /\ ReservationStands'
  BY DEF ReservationResolves, ReservationStands, InFlight
<1> QED
  BY <1>1, <1>2, <1>3, <1>4

LEMMA InspectInv ==
  ASSUME RevisionInv, NEW S \in SUBSET OpenDocuments, Inspect(S)
  PROVE  RevisionInv'
<1> USE DEF RevisionInv
<1>0. S \in SUBSET NativeIds
  BY DEF OpenDocuments
<1>1. PICK f \in Identification(S) : Observe(f)
  BY DEF Inspect
<1>2. ~UnderWay /\ ~UnderWay'
  BY DEF Inspect, UnderWay, batch
<1>3. TypeOK'
  BY <1>0, <1>1, ObserveType DEF Inspect, TypeOK, host, batch
<1>4. BatchWellFormed' /\ AcceptedStaysFresh'
  BY DEF Inspect, batch, BatchWellFormed, AcceptedStaysFresh, UnderWay
<1>5. UNCHANGED <<status, label, redoLabel, stored, spent, progress>>
  BY DEF Inspect, host, batch
<1> QED
  BY <1>0, <1>1, <1>2, <1>3, <1>4, <1>5, ObservingStep

\* What a document resolves to is never behind: its revision is above every
\* revision at which the document was changed.
LEMMA ResolvedIsFresh ==
  ASSUME RevisionInv, ~UnderWay, NEW d \in NativeIds, NEW u \in ResolvedUuids(d)
  PROVE  u \in Uuids /\ CurrentRevision(d, u) > spent[d][u]
<1> USE DEF RevisionInv
<1>1. u \in Uuids
  BY ConstantFacts DEF ResolvedUuids, TypeOK
<1>2. CurrentRevision(d, u) = StoredOrFirst(d, u)
  BY <1>1 DEF SessionMatchesStore, InFlight, CurrentRevision
<1>3. ~Abandoned(d, u)
  BY ConstantFacts DEF Abandoned, ResolvedUuids, IdentitiesKnown
<1>4. spent[d][u] < StoredOrFirst(d, u)
  BY <1>1, <1>3 DEF SpentIsBehind, Guaranteed, InFlight
<1>5. spent[d][u] \in Int /\ StoredOrFirst(d, u) \in Int
  BY <1>1, CurrentRevisionType DEF TypeOK, Revisions
<1> QED
  BY <1>1, <1>2, <1>4, <1>5

LEMMA BeginBatchInv ==
  ASSUME RevisionInv, NEW d \in NativeIds, BeginBatch(d)
  PROVE  RevisionInv'
<1> USE DEF RevisionInv
<1>a. PICK S \in SUBSET OpenDocuments : \E f \in Identification(S) :
        /\ d \in S
        /\ Observe(f)
        /\ \E expected \in Revisions :
             /\ AssertRevision(d, f[d], expected)
             /\ request' = [doc |-> d, uuid |-> f[d], revision |-> expected]
  BY DEF BeginBatch
<1>1. PICK f \in Identification(S), expected \in Revisions :
        /\ d \in S
        /\ Observe(f)
        /\ AssertRevision(d, f[d], expected)
        /\ request' = [doc |-> d, uuid |-> f[d], revision |-> expected]
  BY <1>a
<1>2. S \in SUBSET NativeIds /\ f[d] \in ResolvedUuids(d)
  BY <1>1, IdentificationType DEF OpenDocuments
<1>3. ~UnderWay /\ ~UnderWay'
  BY DEF BeginBatch, UnderWay
<1>4. request' \in References
  BY <1>1, <1>2, <1>3, ResolvedIsFresh DEF References
<1>5. TypeOK'
  BY <1>1, <1>2, <1>4, ObserveType DEF BeginBatch, TypeOK, host, Phases, Reports
<1>6. BatchWellFormed'
  BY <1>3, <1>4 DEF BeginBatch, BatchWellFormed, UnderWay
<1>7. AcceptedStaysFresh'
  BY <1>1, <1>2, <1>3, ResolvedIsFresh
  DEF AcceptedStaysFresh, AssertRevision, BeginBatch
<1> QED
  BY <1>1, <1>2, <1>3, <1>5, <1>6, <1>7, ObservingStep DEF BeginBatch, host

\* A step that changes nothing the invariant speaks of while no reservation
\* is made, except that the batch under preparation may end.
LEMMA EndBatchEarlyInv ==
  ASSUME RevisionInv, EndBatchEarly
  PROVE  RevisionInv'
<1> USE DEF RevisionInv
<1>1. /\ ~UnderWay /\ ~UnderWay' /\ AcceptedStaysFresh'
      /\ UNCHANGED <<status, label, redoLabel, stored, reservation, spent, progress>>
      /\ phase' = "idle" /\ request' = None /\ report' = "unchanged"
  BY DEF EndBatchEarly, UnderWay, AcceptedStaysFresh, host
<1>2. BatchWellFormed'
  BY <1>1 DEF EndBatchEarly, BatchWellFormed, UnderWay
<1>3. CASE UNCHANGED <<session, created>>
  <2>1. TypeOK'
    BY <1>1, <1>3 DEF TypeOK, session, Phases, Reports
  <2>2. IdentitiesKnown' /\ SessionMatchesStore' /\ SpentIsBehind'
    BY <1>1, <1>3 DEF IdentitiesKnown, SessionMatchesStore, SpentIsBehind, InFlight,
                      Guaranteed, Abandoned, StoredOrFirst, session
  <2>3. ReservationResolves' /\ ReservationStands'
    BY <1>1 DEF ReservationResolves, ReservationStands, InFlight
  <2> QED
    BY <1>1, <1>2, <2>1, <2>2, <2>3
<1>4. ASSUME NEW f \in Identification({request.doc}), Observe(f)
      PROVE  RevisionInv'
  <2>1. {request.doc} \in SUBSET NativeIds
    BY DEF EndBatchEarly, BatchWellFormed, References
  <2>2. TypeOK'
    BY <1>1, <1>4, <2>1, ObserveType DEF TypeOK, Phases, Reports
  <2> QED
    BY <1>1, <1>2, <1>4, <2>1, <2>2, ObservingStep
<1> QED
  BY <1>3, <1>4 DEF EndBatchEarly

LEMMA InspectFailsInv ==
  ASSUME RevisionInv, NEW d \in NativeIds, InspectFails(d)
  PROVE  RevisionInv'
<1> USE DEF RevisionInv
<1>1. PICK u \in ResolvedUuids(d) : /\ uuidOf' = [uuidOf EXCEPT ![d] = u]
                                   /\ created' = created \cup {u}
  BY DEF InspectFails
<1>2. ~UnderWay /\ ~UnderWay' /\ u \in Uuids
  BY ResolvedIsFresh DEF InspectFails, UnderWay, batch
<1>3. /\ UNCHANGED <<status, label, redoLabel, sessionRevision, stored, spent>>
      /\ UNCHANGED <<phase, request, reservation, progress, report>>
  BY DEF InspectFails, host, batch
<1>4. TypeOK'
  BY <1>1, <1>2, <1>3 DEF TypeOK
<1>5. BatchWellFormed' /\ AcceptedStaysFresh' /\ ReservationResolves' /\ ReservationStands'
  BY <1>2, <1>3 DEF BatchWellFormed, AcceptedStaysFresh, ReservationResolves,
                    ReservationStands, InFlight, UnderWay
<1>6. IdentitiesKnown'
  BY <1>1, <1>2, <1>3 DEF IdentitiesKnown, TypeOK
<1>7. SessionMatchesStore'
  BY <1>3 DEF SessionMatchesStore, InFlight, UnderWay, StoredOrFirst
<1>8. SpentIsBehind'
  <2> SUFFICES ASSUME NEW e \in NativeIds, NEW v \in Uuids
               PROVE  spent'[e][v] < Guaranteed(e, v)' \/ Abandoned(e, v)'
    BY DEF SpentIsBehind
  <2>1. Guaranteed(e, v)' = Guaranteed(e, v)
    BY <1>3 DEF Guaranteed, InFlight, UnderWay, StoredOrFirst
  <2>2. Abandoned(e, v) => Abandoned(e, v)'
    BY <1>1, <1>3 DEF Abandoned, ResolvedUuids, TypeOK
  <2> QED
    BY <1>3, <2>1, <2>2 DEF SpentIsBehind
<1> QED
  BY <1>4, <1>5, <1>6, <1>7, <1>8

-----------------------------------------------------------------------------
(* Steps of the user, and a reload of the panel.                           *)

LEMMA UserInv ==
  ASSUME RevisionInv, UserNext
  PROVE  RevisionInv'
<1> USE DEF RevisionInv
<1>1. PICK d \in NativeIds :
        \/ UserOpens(d) \/ UserCloses(d) \/ UserUndoesIdentity(d)
        \/ UserRedoesIdentity(d) \/ UserEdits(d)
  BY DEF UserNext
<1>2. /\ phase # "reserved"
      /\ UNCHANGED <<uuidOf, sessionRevision, stored, created, spent>>
      /\ UNCHANGED <<phase, request, reservation, progress, report>>
      /\ \A e \in NativeIds : status'[e] = "unopened" => status[e] = "unopened"
  BY <1>1 DEF UserOpens, UserCloses, UserUndoesIdentity, UserRedoesIdentity,
              UserEdits, session, batch, TypeOK
<1>3. TypeOK'
  <2>1. CASE UserOpens(d)
    <3>1. PICK l \in Uuids \cup {None} : label' = [label EXCEPT ![d] = l]
      BY <2>1 DEF UserOpens, TypeOK
    <3> QED
      BY <1>2, <2>1, <3>1 DEF UserOpens, TypeOK, Statuses
  <2>2. CASE UserCloses(d) \/ UserUndoesIdentity(d) \/ UserRedoesIdentity(d) \/ UserEdits(d)
    BY <1>2, <2>2 DEF UserCloses, UserUndoesIdentity, UserRedoesIdentity, UserEdits,
                      TypeOK, Statuses
  <2> QED
    BY <1>1, <2>1, <2>2
<1>4. \A e \in NativeIds :
        /\ {label'[e], redoLabel'[e]} \subseteq created \cup {None}
        /\ status[e] = "unopened"
             \/ {label'[e], redoLabel'[e]} \subseteq {label[e], redoLabel[e], None}
  <2>1. CASE UserOpens(d)
    <3>1. PICK l \in {label[e] : e \in NativeIds} \cup {None} :
            label' = [label EXCEPT ![d] = l]
      BY <2>1 DEF UserOpens
    <3>2. l \in created \cup {None} /\ status[d] = "unopened" /\ redoLabel' = redoLabel
      BY <2>1, <3>1 DEF UserOpens, IdentitiesKnown
    <3> QED
      BY <3>1, <3>2 DEF TypeOK, IdentitiesKnown
  <2>2. CASE UserCloses(d) \/ UserUndoesIdentity(d) \/ UserRedoesIdentity(d) \/ UserEdits(d)
    BY <2>2 DEF UserCloses, UserUndoesIdentity, UserRedoesIdentity, UserEdits,
                TypeOK, IdentitiesKnown
  <2> QED
    BY <1>1, <2>1, <2>2
<1>5. IdentitiesKnown'
  BY <1>2, <1>4 DEF IdentitiesKnown
<1>6. BatchWellFormed' /\ AcceptedStaysFresh' /\ ReservationStands' /\ SessionMatchesStore'
  BY <1>2 DEF BatchWellFormed, AcceptedStaysFresh, ReservationStands,
              SessionMatchesStore, InFlight, UnderWay, StoredOrFirst
<1>7. ReservationResolves'
  BY <1>2 DEF ReservationResolves, UnderWay, BatchWellFormed, Reservations
<1>8. SpentIsBehind'
  <2> SUFFICES ASSUME NEW e \in NativeIds, NEW v \in Uuids
               PROVE  spent'[e][v] < Guaranteed(e, v)' \/ Abandoned(e, v)'
    BY DEF SpentIsBehind
  <2>1. Guaranteed(e, v)' = Guaranteed(e, v)
    BY <1>2 DEF Guaranteed, InFlight, UnderWay, StoredOrFirst
  <2>2. CASE status[e] = "unopened"
    <3>1. spent[e][v] = 0
      BY <2>2 DEF IdentitiesKnown
    <3>2. Guaranteed(e, v) \in Revisions
      BY CurrentRevisionType DEF Guaranteed, InFlight, BatchWellFormed, Reservations
    <3>3. 0 < Guaranteed(e, v)
      BY <3>2 DEF Revisions
    <3> QED
      BY <1>2, <2>1, <3>1, <3>3
  <2>3. CASE status[e] # "unopened"
    <3>1. Abandoned(e, v) => Abandoned(e, v)'
      BY <1>2, <1>4, <2>3, ConstantFacts DEF Abandoned
    <3> QED
      BY <1>2, <2>1, <3>1 DEF SpentIsBehind
  <2> QED
    BY <2>2, <2>3
<1> QED
  BY <1>3, <1>5, <1>6, <1>7, <1>8

LEMMA PanelReloadInv ==
  ASSUME RevisionInv, PanelReload
  PROVE  RevisionInv'
<1> USE DEF RevisionInv
<1>1. /\ UNCHANGED <<status, label, redoLabel, stored, created, spent>>
      /\ uuidOf' = [d \in NativeIds |-> None]
      /\ sessionRevision' = [d \in NativeIds |-> [u \in Uuids |-> Absent]]
      /\ phase' = "idle" /\ request' = None /\ reservation' = None
      /\ progress' = NoProgress /\ report' = "none"
  BY DEF PanelReload, host
<1>2. TypeOK'
  BY <1>1 DEF TypeOK, Phases, Progress, NoProgress, Reports, Absent
<1>3. /\ BatchWellFormed' /\ AcceptedStaysFresh' /\ ReservationResolves'
      /\ ReservationStands' /\ SessionMatchesStore'
  BY <1>1 DEF BatchWellFormed, AcceptedStaysFresh, ReservationResolves, NoProgress,
              ReservationStands, SessionMatchesStore, InFlight, UnderWay
<1>4. IdentitiesKnown'
  BY <1>1 DEF IdentitiesKnown
<1>5. SpentIsBehind'
  <2> SUFFICES ASSUME NEW d \in NativeIds, NEW u \in Uuids
               PROVE  spent'[d][u] < Guaranteed(d, u)' \/ Abandoned(d, u)'
    BY DEF SpentIsBehind
  <2>1. Guaranteed(d, u)' = StoredOrFirst(d, u)
    BY <1>1 DEF Guaranteed, InFlight, UnderWay, StoredOrFirst
  <2>2. Abandoned(d, u) => Abandoned(d, u)'
    BY <1>1, ConstantFacts DEF Abandoned
  <2>3. Guaranteed(d, u) <= StoredOrFirst(d, u) /\ Guaranteed(d, u) \in Int
    BY CurrentRevisionType
    DEF Guaranteed, InFlight, BatchWellFormed, Reservations, Revisions,
        ReservationStands, StoredOrFirst, Absent
  <2>4. spent[d][u] \in Int /\ StoredOrFirst(d, u) \in Int
    BY CurrentRevisionType DEF TypeOK, Revisions
  <2> QED
    BY <1>1, <2>1, <2>2, <2>3, <2>4 DEF SpentIsBehind
<1> QED
  BY <1>2, <1>3, <1>4, <1>5

-----------------------------------------------------------------------------
(* document.create.                                                        *)

LEMMA CreateDocumentInv ==
  ASSUME RevisionInv, NEW d \in NativeIds, CreateDocument(d)
  PROVE  RevisionInv'
<1> USE DEF RevisionInv
<1>1. PICK u \in Uuids \ created, observed \in BOOLEAN, labelled \in BOOLEAN,
           persisted \in BOOLEAN :
        /\ labelled => observed
        /\ persisted => labelled
        /\ uuidOf' = [uuidOf EXCEPT ![d] = u]
        /\ created' = created \cup {u}
        /\ sessionRevision' = IF observed
                              THEN [sessionRevision EXCEPT ![d][u] = 1]
                              ELSE sessionRevision
        /\ label' = IF labelled THEN [label EXCEPT ![d] = u] ELSE label
        /\ stored' = IF persisted THEN [stored EXCEPT ![d][u] = 1] ELSE stored
  BY DEF CreateDocument
<1>2. /\ status[d] = "unopened" /\ status' = [status EXCEPT ![d] = "open"]
      /\ ~UnderWay /\ ~UnderWay'
      /\ UNCHANGED <<redoLabel, phase, request, reservation, progress, report, spent>>
  BY DEF CreateDocument, batch, UnderWay
<1>3. 1 \in Revisions
  BY ConstantFacts DEF Revisions
<1>4. TypeOK'
  BY <1>1, <1>2, <1>3 DEF TypeOK, Statuses
<1>5. /\ BatchWellFormed' /\ AcceptedStaysFresh' /\ ReservationResolves'
      /\ ReservationStands'
  BY <1>2 DEF BatchWellFormed, AcceptedStaysFresh, ReservationResolves,
              ReservationStands, InFlight, UnderWay
<1>6. /\ \A e \in NativeIds : sessionRevision[e][u] = Absent /\ stored[e][u] = Absent
      /\ \A e \in NativeIds, v \in Uuids : e # d \/ v # u =>
           /\ sessionRevision'[e][v] = sessionRevision[e][v]
           /\ stored'[e][v] = stored[e][v]
      /\ sessionRevision'[d][u] \in {Absent, 1}
      /\ stored'[d][u] \in {Absent, 1}
  BY <1>1 DEF IdentitiesKnown, TypeOK
<1>7. IdentitiesKnown'
  <2>1. \A e \in NativeIds : {label'[e], redoLabel'[e], uuidOf'[e]} \subseteq created' \cup {None}
    BY <1>1, <1>2 DEF IdentitiesKnown, TypeOK
  <2>2. ASSUME NEW e \in NativeIds, NEW v \in Uuids
        PROVE  /\ v \notin created' => /\ sessionRevision'[e][v] = Absent
                                       /\ stored'[e][v] = Absent
                                       /\ spent'[e][v] = 0
               /\ status'[e] = "unopened" => spent'[e][v] = 0
    BY <1>1, <1>2, <1>6 DEF IdentitiesKnown, TypeOK
  <2> QED
    BY <2>1, <2>2 DEF IdentitiesKnown
<1>8. SessionMatchesStore'
  <2> SUFFICES ASSUME NEW e \in NativeIds, NEW v \in Uuids,
                      sessionRevision'[e][v] # Absent
               PROVE  sessionRevision'[e][v] = StoredOrFirst(e, v)'
    BY DEF SessionMatchesStore
  <2>1. CASE e = d /\ v = u
    BY <1>6, <2>1 DEF StoredOrFirst
  <2>2. CASE e # d \/ v # u
    BY <1>2, <1>6, <2>2 DEF SessionMatchesStore, StoredOrFirst, InFlight
  <2> QED
    BY <2>1, <2>2
<1>9. SpentIsBehind'
  <2> SUFFICES ASSUME NEW e \in NativeIds, NEW v \in Uuids
               PROVE  spent'[e][v] < Guaranteed(e, v)' \/ Abandoned(e, v)'
    BY DEF SpentIsBehind
  <2>1. Guaranteed(e, v)' = Guaranteed(e, v)
    BY <1>2, <1>6 DEF Guaranteed, InFlight, StoredOrFirst
  <2>2. CASE spent[e][v] < Guaranteed(e, v)
    BY <1>2, <2>1, <2>2
  <2>3. CASE Abandoned(e, v)
    BY <1>1, <1>2, <2>3 DEF Abandoned, TypeOK
  <2> QED
    BY <2>2, <2>3 DEF SpentIsBehind
<1> QED
  BY <1>4, <1>5, <1>7, <1>8, <1>9

-----------------------------------------------------------------------------
(* document.applyOperations.                                               *)

LEMMA ReserveRevisionInv ==
  ASSUME RevisionInv, ReserveRevision
  PROVE  RevisionInv'
<1> USE DEF RevisionInv
<1> DEFINE d == request.doc
<1>0. d \in NativeIds /\ ~UnderWay
  BY DEF ReserveRevision, BatchWellFormed, References, UnderWay
<1>1. PICK f \in Identification({d}) :
        /\ CurrentRevision(d, f[d]) < MaxRevision
        /\ Observe(f)
        /\ stored' = [stored EXCEPT ![d][f[d]] = CurrentRevision(d, f[d]) + 1]
        /\ reservation' = [doc |-> d, uuid |-> f[d],
                           previous |-> CurrentRevision(d, f[d])]
  BY DEF ReserveRevision, CanAdvance, NextRevision
<1> DEFINE u == f[d]
           c == CurrentRevision(d, u)
<1>2. /\ {d} \in SUBSET NativeIds
      /\ DOMAIN f = {d}
      /\ u \in ResolvedUuids(d)
      /\ u \in Uuids
      /\ u # None
  BY <1>0, IdentificationType
<1>3. c \in Revisions /\ c + 1 \in Revisions /\ c = StoredOrFirst(d, u)
  <2>1. c = StoredOrFirst(d, u)
    BY <1>0, <1>2 DEF CurrentRevision, SessionMatchesStore, InFlight
  <2> QED
    BY <1>0, <1>1, <1>2, <2>1, ConstantFacts, CurrentRevisionType DEF Revisions
<1>4. /\ phase = "preparing" /\ phase' = "reserved" /\ UnderWay'
      /\ UNCHANGED <<status, label, redoLabel, request, progress, report, spent>>
      /\ progress = NoProgress
      /\ status[d] = "open"
  BY DEF ReserveRevision, host, UnderWay, BatchWellFormed
<1>5. /\ stored'[d][u] = c + 1
      /\ sessionRevision'[d][u] = c
      /\ uuidOf'[d] = u
      /\ u \in created'
      /\ \A e \in NativeIds, v \in Uuids : e # d \/ v # u =>
           stored'[e][v] = stored[e][v]
  BY <1>0, <1>1, <1>2 DEF Observe, TypeOK
<1>6. TypeOK'
  BY <1>0, <1>1, <1>2, <1>3, <1>4, ObserveType DEF TypeOK, Phases, Reservations
<1>7. BatchWellFormed' /\ AcceptedStaysFresh'
  BY <1>0, <1>1, <1>2, <1>3, <1>4
  DEF BatchWellFormed, AcceptedStaysFresh, Reservations, UnderWay
<1>8. ReservationResolves'
  BY <1>0, <1>1, <1>2, <1>4, <1>5 DEF ReservationResolves, ResolvedUuids
<1>9. \A e \in NativeIds, v \in Uuids : InFlight(e, v)' <=> e = d /\ v = u
  BY <1>1, <1>4 DEF InFlight
<1>10. ReservationStands'
  BY <1>1, <1>5, <1>9 DEF ReservationStands
<1>11. IdentitiesKnown'
  <2>1. \A e \in NativeIds : {label'[e], redoLabel'[e], uuidOf'[e]} \subseteq created' \cup {None}
    BY <1>0, <1>1, <1>2, <1>4, ObservationInv
  <2>2. ASSUME NEW e \in NativeIds, NEW v \in Uuids
        PROVE  /\ v \notin created' => /\ sessionRevision'[e][v] = Absent
                                       /\ stored'[e][v] = Absent
                                       /\ spent'[e][v] = 0
               /\ status'[e] = "unopened" => spent'[e][v] = 0
    <3>1. created \subseteq created' /\ (v \notin created' => sessionRevision'[e][v] = Absent)
      BY <1>0, <1>1, <1>2, ObservationInv
    <3> QED
      BY <1>4, <1>5, <3>1 DEF IdentitiesKnown
  <2> QED
    BY <2>1, <2>2 DEF IdentitiesKnown
<1>12. SessionMatchesStore'
  <2> SUFFICES ASSUME NEW e \in NativeIds, NEW v \in Uuids, e # d \/ v # u,
                      sessionRevision'[e][v] # Absent
               PROVE  sessionRevision'[e][v] = StoredOrFirst(e, v)'
    BY <1>9 DEF SessionMatchesStore
  <2> QED
    BY <1>0, <1>1, <1>2, <1>5, ObservationInv DEF StoredOrFirst
<1>13. SpentIsBehind'
  <2> SUFFICES ASSUME NEW e \in NativeIds, NEW v \in Uuids
               PROVE  spent'[e][v] < Guaranteed(e, v)' \/ Abandoned(e, v)'
    BY DEF SpentIsBehind
  <2>1. Guaranteed(e, v) = StoredOrFirst(e, v)
    BY <1>0 DEF Guaranteed, InFlight
  <2>2. Guaranteed(e, v)' = StoredOrFirst(e, v)
    <3>1. CASE e = d /\ v = u
      BY <1>1, <1>3, <1>4, <1>9, <3>1 DEF Guaranteed, NoProgress
    <3>2. CASE e # d \/ v # u
      BY <1>5, <1>9, <3>2 DEF Guaranteed, StoredOrFirst
    <3> QED
      BY <3>1, <3>2
  <2>3. Abandoned(e, v) => Abandoned(e, v)'
    BY <1>0, <1>1, <1>2, <1>4, ObservationInv DEF Abandoned
  <2> QED
    BY <1>4, <2>1, <2>2, <2>3 DEF SpentIsBehind
<1> QED
  BY <1>6, <1>7, <1>8, <1>10, <1>11, <1>12, <1>13

\* The step that changes the document: it spends the revision before the one
\* reserved, and it makes the reserved UUID the only one that the document
\* can resolve to.
LEMMA ExecuteBatchInv ==
  ASSUME RevisionInv, ExecuteBatch
  PROVE  RevisionInv'
<1> USE DEF RevisionInv
<1> DEFINE d == reservation.doc
           u == reservation.uuid
<1>1. /\ phase = "reserved" /\ phase' = "executed" /\ UnderWay /\ UnderWay'
      /\ UNCHANGED <<status, uuidOf, sessionRevision, stored, created>>
      /\ UNCHANGED <<request, reservation, report>>
      /\ progress = NoProgress
  BY DEF ExecuteBatch, session, UnderWay, BatchWellFormed
<1>2. /\ reservation \in Reservations
      /\ d \in NativeIds
      /\ u \in Uuids
      /\ u \in created
      /\ uuidOf[d] = u
      /\ label[d] \in {None, u}
      /\ status[d] # "unopened"
  BY <1>1 DEF BatchWellFormed, Reservations, ReservationResolves
<1>3. progress' \in Progress /\ (progress'.complete => progress'.applied)
      /\ (progress'.applied => progress'.started)
  BY DEF ExecuteBatch, ExecutionOutcomes
<1>4. sessionRevision[d][u] = reservation.previous
      /\ stored[d][u] = reservation.previous + 1
  BY <1>1, <1>2 DEF ReservationStands, InFlight
<1>5. ASSUME progress'.applied
      PROVE  /\ label' = [label EXCEPT ![d] = u]
             /\ redoLabel' = [redoLabel EXCEPT ![d] = None]
             /\ spent' = [spent EXCEPT ![d] =
                  [v \in Uuids |-> IF v \in created THEN CurrentRevision(d, v) ELSE @[v]]]
  BY <1>2, <1>5 DEF ExecuteBatch, TypeOK
<1>6. ~progress'.applied => UNCHANGED <<label, redoLabel, spent>>
  BY DEF ExecuteBatch
<1>7. TypeOK'
  <2>1. spent' \in [NativeIds -> [Uuids -> 0 .. MaxRevision]]
    <3>1. ASSUME progress'.applied
          PROVE  [v \in Uuids |-> IF v \in created THEN CurrentRevision(d, v)
                                                   ELSE spent[d][v]]
                   \in [Uuids -> 0 .. MaxRevision]
      BY <1>2, CurrentRevisionType DEF TypeOK, Revisions
    <3> QED
      BY <1>2, <1>5, <1>6, <3>1 DEF TypeOK
  <2>2. label' \in [NativeIds -> Uuids \cup {None}]
        /\ redoLabel' \in [NativeIds -> Uuids \cup {None}]
    BY <1>2, <1>5, <1>6 DEF TypeOK
  <2> QED
    BY <1>1, <1>3, <2>1, <2>2 DEF TypeOK, Phases
<1>8. BatchWellFormed' /\ AcceptedStaysFresh' /\ ReservationResolves'
  BY <1>1, <1>2, <1>3 DEF BatchWellFormed, AcceptedStaysFresh,
                          ReservationResolves, UnderWay
<1>9. ReservationStands' /\ SessionMatchesStore'
  BY <1>1 DEF ReservationStands, SessionMatchesStore, InFlight, StoredOrFirst
<1>10. IdentitiesKnown'
  <2>1. ASSUME NEW e \in NativeIds
        PROVE  {label'[e], redoLabel'[e], uuidOf'[e]} \subseteq created' \cup {None}
    <3>1. label'[e] \in {label[e], u}
      BY <1>2, <1>5, <1>6 DEF TypeOK
    <3>2. redoLabel'[e] \in {redoLabel[e], None}
      BY <1>2, <1>5, <1>6 DEF TypeOK
    <3> QED
      BY <1>1, <1>2, <3>1, <3>2 DEF IdentitiesKnown
  <2>2. ASSUME NEW e \in NativeIds, NEW v \in Uuids, e # d \/ v \notin created
        PROVE  spent'[e][v] = spent[e][v]
    BY <1>2, <1>5, <1>6, <2>2 DEF TypeOK
  <2>3. ASSUME NEW e \in NativeIds, NEW v \in Uuids
        PROVE  /\ v \notin created' => /\ sessionRevision'[e][v] = Absent
                                       /\ stored'[e][v] = Absent
                                       /\ spent'[e][v] = 0
               /\ status'[e] = "unopened" => spent'[e][v] = 0
    BY <1>1, <1>2, <2>2 DEF IdentitiesKnown
  <2> QED
    BY <2>1, <2>3 DEF IdentitiesKnown
<1>11. SpentIsBehind'
  <2> SUFFICES ASSUME NEW e \in NativeIds, NEW v \in Uuids
               PROVE  spent'[e][v] < Guaranteed(e, v)' \/ Abandoned(e, v)'
    BY DEF SpentIsBehind
  <2>1. StoredOrFirst(e, v)' = StoredOrFirst(e, v) /\ InFlight(e, v)' = InFlight(e, v)
    BY <1>1 DEF StoredOrFirst, InFlight
  <2>2. CASE ~progress'.applied
    <3>1. Guaranteed(e, v)' = Guaranteed(e, v)
      BY <1>1, <2>1, <2>2 DEF Guaranteed, NoProgress
    <3>2. Abandoned(e, v)' = Abandoned(e, v)
      BY <1>1, <1>6, <2>2 DEF Abandoned
    <3> QED
      BY <1>6, <2>2, <3>1, <3>2 DEF SpentIsBehind
  <2>3. CASE progress'.applied /\ e # d
    <3>1. Guaranteed(e, v)' = Guaranteed(e, v)
      BY <2>1, <2>3 DEF Guaranteed, InFlight
    <3>2. /\ Abandoned(e, v)' = Abandoned(e, v)
          /\ spent'[e][v] = spent[e][v]
      BY <1>1, <1>5, <2>3 DEF Abandoned, TypeOK
    <3> QED
      BY <3>1, <3>2 DEF SpentIsBehind
  <2>4. CASE progress'.applied /\ e = d /\ v = u
    <3>1. spent'[e][v] = reservation.previous
      BY <1>2, <1>4, <1>5, <2>4
      DEF TypeOK, CurrentRevision, Reservations, Revisions, Absent
    <3>2. Guaranteed(e, v)' = reservation.previous + 1
      BY <1>2, <1>4, <2>1, <2>4
      DEF Guaranteed, StoredOrFirst, Reservations, Revisions, Absent
    <3> QED
      BY <1>2, <3>1, <3>2 DEF Reservations, Revisions
  <2>5. CASE progress'.applied /\ e = d /\ v # u /\ v \in created
    BY <1>1, <1>2, <1>5, <2>5, ConstantFacts DEF Abandoned, TypeOK
  <2>6. CASE progress'.applied /\ e = d /\ v \notin created
    <3>1. spent'[e][v] = 0
      BY <1>2, <1>5, <2>6 DEF TypeOK, IdentitiesKnown
    <3>2. Guaranteed(e, v)' = StoredOrFirst(e, v)
      BY <2>1, <2>6 DEF Guaranteed
    <3>3. StoredOrFirst(e, v) \in Revisions
      BY CurrentRevisionType
    <3> QED
      BY <3>1, <3>2, <3>3 DEF Revisions
  <2> QED
    BY <2>2, <2>3, <2>4, <2>5, <2>6
<1> QED
  BY <1>7, <1>8, <1>9, <1>10, <1>11

\* The end of a batch, committed or taken back.
LEMMA SettlingStep ==
  ASSUME RevisionInv, UnderWay, TypeOK', phase' = "idle", progress' = NoProgress,
         UNCHANGED <<status, label, redoLabel, created, spent>>,
         \A e \in NativeIds : uuidOf'[e] \in {label[e], uuidOf[e]},
         \A e \in NativeIds, v \in Uuids :
           /\ sessionRevision'[e][v] # Absent
                => sessionRevision'[e][v] = StoredOrFirst(e, v)'
           /\ v \notin created => sessionRevision'[e][v] = Absent /\ stored'[e][v] = Absent
           /\ Guaranteed(e, v) <= StoredOrFirst(e, v)'
  PROVE  RevisionInv'
<1> USE DEF RevisionInv
<1>1. ~UnderWay' /\ BatchWellFormed' /\ AcceptedStaysFresh'
  BY DEF UnderWay, BatchWellFormed, AcceptedStaysFresh, NoProgress
<1>2. ReservationResolves' /\ ReservationStands' /\ SessionMatchesStore'
  BY <1>1 DEF ReservationResolves, ReservationStands, SessionMatchesStore, InFlight
<1>3. IdentitiesKnown'
  BY DEF IdentitiesKnown
<1>4. SpentIsBehind'
  <2> SUFFICES ASSUME NEW e \in NativeIds, NEW v \in Uuids
               PROVE  spent'[e][v] < Guaranteed(e, v)' \/ Abandoned(e, v)'
    BY DEF SpentIsBehind
  <2>1. Guaranteed(e, v)' = StoredOrFirst(e, v)'
    BY <1>1 DEF Guaranteed, InFlight
  <2>2. Abandoned(e, v) => Abandoned(e, v)'
    BY DEF Abandoned
  <2>3. spent[e][v] \in Int /\ StoredOrFirst(e, v) \in Int
    BY CurrentRevisionType DEF TypeOK, Revisions
  <2>4. Guaranteed(e, v) \in Int /\ StoredOrFirst(e, v)' \in Int
    <3>1. Guaranteed(e, v) \in Int
      BY <2>3 DEF Guaranteed, BatchWellFormed, Reservations, Revisions
    <3>2. StoredOrFirst(e, v)' \in Int
      BY DEF StoredOrFirst, TypeOK, Revisions, Absent
    <3> QED
      BY <3>1, <3>2
  <2> QED
    BY <2>1, <2>2, <2>3, <2>4 DEF SpentIsBehind
<1> QED
  BY <1>1, <1>2, <1>3, <1>4

\* What the reservation says while it stands.
LEMMA ReservationFacts ==
  ASSUME RevisionInv, UnderWay
  PROVE  /\ reservation.doc \in NativeIds
         /\ reservation.uuid \in Uuids
         /\ reservation.uuid \in created
         /\ reservation.previous \in Revisions
         /\ reservation.previous + 1 \in Revisions
         /\ sessionRevision[reservation.doc][reservation.uuid] = reservation.previous
         /\ stored[reservation.doc][reservation.uuid] = reservation.previous + 1
         /\ SettledUuid \in created
         /\ SettledUuid \in Uuids
<1> USE DEF RevisionInv
<1>1. reservation \in Reservations
  BY DEF BatchWellFormed
<1>2. /\ sessionRevision[reservation.doc][reservation.uuid] = reservation.previous
      /\ stored[reservation.doc][reservation.uuid] = reservation.previous + 1
      /\ reservation.uuid \in created
      /\ uuidOf[reservation.doc] # None
  BY <1>1 DEF ReservationStands, InFlight, Reservations, ReservationResolves
<1>3. reservation.previous + 1 \in Revisions
  BY <1>1, <1>2 DEF TypeOK, Reservations, Revisions, Absent
<1>4. SettledUuid \in created
  BY <1>1, <1>2 DEF SettledUuid, IdentitiesKnown, Reservations
<1> QED
  BY <1>1, <1>2, <1>3, <1>4 DEF Reservations, TypeOK

\* The session after the commit agrees with the store everywhere.
LEMMA CommitMatchesStore ==
  ASSUME RevisionInv, UnderWay, UNCHANGED stored
  PROVE  /\ CommittedSession \in [NativeIds -> [Uuids -> Revisions \cup {Absent}]]
         /\ \A e \in NativeIds, v \in Uuids :
              /\ CommittedSession[e][v] # Absent
                   => CommittedSession[e][v] = StoredOrFirst(e, v)
              /\ v \notin created => CommittedSession[e][v] = Absent /\ stored[e][v] = Absent
              /\ Guaranteed(e, v) <= StoredOrFirst(e, v)
              /\ StoredOrFirst(e, v) \in Revisions
              /\ StoredOrFirst(e, v)' = StoredOrFirst(e, v)
<1> USE DEF RevisionInv
<1>1. CommittedSession \in [NativeIds -> [Uuids -> Revisions \cup {Absent}]]
  BY ReservationFacts DEF CommittedSession, TypeOK
<1>2. ASSUME NEW e \in NativeIds, NEW v \in Uuids
      PROVE  /\ CommittedSession[e][v] # Absent
                  => CommittedSession[e][v] = StoredOrFirst(e, v)
             /\ v \notin created => CommittedSession[e][v] = Absent /\ stored[e][v] = Absent
             /\ Guaranteed(e, v) <= StoredOrFirst(e, v)
  <2>1. CASE InFlight(e, v)
    <3>1. e = reservation.doc /\ v = reservation.uuid
      BY <2>1 DEF InFlight
    <3>2. CommittedSession[e][v] = reservation.previous + 1
      BY <3>1, ReservationFacts DEF CommittedSession, TypeOK
    <3>3. StoredOrFirst(e, v) = reservation.previous + 1
      BY <3>1, ReservationFacts DEF StoredOrFirst, Revisions, Absent
    <3> QED
      BY <3>1, <3>2, <3>3, ReservationFacts DEF Guaranteed, Revisions
  <2>2. CASE ~InFlight(e, v)
    <3>1. CommittedSession[e][v] = sessionRevision[e][v]
      BY <2>2, ReservationFacts DEF CommittedSession, TypeOK, InFlight
    <3>2. Guaranteed(e, v) = StoredOrFirst(e, v) /\ StoredOrFirst(e, v) \in Int
      BY <2>2, CurrentRevisionType DEF Guaranteed, Revisions
    <3> QED
      BY <2>2, <3>1, <3>2 DEF SessionMatchesStore, IdentitiesKnown
  <2> QED
    BY <2>1, <2>2
<1> QED
  BY <1>1, <1>2, CurrentRevisionType DEF StoredOrFirst

LEMMA FinishWithReferenceInv ==
  ASSUME RevisionInv, FinishSuccess \/ FinishPartial
  PROVE  RevisionInv'
<1> USE DEF RevisionInv
<1> DEFINE d == reservation.doc
           u == SettledUuid
           revision == IF CommittedSession[d][u] = Absent
                       THEN StoredOrFirst(d, u) ELSE CommittedSession[d][u]
<1>1. /\ UnderWay
      /\ phase' = "idle" /\ request' = None /\ reservation' = None
      /\ progress' = NoProgress /\ report' \in Reports
      /\ UNCHANGED <<status, label, redoLabel, stored, created, spent>>
      /\ uuidOf' = [uuidOf EXCEPT ![d] = u]
      /\ sessionRevision' = [CommittedSession EXCEPT ![d][u] = revision]
  BY DEF FinishSuccess, FinishPartial, SettleWithReference, Settle, UnderWay, host, Reports
<1>2. d \in NativeIds /\ u \in Uuids /\ u \in created
  BY <1>1, ReservationFacts
<1>3. revision = StoredOrFirst(d, u) /\ revision \in Revisions
  BY <1>1, <1>2, CommitMatchesStore
<1>4. TypeOK'
  BY <1>1, <1>2, <1>3, CommitMatchesStore DEF TypeOK, Phases, Progress, NoProgress
<1>5. \A e \in NativeIds : uuidOf'[e] \in {label[e], uuidOf[e]}
  BY <1>1, <1>2 DEF TypeOK, SettledUuid
<1>6. ASSUME NEW e \in NativeIds, NEW v \in Uuids
      PROVE  sessionRevision'[e][v] = IF e = d /\ v = u THEN StoredOrFirst(e, v)
                                                        ELSE CommittedSession[e][v]
  BY <1>1, <1>2, <1>3, CommitMatchesStore
<1>7. \A e \in NativeIds, v \in Uuids :
        /\ sessionRevision'[e][v] # Absent => sessionRevision'[e][v] = StoredOrFirst(e, v)'
        /\ v \notin created => sessionRevision'[e][v] = Absent /\ stored'[e][v] = Absent
        /\ Guaranteed(e, v) <= StoredOrFirst(e, v)'
  BY <1>1, <1>2, <1>6, CommitMatchesStore
<1> QED
  BY <1>1, <1>4, <1>5, <1>7, SettlingStep

LEMMA FinishWithoutReferenceInv ==
  ASSUME RevisionInv, FinishWithoutReference
  PROVE  RevisionInv'
<1> USE DEF RevisionInv
<1>1. /\ UnderWay
      /\ phase' = "idle" /\ request' = None /\ reservation' = None
      /\ progress' = NoProgress /\ report' \in Reports
      /\ UNCHANGED <<status, label, redoLabel, stored, created, spent>>
      /\ \/ UNCHANGED uuidOf
         \/ uuidOf' = [uuidOf EXCEPT ![reservation.doc] = SettledUuid]
      /\ sessionRevision' = CommittedSession
  BY DEF FinishWithoutReference, Settle, UnderWay, host, Reports
<1>2. TypeOK'
  <2>1. uuidOf' \in [NativeIds -> Uuids \cup {None}]
    BY <1>1, ReservationFacts DEF TypeOK
  <2>2. sessionRevision' \in [NativeIds -> [Uuids -> Revisions \cup {Absent}]]
    BY <1>1, CommitMatchesStore
  <2> QED
    BY <1>1, <2>1, <2>2 DEF TypeOK, Phases, Progress, NoProgress
<1>3. \A e \in NativeIds : uuidOf'[e] \in {label[e], uuidOf[e]}
  BY <1>1, ReservationFacts DEF TypeOK, SettledUuid
<1>4. \A e \in NativeIds, v \in Uuids :
        /\ sessionRevision'[e][v] # Absent => sessionRevision'[e][v] = StoredOrFirst(e, v)'
        /\ v \notin created => sessionRevision'[e][v] = Absent /\ stored'[e][v] = Absent
        /\ Guaranteed(e, v) <= StoredOrFirst(e, v)'
  BY <1>1, CommitMatchesStore
<1> QED
  BY <1>1, <1>2, <1>3, <1>4, SettlingStep

LEMMA FinishRollbackInv ==
  ASSUME RevisionInv, FinishRollback
  PROVE  RevisionInv'
<1> USE DEF RevisionInv
<1> DEFINE d == reservation.doc
           u == reservation.uuid
<1>1. /\ UnderWay
      /\ ~progress.applied
      /\ phase' = "idle" /\ request' = None /\ reservation' = None
      /\ progress' = NoProgress /\ report' \in Reports
      /\ UNCHANGED <<status, label, redoLabel, uuidOf, created, spent>>
  BY DEF FinishRollback, Settle, UnderWay, host, Reports, BatchWellFormed
<1>2. CASE /\ stored' = [stored EXCEPT ![d][u] = reservation.previous]
           /\ UNCHANGED sessionRevision
  <2>1. TypeOK'
    BY <1>1, <1>2, ReservationFacts DEF TypeOK, Phases, Progress, NoProgress
  <2>2. ASSUME NEW e \in NativeIds, NEW v \in Uuids
        PROVE  /\ sessionRevision'[e][v] # Absent
                    => sessionRevision'[e][v] = StoredOrFirst(e, v)'
               /\ v \notin created => sessionRevision'[e][v] = Absent /\ stored'[e][v] = Absent
               /\ Guaranteed(e, v) <= StoredOrFirst(e, v)'
    <3>1. CASE e = d /\ v = u
      <4>1. stored'[e][v] = reservation.previous
        BY <1>1, <1>2, <3>1, ReservationFacts DEF TypeOK
      <4>2. StoredOrFirst(e, v)' = reservation.previous
        BY <1>1, <4>1, ReservationFacts DEF StoredOrFirst, Revisions, Absent
      <4>3. Guaranteed(e, v) = reservation.previous
        BY <1>1, <3>1 DEF Guaranteed, InFlight
      <4> QED
        BY <1>1, <1>2, <3>1, <4>2, <4>3, ReservationFacts DEF Revisions
    <3>2. CASE e # d \/ v # u
      <4>1. stored'[e][v] = stored[e][v]
        BY <1>2, <3>2 DEF TypeOK
      <4>2. StoredOrFirst(e, v)' = StoredOrFirst(e, v) /\ ~InFlight(e, v)
        BY <3>2, <4>1 DEF StoredOrFirst, InFlight
      <4>3. StoredOrFirst(e, v) \in Int
        BY CurrentRevisionType DEF Revisions
      <4> QED
        BY <1>1, <1>2, <4>1, <4>2, <4>3
        DEF SessionMatchesStore, IdentitiesKnown, Guaranteed
    <3> QED
      BY <3>1, <3>2
  <2> QED
    BY <1>1, <2>1, <2>2, SettlingStep
<1>3. CASE /\ sessionRevision' = CommittedSession
           /\ UNCHANGED stored
  <2>1. TypeOK'
    BY <1>1, <1>3, CommitMatchesStore DEF TypeOK, Phases, Progress, NoProgress
  <2>2. \A e \in NativeIds, v \in Uuids :
          /\ sessionRevision'[e][v] # Absent => sessionRevision'[e][v] = StoredOrFirst(e, v)'
          /\ v \notin created => sessionRevision'[e][v] = Absent /\ stored'[e][v] = Absent
          /\ Guaranteed(e, v) <= StoredOrFirst(e, v)'
    BY <1>1, <1>3, CommitMatchesStore
  <2> QED
    BY <1>1, <1>3, <2>1, <2>2, SettlingStep
<1> QED
  BY <1>2, <1>3 DEF FinishRollback

-----------------------------------------------------------------------------
(* The invariant and what follows from it.                                 *)

LEMMA NextInv == RevisionInv /\ [Next]_vars => RevisionInv'
<1> SUFFICES ASSUME RevisionInv, [Next]_vars PROVE RevisionInv'
  OBVIOUS
<1>1. CASE UserNext
  BY <1>1, UserInv
<1>2. CASE PanelReload
  BY <1>2, PanelReloadInv
<1>3. CASE \E S \in SUBSET OpenDocuments : Inspect(S)
  BY <1>3, InspectInv
<1>4. CASE \E d \in NativeIds : InspectFails(d) \/ CreateDocument(d)
  BY <1>4, InspectFailsInv, CreateDocumentInv
<1>5. CASE BatchNext
  BY <1>5, BeginBatchInv, EndBatchEarlyInv, ReserveRevisionInv, ExecuteBatchInv,
     FinishWithReferenceInv, FinishWithoutReferenceInv, FinishRollbackInv DEF BatchNext
<1>6. CASE UNCHANGED vars
  <2> USE <1>6 DEF vars, RevisionInv
  <2>1. TypeOK' /\ BatchWellFormed' /\ IdentitiesKnown' /\ AcceptedStaysFresh'
    BY DEF TypeOK, BatchWellFormed, IdentitiesKnown, AcceptedStaysFresh, UnderWay
  <2>2. ReservationResolves' /\ ReservationStands' /\ SessionMatchesStore'
    BY DEF ReservationResolves, ReservationStands, SessionMatchesStore, InFlight,
           UnderWay, StoredOrFirst
  <2>3. SpentIsBehind'
    BY DEF SpentIsBehind, Guaranteed, Abandoned, InFlight, UnderWay, StoredOrFirst
  <2> QED
    BY <2>1, <2>2, <2>3
<1> QED
  BY <1>1, <1>2, <1>3, <1>4, <1>5, <1>6 DEF Next

\* RevisionInv, the conjunction of the type invariant and of the facts about
\* labels, session, store and reservation, holds in every reachable state.
THEOREM RevisionInvariant == Spec => []RevisionInv
BY InitInv, NextInv, PTL DEF Spec

\* Every variable keeps its type; in particular no revision passes the limit
\* that reserveRevision checks.
THEOREM TypeCorrect == Spec => []TypeOK
<1>1. RevisionInv => TypeOK
  BY DEF RevisionInv
<1> QED
  BY <1>1, RevisionInvariant, PTL

\* An older reference never becomes current again, whatever the order of
\* batches, failed store calls, rollbacks, reloads, copies, Undo and Redo.
THEOREM StaleReferencesRefused == Spec => []NoStaleReference
<1>1. RevisionInv => NoStaleReference
  BY ResolvedIsFresh DEF NoStaleReference, OpenDocuments, UnderWay
<1> QED
  BY <1>1, RevisionInvariant, PTL

\* A batch accepted by assertRevision is still against the latest state when
\* it reaches the document, across the awaits of its handler.
THEOREM AcceptedBatchesFresh == Spec => []AcceptedStaysFresh
<1>1. RevisionInv => AcceptedStaysFresh
  BY DEF RevisionInv
<1> QED
  BY <1>1, RevisionInvariant, PTL

\* A reservation stands until it is committed or taken back.
THEOREM ReservationsStand == Spec => []ReservationStands
<1>1. RevisionInv => ReservationStands
  BY DEF RevisionInv
<1> QED
  BY <1>1, RevisionInvariant, PTL

-----------------------------------------------------------------------------
(* Steps of a revision.                                                    *)

\* Outside a reservation the current revision is the persisted one; inside,
\* it is the previous one, and the persisted one is the next.
LEMMA CurrentIsStored ==
  ASSUME RevisionInv, NEW d \in NativeIds, NEW u \in Uuids
  PROVE  /\ ~InFlight(d, u) => CurrentRevision(d, u) = StoredOrFirst(d, u)
         /\ InFlight(d, u) => /\ CurrentRevision(d, u) = reservation.previous
                              /\ StoredOrFirst(d, u) = reservation.previous + 1
<1> USE DEF RevisionInv
<1>1. CASE ~InFlight(d, u)
  BY <1>1 DEF SessionMatchesStore, CurrentRevision
<1>2. CASE InFlight(d, u)
  BY <1>2, ReservationFacts
  DEF InFlight, CurrentRevision, StoredOrFirst, Revisions, Absent
<1> QED
  BY <1>1, <1>2

\* Every step keeps the persisted revision of an instance, or reserves or
\* takes back the next one of exactly that instance.
LEMMA StoreSteps ==
  ASSUME RevisionInv, RevisionInv', [Next]_vars, NEW d \in NativeIds, NEW u \in Uuids
  PROVE  \/ /\ StoredOrFirst(d, u)' = StoredOrFirst(d, u)
            /\ InFlight(d, u)' => InFlight(d, u)
            /\ InFlight(d, u) /\ InFlight(d, u)' => UNCHANGED reservation
         \/ /\ ~InFlight(d, u) /\ InFlight(d, u)'
            /\ reservation'.previous = CurrentRevision(d, u)
         \/ /\ InFlight(d, u) /\ ~InFlight(d, u)'
            /\ StoredOrFirst(d, u)' = reservation.previous
<1> USE DEF RevisionInv
<1>1. CASE UNCHANGED <<stored, reservation>> /\ (UnderWay' => UnderWay)
  BY <1>1 DEF StoredOrFirst, InFlight
<1>2. CASE ~UnderWay' /\ UNCHANGED stored
  BY <1>2 DEF StoredOrFirst, InFlight
<1>3. ASSUME NEW e \in NativeIds, CreateDocument(e)
      PROVE  StoredOrFirst(d, u)' = StoredOrFirst(d, u) /\ ~UnderWay'
  <2>1. PICK v \in Uuids \ created, persisted \in BOOLEAN :
          stored' = IF persisted THEN [stored EXCEPT ![e][v] = 1] ELSE stored
    BY <1>3 DEF CreateDocument
  <2>2. stored[e][v] = Absent
    BY <2>1 DEF IdentitiesKnown
  <2>3. ASSUME d = e, u = v
        PROVE  StoredOrFirst(d, u)' = StoredOrFirst(d, u)
    <3>1. stored'[e][v] \in {1, Absent}
      BY <2>1, <2>2 DEF TypeOK
    <3> QED
      BY <2>2, <2>3, <3>1 DEF StoredOrFirst, Absent
  <2>4. ASSUME d # e \/ u # v
        PROVE  StoredOrFirst(d, u)' = StoredOrFirst(d, u)
    BY <2>1, <2>4 DEF StoredOrFirst, TypeOK
  <2> QED
    BY <1>3, <2>3, <2>4 DEF CreateDocument, batch, UnderWay
<1>4. CASE ReserveRevision
  <2>1. /\ request.doc \in NativeIds /\ ~UnderWay /\ UnderWay'
    BY <1>4 DEF ReserveRevision, BatchWellFormed, References, UnderWay
  <2>2. PICK f \in Identification({request.doc}) :
          /\ stored' = [stored EXCEPT ![request.doc][f[request.doc]] =
                          CurrentRevision(request.doc, f[request.doc]) + 1]
          /\ reservation' = [doc |-> request.doc, uuid |-> f[request.doc],
                             previous |-> CurrentRevision(request.doc, f[request.doc])]
    BY <1>4 DEF ReserveRevision, NextRevision
  <2>3. CASE d = request.doc /\ u = f[request.doc]
    BY <2>1, <2>2, <2>3 DEF InFlight
  <2>4. CASE d # request.doc \/ u # f[request.doc]
    BY <2>1, <2>2, <2>4 DEF InFlight, StoredOrFirst, TypeOK
  <2> QED
    BY <2>3, <2>4
<1>5. CASE FinishRollback
  <2>1. ~UnderWay' /\ UnderWay
    BY <1>5 DEF FinishRollback, Settle, UnderWay
  <2>2. ASSUME stored' = [stored EXCEPT ![reservation.doc][reservation.uuid] =
                            reservation.previous]
        PROVE  IF InFlight(d, u) THEN StoredOrFirst(d, u)' = reservation.previous
                                 ELSE StoredOrFirst(d, u)' = StoredOrFirst(d, u)
    <3>1. stored'[d][u] = IF InFlight(d, u) THEN reservation.previous ELSE stored[d][u]
      BY <2>1, <2>2, ReservationFacts DEF InFlight, TypeOK
    <3> QED
      BY <2>1, <3>1, ReservationFacts DEF StoredOrFirst, Revisions, Absent
  <2> QED
    BY <1>2, <1>5, <2>1, <2>2 DEF FinishRollback, InFlight
<1>6. CASE UserNext \/ PanelReload \/ UNCHANGED vars
        \/ \E S \in SUBSET OpenDocuments : Inspect(S)
  BY <1>1, <1>2, <1>6
  DEF UserNext, UserOpens, UserCloses, UserUndoesIdentity, UserRedoesIdentity, UserEdits,
      PanelReload, Inspect, UnderWay, batch, vars
<1>7. CASE \E e \in NativeIds : InspectFails(e) \/ CreateDocument(e)
  BY <1>1, <1>3, <1>7 DEF InspectFails, UnderWay, batch, InFlight
<1>8. CASE BatchNext
  BY <1>1, <1>2, <1>4, <1>5, <1>8
  DEF BatchNext, BeginBatch, EndBatchEarly, ExecuteBatch, FinishSuccess, FinishPartial,
      FinishWithoutReference, SettleWithReference, Settle, UnderWay
<1> QED
  BY <1>6, <1>7, <1>8 DEF Next

\* The revision of an instance moves only by a reservation for it, and only
\* to the revision reserved.
THEOREM RevisionsStep == Spec => RevisionSteps
<1>1. ASSUME RevisionInv, RevisionInv', [Next]_vars, NEW d \in NativeIds, NEW u \in Uuids
      PROVE  RevisionStep(d, u)
  <2>1. /\ ~InFlight(d, u)' => CurrentRevision(d, u)' = StoredOrFirst(d, u)'
        /\ InFlight(d, u)' => CurrentRevision(d, u)' = reservation'.previous
    <3>1. ASSUME ~InFlight(d, u)'
          PROVE  CurrentRevision(d, u)' = StoredOrFirst(d, u)'
      BY <1>1, <3>1 DEF RevisionInv, SessionMatchesStore, CurrentRevision
    <3>2. ASSUME InFlight(d, u)'
          PROVE  CurrentRevision(d, u)' = reservation'.previous
      <4>1. reservation'.previous \in Revisions
        BY <1>1, <3>2 DEF RevisionInv, BatchWellFormed, InFlight, Reservations
      <4>2. sessionRevision'[d][u] = reservation'.previous
        BY <1>1, <3>2 DEF RevisionInv, ReservationStands
      <4> QED
        BY <4>1, <4>2 DEF CurrentRevision, Revisions, Absent, InFlight
    <3> QED
      BY <3>1, <3>2
  <2>2. CASE InFlight(d, u)
    BY <1>1, <2>1, <2>2, CurrentIsStored, StoreSteps DEF RevisionStep
  <2>3. CASE ~InFlight(d, u)
    BY <1>1, <2>1, <2>3, CurrentIsStored, StoreSteps DEF RevisionStep
  <2> QED
    BY <2>2, <2>3
<1>2. RevisionInv /\ RevisionInv' /\ [Next]_vars
        => [\A d \in NativeIds, u \in Uuids : RevisionStep(d, u)]_vars
  BY <1>1
<1> QED
  BY <1>2, RevisionInvariant, PTL DEF Spec, RevisionSteps

\* A batch that has not ended has reported nothing.
NothingReported == phase # "idle" => report = "none"

LEMMA ReportWaits ==
  ASSUME NothingReported, [Next]_vars
  PROVE  NothingReported'
<1>1. CASE UserNext \/ (\E S \in SUBSET OpenDocuments : Inspect(S)) \/ UNCHANGED vars
            \/ \E e \in NativeIds : InspectFails(e) \/ CreateDocument(e)
  <2>1. UNCHANGED <<phase, report>>
    BY <1>1 DEF UserNext, UserOpens, UserCloses, UserUndoesIdentity, UserRedoesIdentity,
                UserEdits, Inspect, InspectFails, CreateDocument, batch, vars
  <2> QED
    BY <2>1 DEF NothingReported
<1>2. CASE PanelReload
  BY <1>2 DEF PanelReload, NothingReported
<1>3. CASE BatchNext
  BY <1>3 DEF BatchNext, BeginBatch, EndBatchEarly, ReserveRevision, ExecuteBatch, FinishSuccess,
              FinishPartial, FinishWithoutReference, FinishRollback, SettleWithReference,
              Settle, NothingReported
<1> QED
  BY <1>1, <1>2, <1>3 DEF Next

\* A batch that ends with a report of no change has made none, or its
\* revision has moved in the session and in the store, so that references
\* from before it are refused.
THEOREM ChangesAreNeverSilent == Spec => ChangesNeverSilent
<1> DEFINE Moved ==
      /\ sessionRevision' = CommittedSession
      /\ stored'[reservation.doc][reservation.uuid] = reservation.previous + 1
<1>1. Init => NothingReported
  BY DEF Init, NothingReported
<1>2. ASSUME RevisionInv, NothingReported, [Next]_vars,
             phase = "executed", report' = "unchanged", progress.applied
      PROVE  Moved
  <2>1. report = "none" /\ progress.started
    BY <1>2 DEF NothingReported, RevisionInv, BatchWellFormed
  <2>2. FinishWithoutReference
    <3>1. ~UserNext /\ ~PanelReload /\ ~UNCHANGED vars /\ ~(\E S \in SUBSET OpenDocuments : Inspect(S))
      BY <1>2, <2>1 DEF UserNext, UserOpens, UserCloses, UserUndoesIdentity, UserRedoesIdentity,
                UserEdits, PanelReload, Inspect, batch, vars
    <3>2. ~(\E e \in NativeIds : InspectFails(e) \/ CreateDocument(e))
      BY <1>2 DEF InspectFails, CreateDocument
    <3>3. BatchNext
      BY <1>2, <3>1, <3>2 DEF Next
    <3> QED
      BY <1>2, <2>1, <3>3 DEF BatchNext, BeginBatch, EndBatchEarly, ReserveRevision, ExecuteBatch,
           FinishSuccess, FinishPartial, FinishRollback, SettleWithReference, Settle
  <2>3. sessionRevision' = CommittedSession /\ stored' = stored
    BY <2>2 DEF FinishWithoutReference
  <2>4. stored[reservation.doc][reservation.uuid] = reservation.previous + 1
    BY <1>2, ReservationFacts DEF RevisionInv, ReservationStands, InFlight, UnderWay
  <2> QED
    BY <2>3, <2>4
<1>3. RevisionInv /\ NothingReported /\ [Next]_vars
        => [phase = "executed" /\ report' = "unchanged" /\ progress.applied => Moved]_vars
  BY <1>2
<1>4. NothingReported /\ [Next]_vars => NothingReported'
  BY ReportWaits
<1> QED
  BY <1>1, <1>3, <1>4, RevisionInvariant, PTL DEF Spec, ChangesNeverSilent

=============================================================================
