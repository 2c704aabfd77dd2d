-------------------------- MODULE UndoProof_proofs ---------------------------
(***************************************************************************)
(* Proofs about UndoProof, for every number of documents, batches and      *)
(* steps.                                                                  *)
(*                                                                         *)
(* Undo and redo together are one history of a document: a person who      *)
(* undoes and redoes moves along it and changes nothing in it.  Grounded   *)
(* says of this history that on a host which labels the last of many steps *)
(* the shape of the proving batch was added before the labelled step and   *)
(* not removed up to it, so that undoing that one step cannot take away    *)
(* everything the batch has made.                                          *)
(***************************************************************************)
EXTENDS UndoProof, TLAPS

Steps == [label : Traces \cup {None}, adds : SUBSET Objects,
          drops : SUBSET Objects, changes : SUBSET Objects]

HistoryTypes ==
  /\ host \in Hosts
  /\ undo \in [Documents -> Seq(Steps)]
  /\ redo \in [Documents -> Seq(Steps)]
  /\ activeDoc \in Documents
  /\ used \subseteq Traces
  /\ probed \in BOOLEAN

\* The steps of a document from the first one done to the first one undone.
Total(u, r) == Len(u) + Len(r)
Line(u, r) == [n \in 1..Total(u, r) |-> IF n <= Len(u) THEN u[n] ELSE r[Total(u, r) + 1 - n]]
History(d) == Line(undo[d], redo[d])

\* Labels and objects are those of batches that have run.
Owned(h, traces) ==
  \A n \in DOMAIN h :
    /\ h[n].label \in traces \cup {None}
    /\ h[n].adds \subseteq traces \X Items
    /\ h[n].drops \subseteq traces \X Items

Shape(t) == <<t, "shape">>

Grounded(h, t) ==
  \A n \in DOMAIN h : h[n].label = t =>
    /\ \E m \in 1..n - 1 : Shape(t) \in h[m].adds
    /\ \A m \in 1..n : Shape(t) \notin h[m].drops

CandidateHolds ==
  /\ candidate.approved => candidate.trace \in used /\ host \in {"whole", "each", "last"}
  /\ candidate.approved =>
       \E reference \in candidate.aliases : reference.object = Shape(candidate.trace)
  /\ candidate.approved /\ host = "last" =>
       \A d \in Documents : Grounded(History(d), candidate.trace)

ProofInv ==
  /\ HistoryTypes
  /\ \A d \in Documents : Owned(History(d), used)
  /\ CandidateHolds
  /\ ProofIsSound

-----------------------------------------------------------------------------
(* Histories.                                                              *)

LEMMA LineFacts ==
  ASSUME NEW u \in Seq(Steps), NEW r \in Seq(Steps)
  PROVE  /\ Total(u, r) \in Nat /\ DOMAIN Line(u, r) = 1..Total(u, r)
         /\ Len(u) \in Nat /\ Len(r) \in Nat
         /\ \A n \in 1..Len(u) : n \in DOMAIN Line(u, r) /\ Line(u, r)[n] = u[n]
         /\ \A n \in 1..Total(u, r) :
              n > Len(u) => Line(u, r)[n] = r[Total(u, r) + 1 - n] /\ Total(u, r) + 1 - n \in 1..Len(r)
         /\ \A n \in DOMAIN Line(u, r) : Line(u, r)[n] \in Steps
<1>1. Len(u) \in Nat /\ Len(r) \in Nat /\ Total(u, r) \in Nat
  BY DEF Total
<1>2. DOMAIN Line(u, r) = 1..Total(u, r)
  BY DEF Line
<1>3. \A n \in 1..Len(u) : n \in 1..Total(u, r)
  BY <1>1 DEF Total
<1>4. \A n \in 1..Total(u, r) :
        Line(u, r)[n] = IF n <= Len(u) THEN u[n] ELSE r[Total(u, r) + 1 - n]
  BY DEF Line
<1>5. \A n \in 1..Total(u, r) : n > Len(u) => ~(n <= Len(u)) /\ Total(u, r) + 1 - n \in 1..Len(r)
  BY <1>1 DEF Total
<1>6. \A n \in 1..Len(u) : n <= Len(u)
  BY <1>1
<1>7. \A n \in 1..Total(u, r) : Line(u, r)[n] \in Steps
  <2>1. ASSUME NEW n \in 1..Total(u, r)
        PROVE  Line(u, r)[n] \in Steps
    <3>1. CASE n <= Len(u)
      <4>1. n \in 1..Len(u)
        BY <1>1, <3>1
      <4> QED
        BY <1>4, <3>1, <4>1
    <3>2. CASE ~(n <= Len(u))
      <4>1. n > Len(u)
        BY <1>1, <3>2
      <4> QED
        BY <1>4, <1>5, <3>2, <4>1
    <3> QED
      BY <3>1, <3>2
  <2> QED
    BY <2>1
<1> QED
  BY <1>1, <1>2, <1>3, <1>4, <1>5, <1>6, <1>7

\* A step that moves from one side to the other leaves the history as it is.
LEMMA LineMoves ==
  ASSUME NEW u \in Seq(Steps), NEW r \in Seq(Steps), u # <<>>
  PROVE  /\ Front(u) \in Seq(Steps) /\ Append(r, Last(u)) \in Seq(Steps)
         /\ Line(Front(u), Append(r, Last(u))) = Line(u, r)
<1> DEFINE v == Front(u)
           s == Append(r, Last(u))
<1>1. /\ Len(u) \in Nat \ {0} /\ Len(r) \in Nat /\ Last(u) = u[Len(u)] /\ Last(u) \in Steps
  BY DEF Last
<1>2. v \in Seq(Steps) /\ Len(v) = Len(u) - 1 /\ \A n \in 1..Len(u) - 1 : v[n] = u[n]
  <2>1. PICK k \in 1..Len(u) : k = Len(u)
    BY <1>1
  <2>2. /\ SubSeq(u, 1, k - 1) \in Seq(Steps) /\ Len(SubSeq(u, 1, k - 1)) = k - 1
        /\ \A n \in 1..k - 1 : SubSeq(u, 1, k - 1)[n] = u[n]
    BY <2>1
  <2> QED
    BY <2>1, <2>2 DEF Front
<1>3. /\ s \in Seq(Steps) /\ Len(s) = Len(r) + 1
      /\ \A n \in 1..Len(r) : s[n] = r[n]
      /\ s[Len(r) + 1] = u[Len(u)]
  BY <1>1
<1> HIDE DEF v, s
<1>4. Total(v, s) = Total(u, r)
  BY <1>1, <1>2, <1>3 DEF Total
<1>5. ASSUME NEW n \in 1..Total(u, r)
      PROVE  (IF n <= Len(v) THEN v[n] ELSE s[Total(v, s) + 1 - n])
               = (IF n <= Len(u) THEN u[n] ELSE r[Total(u, r) + 1 - n])
  <2>1. n \in Nat /\ Total(u, r) = Len(u) + Len(r)
    BY <1>1 DEF Total
  <2>2. CASE n <= Len(u) - 1
    <3>1. n \in 1..Len(u) - 1 /\ n <= Len(v) /\ n <= Len(u)
      BY <1>1, <1>2, <2>1, <2>2
    <3> QED
      BY <1>2, <3>1
  <2>3. CASE n = Len(u)
    <3>1. ~(n <= Len(v)) /\ n <= Len(u) /\ Total(v, s) + 1 - n = Len(r) + 1
      BY <1>1, <1>2, <1>4, <2>1, <2>3
    <3> QED
      BY <1>3, <2>3, <3>1
  <2>4. CASE n > Len(u)
    <3>1. /\ ~(n <= Len(v)) /\ ~(n <= Len(u)) /\ Total(v, s) + 1 - n = Total(u, r) + 1 - n
          /\ Total(u, r) + 1 - n \in 1..Len(r)
      BY <1>1, <1>2, <1>4, <2>1, <2>4
    <3> QED
      BY <1>3, <3>1
  <2> QED
    BY <1>1, <2>1, <2>2, <2>3, <2>4
<1>6. Line(v, s) = Line(u, r)
  BY <1>4, <1>5 DEF Line
<1> QED
  BY <1>2, <1>3, <1>6 DEF v, s

\* New steps come after those that were not undone.
LEMMA LineGrows ==
  ASSUME NEW u \in Seq(Steps), NEW r \in Seq(Steps), NEW steps \in Seq(Steps)
  PROVE  /\ u \o steps \in Seq(Steps)
         /\ DOMAIN Line(u \o steps, <<>>) = 1..Len(u) + Len(steps)
         /\ \A n \in 1..Len(u) : n \in DOMAIN Line(u, r) /\ Line(u \o steps, <<>>)[n] = Line(u, r)[n]
         /\ \A n \in 1..Len(steps) : Line(u \o steps, <<>>)[Len(u) + n] = steps[n]
<1> DEFINE w == u \o steps
<1>1. /\ w \in Seq(Steps) /\ Len(w) = Len(u) + Len(steps)
      /\ Len(u) \in Nat /\ Len(steps) \in Nat /\ <<>> \in Seq(Steps) /\ Len(<<>>) = 0
      /\ \A n \in 1..Len(u) : w[n] = u[n]
      /\ \A n \in 1..Len(steps) : w[Len(u) + n] = steps[n]
  OBVIOUS
<1> HIDE DEF w
<1>2. Total(w, <<>>) = Len(u) + Len(steps)
  BY <1>1 DEF Total
<1>3. /\ DOMAIN Line(w, <<>>) = 1..Len(u) + Len(steps)
      /\ \A n \in 1..Len(w) : Line(w, <<>>)[n] = w[n]
  <2>1. ASSUME NEW r0 \in Seq(Steps)
        PROVE  /\ DOMAIN Line(w, r0) = 1..Total(w, r0)
               /\ \A n \in 1..Len(w) : Line(w, r0)[n] = w[n]
    <3>1. w \in Seq(Steps)
      BY <1>1
    <3> QED
      BY <3>1, LineFacts
  <2>2. <<>> \in Seq(Steps)
    OBVIOUS
  <2> QED
    BY <1>2, <2>1, <2>2
<1>4. ASSUME NEW n \in 1..Len(u)
      PROVE  n \in DOMAIN Line(u, r) /\ Line(w, <<>>)[n] = Line(u, r)[n]
  <2>1. n \in 1..Len(w)
    BY <1>1
  <2>2. Line(w, <<>>)[n] = u[n]
    BY <1>1, <1>3, <2>1
  <2>3. n \in DOMAIN Line(u, r) /\ Line(u, r)[n] = u[n]
    BY LineFacts
  <2> QED
    BY <2>2, <2>3
<1>5. ASSUME NEW n \in 1..Len(steps)
      PROVE  Line(w, <<>>)[Len(u) + n] = steps[n]
  <2>1. Len(u) + n \in 1..Len(w)
    BY <1>1
  <2> QED
    BY <1>1, <1>3, <2>1
<1> QED
  BY <1>1, <1>3, <1>4, <1>5 DEF w

-----------------------------------------------------------------------------
(* What a document contains.                                               *)

LEMMA HistoryFacts ==
  ASSUME HistoryTypes, NEW d \in Documents
  PROVE  /\ undo[d] \in Seq(Steps) /\ redo[d] \in Seq(Steps)
         /\ History(d) = Line(undo[d], redo[d])
  BY DEF HistoryTypes, History

LEMMA StepType ==
  ASSUME NEW label \in Traces \cup {None}, NEW adds \in SUBSET Objects,
         NEW drops \in SUBSET Objects, NEW changes \in SUBSET Objects
  PROVE  /\ Step(label, adds, drops, changes) \in Steps
         /\ Step(label, adds, drops, changes).label = label
         /\ Step(label, adds, drops, changes).adds = adds
         /\ Step(label, adds, drops, changes).drops = drops
  BY DEF Step, Steps

\* What is present was made by a batch that has run.
LEMMA PresentOwned ==
  ASSUME ProofInv, NEW d \in Documents, NEW o, Present(d, o)
  PROVE  o \in used \X Items
<1>1. PICK i \in DOMAIN undo[d] : o \in undo[d][i].adds
  BY DEF Present
<1>2. undo[d] \in Seq(Steps) /\ redo[d] \in Seq(Steps) /\ i \in 1..Len(undo[d])
  BY <1>1, HistoryFacts DEF ProofInv
<1>3. i \in DOMAIN History(d) /\ History(d)[i] = undo[d][i]
  BY <1>2, LineFacts DEF History
<1> QED
  BY <1>1, <1>3 DEF ProofInv, Owned

\* Steps of a batch t under its label or none: what they add is the batch's own.
StepsOf(t, steps) ==
  /\ steps \in Seq(Steps)
  /\ \A n \in 1..Len(steps) :
       /\ steps[n].label \in {t, None}
       /\ steps[n].adds \subseteq {t} \X Items
       /\ steps[n].drops = {}

\* How new steps change the history of a document.
LEMMA HistoryGrows ==
  ASSUME HistoryTypes, NEW d \in Documents, NEW steps \in Seq(Steps), Does(d, steps)
  PROVE  /\ undo' \in [Documents -> Seq(Steps)] /\ redo' \in [Documents -> Seq(Steps)]
         /\ \A e \in Documents \ {d} : History(e)' = History(e)
         /\ Len(undo[d]) \in Nat
         /\ DOMAIN History(d)' = 1..Len(undo[d]) + Len(steps)
         /\ \A n \in 1..Len(undo[d]) :
              n \in DOMAIN History(d) /\ History(d)'[n] = History(d)[n]
         /\ \A n \in 1..Len(steps) : History(d)'[Len(undo[d]) + n] = steps[n]
         /\ \A n \in DOMAIN History(d)' :
              \/ n \in 1..Len(undo[d])
              \/ n - Len(undo[d]) \in 1..Len(steps) /\ History(d)'[n] = steps[n - Len(undo[d])]
<1>1. undo' = [undo EXCEPT ![d] = @ \o steps] /\ redo' = [redo EXCEPT ![d] = <<>>]
  BY DEF Does
<1>2. undo \in [Documents -> Seq(Steps)] /\ redo \in [Documents -> Seq(Steps)]
  BY DEF HistoryTypes
<1>3. /\ undo[d] \o steps \in Seq(Steps)
      /\ DOMAIN Line(undo[d] \o steps, <<>>) = 1..Len(undo[d]) + Len(steps)
      /\ \A n \in 1..Len(undo[d]) :
           n \in DOMAIN History(d) /\ Line(undo[d] \o steps, <<>>)[n] = History(d)[n]
      /\ \A n \in 1..Len(steps) : Line(undo[d] \o steps, <<>>)[Len(undo[d]) + n] = steps[n]
  BY <1>2, LineGrows DEF History
<1>4. undo' \in [Documents -> Seq(Steps)] /\ redo' \in [Documents -> Seq(Steps)]
  <2>1. <<>> \in Seq(Steps)
    OBVIOUS
  <2> QED
    BY <1>1, <1>2, <1>3, <2>1
<1>5. History(d)' = Line(undo[d] \o steps, <<>>)
  BY <1>1, <1>2 DEF History
<1>6. \A e \in Documents \ {d} : History(e)' = History(e)
  BY <1>1, <1>2 DEF History
<1> DEFINE len == Len(undo[d])
<1>7. len \in Nat /\ Len(steps) \in Nat
  BY <1>2
<1>8. PICK h : h = Line(undo[d] \o steps, <<>>)
  OBVIOUS
<1>9. PICK g : g = History(d)
  OBVIOUS
<1>10. /\ DOMAIN h = 1..len + Len(steps)
       /\ \A n \in 1..len : n \in DOMAIN g /\ h[n] = g[n]
       /\ \A n \in 1..Len(steps) : h[len + n] = steps[n]
  BY <1>3, <1>8, <1>9
<1>11. \A n \in DOMAIN h : n \in 1..len \/ (n - len \in 1..Len(steps) /\ h[n] = steps[n - len])
  <2>1. ASSUME NEW n \in DOMAIN h, n \notin 1..len
        PROVE  n - len \in 1..Len(steps) /\ h[n] = steps[n - len]
    <3>1. n - len \in 1..Len(steps) /\ len + (n - len) = n
      BY <1>7, <1>10, <2>1
    <3> QED
      BY <1>10, <3>1
  <2> QED
    BY <2>1
<1> QED
  BY <1>4, <1>5, <1>6, <1>7, <1>8, <1>9, <1>10, <1>11

\* New steps keep the histories owned, and those of earlier batches grounded.
LEMMA DoesKeeps ==
  ASSUME ProofInv, NEW d \in Documents, NEW steps \in Seq(Steps), Does(d, steps),
         NEW traces, used \subseteq traces, traces \subseteq Traces,
         \A n \in 1..Len(steps) :
           /\ steps[n].label \in traces \cup {None}
           /\ steps[n].adds \subseteq traces \X Items
           /\ steps[n].drops \subseteq traces \X Items
  PROVE  /\ undo' \in [Documents -> Seq(Steps)] /\ redo' \in [Documents -> Seq(Steps)]
         /\ \A e \in Documents : Owned(History(e)', traces)
         /\ \A t : /\ \A n \in 1..Len(steps) : steps[n].label # t
                   /\ \A e \in Documents : Grounded(History(e), t)
                   => \A e \in Documents : Grounded(History(e)', t)
<1>1. /\ undo' \in [Documents -> Seq(Steps)] /\ redo' \in [Documents -> Seq(Steps)]
      /\ \A e \in Documents \ {d} : History(e)' = History(e)
  BY HistoryGrows DEF ProofInv
<1> DEFINE len == Len(undo[d])
<1>2. PICK h : h = History(d)'
  OBVIOUS
<1>3. /\ len \in Nat
      /\ DOMAIN h = 1..len + Len(steps)
      /\ \A n \in 1..len : n \in DOMAIN History(d) /\ h[n] = History(d)[n]
      /\ \A n \in 1..Len(steps) : h[len + n] = steps[n]
      /\ \A n \in DOMAIN h : n \in 1..len \/ (n - len \in 1..Len(steps) /\ h[n] = steps[n - len])
  BY <1>2, HistoryGrows DEF ProofInv
<1> HIDE DEF len
<1>9. PICK g : g = History(d)
  OBVIOUS
<1>12. Owned(g, used)
  BY <1>9 DEF ProofInv
<1>13. Owned(h, traces)
  <2>1. ASSUME NEW n \in DOMAIN h
        PROVE  /\ h[n].label \in traces \cup {None}
               /\ h[n].adds \subseteq traces \X Items
               /\ h[n].drops \subseteq traces \X Items
    <3>1. CASE n \in 1..len
      BY <1>3, <1>9, <1>12, <3>1 DEF Owned
    <3>2. CASE n \notin 1..len
      BY <1>3, <3>2
    <3> QED
      BY <3>1, <3>2
  <2> QED
    BY <2>1 DEF Owned
<1>14. ASSUME NEW t, \A n \in 1..Len(steps) : steps[n].label # t, Grounded(g, t)
       PROVE  Grounded(h, t)
  <2>1. ASSUME NEW n \in DOMAIN h, h[n].label = t
        PROVE  /\ \E m \in 1..n - 1 : Shape(t) \in h[m].adds
               /\ \A m \in 1..n : Shape(t) \notin h[m].drops
    <3>1. n \in 1..len
      BY <1>3, <1>14, <2>1
    <3>2. n \in DOMAIN g /\ g[n].label = t
      BY <1>3, <1>9, <2>1, <3>1
    <3>3. /\ \E m \in 1..n - 1 : Shape(t) \in g[m].adds
          /\ \A m \in 1..n : Shape(t) \notin g[m].drops
      BY <1>14, <3>2 DEF Grounded
    <3>4. \A m \in 1..n : m \in 1..len
      BY <1>3, <3>1
    <3>5. \A m \in 1..n - 1 : m \in 1..n
      BY <1>3, <3>1
    <3> QED
      BY <1>3, <1>9, <3>3, <3>4, <3>5
  <2> QED
    BY <2>1 DEF Grounded
<1>15. \A e \in Documents : Owned(History(e)', traces)
  <2>1. ASSUME NEW e \in Documents \ {d}
        PROVE  Owned(History(e)', traces)
    <3>1. Owned(History(e), used)
      BY DEF ProofInv
    <3>2. Owned(History(e), traces)
      BY <3>1 DEF Owned
    <3> QED
      BY <1>1, <3>2
  <2> QED
    BY <1>2, <1>13, <2>1
<1>16. ASSUME NEW t, \A n \in 1..Len(steps) : steps[n].label # t,
              \A e \in Documents : Grounded(History(e), t)
       PROVE  \A e \in Documents : Grounded(History(e)', t)
  BY <1>1, <1>2, <1>9, <1>14, <1>16
<1> QED
  BY <1>1, <1>15, <1>16

-----------------------------------------------------------------------------
(* A batch.                                                                *)

LEMMA OperationFacts ==
  ASSUME NEW t \in Traces, NEW approved \in BOOLEAN
  PROVE  /\ StepsOf(t, Operations(t, approved))
         /\ \A n \in 1..Len(Operations(t, approved)) : Operations(t, approved)[n].label = None
         /\ Len(Operations(t, approved)) = IF approved THEN 4 ELSE 1
         /\ Shape(t) \in Operations(t, approved)[1].adds
<1> DEFINE a == Step(None, {t} \X {"shape"}, {}, {})
           b == Step(None, {t} \X {"textFrame"}, {}, {})
           c == Step(None, {}, {}, {<<t, "textFrame">>})
           g == Step(None, {<<t, "group">>}, {}, {<<t, "shape">>})
<1>1. /\ a \in Steps /\ a.label = None /\ a.adds = {t} \X {"shape"} /\ a.drops = {}
      /\ b \in Steps /\ b.label = None /\ b.adds = {t} \X {"textFrame"} /\ b.drops = {}
      /\ c \in Steps /\ c.label = None /\ c.adds = {} /\ c.drops = {}
      /\ g \in Steps /\ g.label = None /\ g.adds = {<<t, "group">>} /\ g.drops = {}
  <2>1. /\ {t} \X {"shape"} \in SUBSET Objects /\ {t} \X {"textFrame"} \in SUBSET Objects
        /\ {<<t, "group">>} \in SUBSET Objects /\ {<<t, "shape">>} \in SUBSET Objects
        /\ {<<t, "textFrame">>} \in SUBSET Objects /\ {} \in SUBSET Objects
        /\ None \in Traces \cup {None} /\ t \in Traces \cup {None}
    BY DEF Objects, Items
  <2>2. a \in Steps /\ a.label = None /\ a.adds = {t} \X {"shape"} /\ a.drops = {}
    BY <2>1, StepType, SMTT(30)
  <2>3. b \in Steps /\ b.label = None /\ b.adds = {t} \X {"textFrame"} /\ b.drops = {}
    BY <2>1, StepType, SMTT(30)
  <2>4. c \in Steps /\ c.label = None /\ c.adds = {} /\ c.drops = {}
    BY <2>1, StepType, SMTT(30)
  <2>5. g \in Steps /\ g.label = None /\ g.adds = {<<t, "group">>} /\ g.drops = {}
    BY <2>1, StepType, SMTT(30)
  <2> QED
    BY <2>2, <2>3, <2>4, <2>5
<1>2. Operations(t, approved) = IF approved THEN <<a, b, c, g>> ELSE <<a>>
  BY DEF Operations
<1> HIDE DEF a, b, c, g
<1>3. Shape(t) \in a.adds
  BY <1>1 DEF Shape
<1>4. /\ a.adds \subseteq {t} \X Items /\ b.adds \subseteq {t} \X Items
      /\ c.adds \subseteq {t} \X Items /\ g.adds \subseteq {t} \X Items
  BY <1>1 DEF Items
<1>5. CASE approved
  <2>1. /\ <<a, b, c, g>> \in Seq(Steps) /\ Len(<<a, b, c, g>>) = 4
        /\ \A n \in 1..4 : <<a, b, c, g>>[n] \in {a, b, c, g}
        /\ <<a, b, c, g>>[1] = a
    BY <1>1
  <2> QED
    BY <1>1, <1>2, <1>3, <1>4, <1>5, <2>1 DEF StepsOf
<1>6. CASE ~approved
  <2>1. /\ <<a>> \in Seq(Steps) /\ Len(<<a>>) = 1
        /\ \A n \in 1..1 : <<a>>[n] = a
    BY <1>1
  <2> QED
    BY <1>1, <1>2, <1>3, <1>4, <1>6, <2>1 DEF StepsOf
<1> QED
  BY <1>5, <1>6

Labelled(t, steps, k) == [steps EXCEPT ![k].label = t]

\* A label changes neither what a step adds nor what it removes.
LEMMA LabelledFacts ==
  ASSUME NEW t \in Traces, NEW steps, StepsOf(t, steps), NEW k \in 1..Len(steps),
         \A n \in 1..Len(steps) : steps[n].label = None
  PROVE  /\ StepsOf(t, Labelled(t, steps, k)) /\ Len(Labelled(t, steps, k)) = Len(steps)
         /\ \A n \in 1..Len(steps) :
              /\ Labelled(t, steps, k)[n].label = (IF n = k THEN t ELSE None)
              /\ Labelled(t, steps, k)[n].adds = steps[n].adds
<1> DEFINE s == [steps[k] EXCEPT !.label = t]
           r == Labelled(t, steps, k)
<1>1. steps \in Seq(Steps) /\ steps[k] \in Steps
  BY DEF StepsOf
<1>2. /\ s \in Steps /\ s.label = t /\ s.adds = steps[k].adds /\ s.drops = steps[k].drops
  BY <1>1 DEF Steps
<1>3. r = [steps EXCEPT ![k] = s]
  BY DEF Labelled
<1> HIDE DEF s, r
<1>4. /\ r \in Seq(Steps) /\ Len(r) = Len(steps)
      /\ \A n \in 1..Len(steps) : r[n] = IF n = k THEN s ELSE steps[n]
  BY <1>1, <1>2, <1>3
<1>5. StepsOf(t, r)
  BY <1>2, <1>4 DEF StepsOf
<1>6. \A n \in 1..Len(steps) : r[n].label = (IF n = k THEN t ELSE None)
                               /\ r[n].adds = steps[n].adds
  BY <1>2, <1>4
<1> QED
  BY <1>4, <1>5, <1>6 DEF r

LEMMA RecordedFacts ==
  ASSUME HistoryTypes, NEW t \in Traces, NEW steps, StepsOf(t, steps), Len(steps) >= 1,
         \A n \in 1..Len(steps) : steps[n].label = None
  PROVE  /\ StepsOf(t, Recorded(t, steps))
         /\ host = "last" =>
              /\ Len(Recorded(t, steps)) = Len(steps)
              /\ \A n \in 1..Len(steps) : Recorded(t, steps)[n].label = t => n = Len(steps)
              /\ \A n \in 1..Len(steps) : Recorded(t, steps)[n].adds = steps[n].adds
         /\ host = "first" /\ Len(steps) > 1 => TopLabel(Recorded(t, steps)) = None
<1>0. steps \in Seq(Steps) /\ Len(steps) \in Nat \ {0} /\ t # None
  BY UndoAssumption DEF StepsOf, UndoAssumption
<1>2. CASE host = "last"
  <2>1. Recorded(t, steps) = Labelled(t, steps, Len(steps))
    BY <1>2 DEF Recorded, Labelled
  <2>2. Len(steps) \in 1..Len(steps)
    BY <1>0
  <2>3. /\ StepsOf(t, Recorded(t, steps)) /\ Len(Recorded(t, steps)) = Len(steps)
        /\ \A n \in 1..Len(steps) :
             /\ Recorded(t, steps)[n].label = (IF n = Len(steps) THEN t ELSE None)
             /\ Recorded(t, steps)[n].adds = steps[n].adds
    BY <2>1, <2>2, LabelledFacts
  <2> QED
    BY <1>0, <1>2, <2>3
<1>3. CASE host = "first"
  <2>1. Recorded(t, steps) = Labelled(t, steps, 1)
    BY <1>3 DEF Recorded, Labelled
  <2>2. 1 \in 1..Len(steps) /\ Len(steps) \in 1..Len(steps)
    BY <1>0
  <2>3. /\ StepsOf(t, Recorded(t, steps)) /\ Len(Recorded(t, steps)) = Len(steps)
        /\ \A n \in 1..Len(steps) :
             Recorded(t, steps)[n].label = (IF n = 1 THEN t ELSE None)
    BY <2>1, <2>2, LabelledFacts
  <2>4. Len(steps) > 1 => TopLabel(Recorded(t, steps)) = None
    <3>1. SUFFICES ASSUME Len(steps) > 1
                   PROVE  TopLabel(Recorded(t, steps)) = None
      OBVIOUS
    <3>2. Recorded(t, steps) # <<>> /\ Last(Recorded(t, steps)).label = None
      <4>1. PICK r : r = Recorded(t, steps)
        OBVIOUS
      <4>2. r \in Seq(Steps) /\ Len(r) = Len(steps) /\ r[Len(steps)].label = None
        BY <1>0, <2>2, <2>3, <3>1, <4>1 DEF StepsOf
      <4> QED
        BY <1>0, <4>1, <4>2 DEF Last
    <3> QED
      BY <3>2 DEF TopLabel
  <2> QED
    BY <1>3, <2>3, <2>4
<1>4. CASE host = "whole"
  <2> DEFINE adds == UNION {steps[i].adds : i \in DOMAIN steps}
             changes == UNION {steps[i].changes : i \in DOMAIN steps}
             whole == Step(t, adds, {}, changes)
  <2>1. \A i \in DOMAIN steps : steps[i] \in Steps /\ steps[i].adds \subseteq {t} \X Items
    BY <1>0 DEF StepsOf
  <2>2. adds \subseteq {t} \X Items /\ adds \in SUBSET Objects /\ changes \in SUBSET Objects
    BY <2>1 DEF Steps, Objects
  <2>3. Recorded(t, steps) = <<whole>>
    BY <1>4 DEF Recorded
  <2>4. whole \in Steps /\ whole.label = t /\ whole.adds = adds /\ whole.drops = {}
    BY <2>2, StepType
  <2> HIDE DEF whole, adds
  <2>5. <<whole>> \in Seq(Steps) /\ Len(<<whole>>) = 1 /\ \A n \in 1..1 : <<whole>>[n] = whole
    BY <2>4
  <2> QED
    BY <1>4, <2>2, <2>3, <2>4, <2>5 DEF StepsOf
<1>5. CASE host = "each"
  <2>1. PICK r : r = [n \in DOMAIN steps |-> [steps[n] EXCEPT !.label = t]]
    OBVIOUS
  <2>2. Recorded(t, steps) = r
    BY <1>5, <2>1 DEF Recorded
  <2>3. ASSUME NEW n \in 1..Len(steps)
        PROVE  /\ r[n] \in Steps /\ r[n].label = t
               /\ r[n].adds = steps[n].adds /\ r[n].drops = steps[n].drops
    <3>1. steps[n] \in Steps /\ n \in DOMAIN steps
      BY <1>0
    <3>2. r[n] = [steps[n] EXCEPT !.label = t]
      BY <2>1, <3>1
    <3> QED
      BY <3>1, <3>2 DEF Steps
  <2>4. /\ DOMAIN r = 1..Len(steps) /\ Len(steps) \in Nat
        /\ \A n \in 1..Len(steps) : r[n] \in Steps
    <3>1. DOMAIN r = DOMAIN steps
      BY <2>1
    <3>2. DOMAIN steps = 1..Len(steps) /\ Len(steps) \in Nat
      BY <1>0
    <3> QED
      BY <2>3, <3>1, <3>2
  <2>5. r \in Seq(Steps) /\ Len(r) = Len(steps)
    <3>1. r = [n \in 1..Len(steps) |-> r[n]]
      BY <2>1, <2>4
    <3>2. r \in [1..Len(steps) -> Steps]
      BY <2>4, <3>1
    <3> QED
      BY <2>4, <3>2
  <2> HIDE DEF Recorded
  <2>6. StepsOf(t, r)
    BY <2>3, <2>5 DEF StepsOf
  <2> QED
    BY <1>5, <2>2, <2>6
<1> QED
  BY <1>2, <1>3, <1>4, <1>5 DEF HistoryTypes, Hosts
LEMMA InitProof ==
  ASSUME Init
  PROVE  ProofInv
<1>1. <<>> \in Seq(Steps)
  OBVIOUS
<1>2. HistoryTypes /\ ProofIsSound
  BY <1>1 DEF Init, HistoryTypes, ProofIsSound
<1>3. ASSUME NEW d \in Documents
      PROVE  Owned(History(d), used)
  <2>1. undo[d] = <<>> /\ redo[d] = <<>>
    BY DEF Init
  <2>2. PICK u \in Seq(Steps) : u = <<>>
    BY <1>1
  <2>3. Total(u, u) = 0
    BY <2>2 DEF Total
  <2>4. DOMAIN Line(u, u) = 1..Total(u, u)
    BY LineFacts
  <2>5. DOMAIN Line(u, u) = {}
    BY <2>3, <2>4
  <2>6. History(d) = Line(u, u)
    BY <2>1, <2>2 DEF History
  <2> QED
    BY <2>5, <2>6 DEF Owned
<1>4. CandidateHolds
  BY DEF Init, NoCandidate, CandidateHolds
<1> QED
  BY <1>2, <1>3, <1>4 DEF ProofInv

\* A label that is not of an owner is nowhere.
LEMMA FreshGrounded ==
  ASSUME NEW h, NEW t, Owned(h, used), t \notin used, t # None
  PROVE  Grounded(h, t)
  BY DEF Owned, Grounded

\* Steps of a new batch, complete or not.
LEMMA BatchKeeps ==
  ASSUME ProofInv, NEW d \in Documents, NEW t \in Traces \ used, NEW steps,
         StepsOf(t, steps), Len(steps) >= 1, \A n \in 1..Len(steps) : steps[n].label = None,
         Does(d, Recorded(t, steps)), used' = used \cup {t},
         UNCHANGED <<host, activeDoc, probed>>
  PROVE  /\ HistoryTypes'
         /\ \A e \in Documents : Owned(History(e), used)'
         /\ \A old \in used : (\A e \in Documents : Grounded(History(e), old))
                                => \A e \in Documents : Grounded(History(e)', old)
         /\ ProofIsSound'
<1> DEFINE r == Recorded(t, steps)
<1>1. StepsOf(t, r)
  BY RecordedFacts DEF ProofInv
<1>2. used' \subseteq Traces /\ used \subseteq used' /\ t \in used' /\ None \notin Traces
  BY UndoAssumption DEF ProofInv, HistoryTypes, UndoAssumption
<1> HIDE DEF r
<1>3. /\ r \in Seq(Steps)
      /\ \A n \in 1..Len(r) : /\ r[n].label \in used' \cup {None}
                              /\ r[n].adds \subseteq used' \X Items
                              /\ r[n].drops \subseteq used' \X Items
  BY <1>1, <1>2 DEF StepsOf
<1>4. Does(d, r)
  BY DEF r
<1>5. /\ undo' \in [Documents -> Seq(Steps)] /\ redo' \in [Documents -> Seq(Steps)]
      /\ \A e \in Documents : Owned(History(e)', used')
      /\ \A old : /\ \A n \in 1..Len(r) : r[n].label # old
                  /\ \A e \in Documents : Grounded(History(e), old)
                  => \A e \in Documents : Grounded(History(e)', old)
  BY <1>2, <1>3, <1>4, DoesKeeps
<1>6. \A old \in used : \A n \in 1..Len(r) : r[n].label # old
  BY <1>1, <1>2 DEF StepsOf, ProofInv, HistoryTypes
<1>7. HistoryTypes'
  BY <1>2, <1>5 DEF ProofInv, HistoryTypes
<1>8. ProofIsSound'
  BY DEF ProofInv, ProofIsSound
<1> QED
  BY <1>5, <1>6, <1>7, <1>8

\* On a host that labels the last of many steps, a complete batch is grounded.
LEMMA BatchGrounded ==
  ASSUME ProofInv, NEW d \in Documents, NEW t \in Traces \ used,
         host = "last", Does(d, Recorded(t, Operations(t, TRUE)))
  PROVE  \A e \in Documents : Grounded(History(e)', t)
<1> DEFINE s == Operations(t, TRUE)
           r == Recorded(t, s)
<1>1. /\ StepsOf(t, s) /\ Len(s) = 4 /\ Shape(t) \in s[1].adds
      /\ \A n \in 1..Len(s) : s[n].label = None
  BY OperationFacts
<1>2. t # None
  BY UndoAssumption DEF UndoAssumption
<1> HIDE DEF s
<1>3. /\ StepsOf(t, r) /\ Len(r) = 4
      /\ \A n \in 1..4 : r[n].label = t => n = 4
      /\ Shape(t) \in r[1].adds
  <2>1. /\ StepsOf(t, r) /\ Len(r) = Len(s)
        /\ \A n \in 1..Len(s) : r[n].label = t => n = Len(s)
        /\ \A n \in 1..Len(s) : r[n].adds = s[n].adds
    <3>1. HistoryTypes /\ Len(s) >= 1
      BY <1>1 DEF ProofInv
    <3> QED
      BY <1>1, <3>1, RecordedFacts
  <2> QED
    BY <1>1, <2>1
<1>4. Does(d, r)
  BY DEF s
<1> HIDE DEF r
<1>5. r \in Seq(Steps) /\ \A n \in 1..4 : r[n].drops = {}
  BY <1>3 DEF StepsOf
<1> DEFINE len == Len(undo[d])
<1>6. PICK h : h = History(d)'
  OBVIOUS
<1>7. PICK g : g = History(d)
  OBVIOUS
<1>8. /\ len \in Nat
      /\ DOMAIN h = 1..len + 4
      /\ \A n \in 1..len : n \in DOMAIN g /\ h[n] = g[n]
      /\ \A n \in 1..4 : h[len + n] = r[n]
      /\ \A n \in DOMAIN h : n \in 1..len \/ (n - len \in 1..4 /\ h[n] = r[n - len])
      /\ \A e \in Documents \ {d} : History(e)' = History(e)
  <2>1. HistoryTypes /\ Len(r) = 4
    BY <1>3 DEF ProofInv
  <2>2. /\ Len(undo[d]) \in Nat
        /\ DOMAIN History(d)' = 1..Len(undo[d]) + Len(r)
        /\ \A n \in 1..Len(undo[d]) :
             n \in DOMAIN History(d) /\ History(d)'[n] = History(d)[n]
        /\ \A n \in 1..Len(r) : History(d)'[Len(undo[d]) + n] = r[n]
        /\ \A n \in DOMAIN History(d)' :
             \/ n \in 1..Len(undo[d])
             \/ n - Len(undo[d]) \in 1..Len(r) /\ History(d)'[n] = r[n - Len(undo[d])]
        /\ \A e \in Documents \ {d} : History(e)' = History(e)
    BY <1>4, <1>5, <2>1, HistoryGrows
  <2> QED
    BY <1>6, <1>7, <2>1, <2>2
<1>9. Owned(g, used)
  BY <1>7 DEF ProofInv
<1> HIDE DEF len
<1>10. \A n \in DOMAIN h : Shape(t) \notin h[n].drops
  <2>1. ASSUME NEW n \in 1..len
        PROVE  Shape(t) \notin h[n].drops
    BY <1>8, <1>9, <2>1 DEF Owned, Shape
  <2> QED
    BY <1>5, <1>8, <2>1
<1>11. ASSUME NEW n \in DOMAIN h, h[n].label = t
       PROVE  n = len + 4
  <2>1. n \notin 1..len
    BY <1>2, <1>8, <1>9, <1>11 DEF Owned
  <2>2. n - len \in 1..4 /\ r[n - len].label = t
    BY <1>8, <1>11, <2>1
  <2>3. n - len = 4
    BY <1>3, <2>2
  <2> QED
    BY <1>8, <2>2, <2>3
<1>12. Grounded(h, t)
  <2>1. ASSUME NEW n \in DOMAIN h, h[n].label = t
        PROVE  /\ \E m \in 1..n - 1 : Shape(t) \in h[m].adds
               /\ \A m \in 1..n : Shape(t) \notin h[m].drops
    <3>1. n = len + 4
      BY <1>11, <2>1
    <3>2. len + 1 \in 1..n - 1 /\ Shape(t) \in h[len + 1].adds
      BY <1>3, <1>8, <3>1
    <3>3. \A m \in 1..n : m \in DOMAIN h
      BY <1>8, <3>1
    <3> QED
      BY <1>10, <3>2, <3>3
  <2> QED
    BY <2>1 DEF Grounded
<1>13. \A e \in Documents \ {d} : Grounded(History(e)', t)
  <2>1. \A e \in Documents \ {d} : Grounded(History(e), t)
    BY <1>2, FreshGrounded DEF ProofInv
  <2> QED
    BY <1>8, <2>1
<1> QED
  BY <1>6, <1>12, <1>13

LEMMA ApplyKeeps ==
  ASSUME ProofInv, NEW d \in Documents, NEW t \in Traces, NEW approved \in BOOLEAN,
         Apply(d, t, approved)
  PROVE  ProofInv'
<1> DEFINE s == Operations(t, approved)
           new == [trace |-> t, document |-> d, aliases |-> References(t, s),
                   approved |-> approved]
<1>1. /\ t \in Traces \ used /\ used' = used \cup {t}
      /\ UNCHANGED <<host, activeDoc, probed>>
  BY DEF Apply
<1>2. /\ StepsOf(t, s) /\ Len(s) = (IF approved THEN 4 ELSE 1) /\ Shape(t) \in s[1].adds
      /\ \A n \in 1..Len(s) : s[n].label = None
  BY OperationFacts
<1>3. ASSUME UNCHANGED candidate,
             \A old \in used : (\A e \in Documents : Grounded(History(e), old))
                                 => \A e \in Documents : Grounded(History(e)', old)
      PROVE  CandidateHolds'
  BY <1>1, <1>3 DEF ProofInv, CandidateHolds
<1>4. CASE Does(d, Recorded(t, s)) /\ candidate' = IF ExactUndo(d, t, Recorded(t, s)) THEN new ELSE candidate
  <2> HIDE DEF s
  <2>1. StepsOf(t, s) /\ Len(s) >= 1 /\ \A n \in 1..Len(s) : s[n].label = None
    BY <1>2
  <2>2. /\ HistoryTypes'
        /\ \A e \in Documents : Owned(History(e), used)'
        /\ \A old \in used : (\A e \in Documents : Grounded(History(e), old))
                               => \A e \in Documents : Grounded(History(e)', old)
        /\ ProofIsSound'
    BY <1>1, <1>4, <2>1, BatchKeeps
  <2>3. CandidateHolds'
    <3>1. CASE ~ExactUndo(d, t, Recorded(t, s))
      BY <1>3, <1>4, <2>2, <3>1
    <3>2. CASE ExactUndo(d, t, Recorded(t, s)) /\ ~approved
      <4>1. candidate' = new
        BY <1>4, <3>2
      <4>2. ~candidate'.approved
        BY <3>2, <4>1
      <4> QED
        BY <4>2 DEF CandidateHolds
    <3>3. CASE ExactUndo(d, t, Recorded(t, s)) /\ approved
      <4>1. candidate' = new
        BY <1>4, <3>3
      <4>2. candidate'.trace = t /\ candidate'.aliases = References(t, s)
        BY <4>1
      <4>3. host \in {"whole", "each", "last"}
        <5>1. TopLabel(Recorded(t, s)) = t /\ t # None
          BY <3>3, UndoAssumption DEF ExactUndo, UndoAssumption
        <5>2. Len(s) > 1 /\ HistoryTypes
          BY <1>2, <3>3 DEF ProofInv
        <5>3. host # "first"
          BY <2>1, <5>1, <5>2, RecordedFacts
        <5> QED
          BY <5>2, <5>3 DEF HistoryTypes, Hosts
      <4>4. \E reference \in References(t, s) : reference.object = Shape(t)
        <5>1. 1 \in DOMAIN s /\ Shape(t) \in s[1].adds
          BY <1>2, <2>1 DEF StepsOf
        <5>2. Shape(t) \in UNION {s[i].adds : i \in DOMAIN s}
          BY <5>1
        <5>3. [object |-> Shape(t), version |-> ChangesOf(Shape(t), s)] \in References(t, s)
          BY <5>2 DEF References
        <5> QED
          BY <5>3
      <4>5. host = "last" => \A e \in Documents : Grounded(History(e)', t)
        <5>1. s = Operations(t, TRUE)
          BY <3>3 DEF s
        <5> QED
          BY <1>1, <1>4, <5>1, BatchGrounded
      <4>6. t \in used' /\ host' = host
        BY <1>1
      <4> QED
        BY <4>2, <4>3, <4>4, <4>5, <4>6 DEF CandidateHolds
    <3> QED
      BY <3>1, <3>2, <3>3
  <2> QED
    BY <2>2, <2>3 DEF ProofInv
<1>5. CASE /\ \E n \in 1..Len(s) - 1 : Does(d, Recorded(t, SubSeq(s, 1, n)))
           /\ UNCHANGED candidate
  <2> HIDE DEF s
  <2>1. PICK n \in 1..Len(s) - 1 : Does(d, Recorded(t, SubSeq(s, 1, n)))
    BY <1>5
  <2>2. PICK part : part = SubSeq(s, 1, n)
    OBVIOUS
  <2>3. s \in Seq(Steps) /\ Len(s) \in Nat
    BY <1>2 DEF StepsOf
  <2>4. /\ part \in Seq(Steps) /\ Len(part) = n
        /\ \A k \in 1..n : part[k] = s[k] /\ k \in 1..Len(s)
    BY <2>2, <2>3
  <2>5. StepsOf(t, part) /\ Len(part) >= 1 /\ \A k \in 1..Len(part) : part[k].label = None
    BY <1>2, <2>4 DEF StepsOf
  <2>6. Does(d, Recorded(t, part))
    BY <2>1, <2>2
  <2>7. /\ HistoryTypes'
        /\ \A e \in Documents : Owned(History(e), used)'
        /\ \A old \in used : (\A e \in Documents : Grounded(History(e), old))
                               => \A e \in Documents : Grounded(History(e)', old)
        /\ ProofIsSound'
    BY <1>1, <2>5, <2>6, BatchKeeps
  <2> QED
    BY <1>3, <1>5, <2>7 DEF ProofInv
<1> QED
  BY <1>4, <1>5 DEF Apply

-----------------------------------------------------------------------------
(* The verification.                                                       *)

\* A labelled step on top of what was undone stands behind the shape of its
\* batch, which is therefore still there.
LEMMA GroundedShape ==
  ASSUME HistoryTypes, NEW d \in Documents, NEW t \in Traces,
         TopLabel(redo[d]) = t, Grounded(History(d), t)
  PROVE  Present(d, Shape(t))
<1> DEFINE u == undo[d]
           r == redo[d]
           n == Len(u) + 1
<1>1. u \in Seq(Steps) /\ r \in Seq(Steps) /\ Len(u) \in Nat /\ Len(r) \in Nat
  BY DEF HistoryTypes
<1>2. r # <<>> /\ Last(r).label = t
  BY UndoAssumption DEF TopLabel, UndoAssumption
<1>3. Len(r) >= 1 /\ Last(r) = r[Len(r)]
  BY <1>1, <1>2 DEF Last
<1> HIDE DEF u, r
<1>4. PICK h : h = Line(u, r)
  OBVIOUS
<1>5. /\ DOMAIN h = 1..Total(u, r) /\ Total(u, r) = Len(u) + Len(r)
      /\ \A i \in 1..Len(u) : h[i] = u[i]
      /\ \A i \in 1..Total(u, r) : i > Len(u) => h[i] = r[Total(u, r) + 1 - i]
  BY <1>1, <1>4, LineFacts DEF Total
<1>6. n \in DOMAIN h /\ n > Len(u) /\ Total(u, r) + 1 - n = Len(r)
  BY <1>1, <1>3, <1>5
<1>7. h[n].label = t
  BY <1>2, <1>3, <1>5, <1>6
<1>8. Grounded(h, t)
  BY <1>4 DEF History, u, r
<1>9. /\ \E m \in 1..n - 1 : Shape(t) \in h[m].adds
      /\ \A m \in 1..n : Shape(t) \notin h[m].drops
  BY <1>6, <1>7, <1>8 DEF Grounded
<1>10. PICK m \in 1..n - 1 : Shape(t) \in h[m].adds
  BY <1>9
<1>11. m \in 1..Len(u) /\ DOMAIN u = 1..Len(u)
  BY <1>1
<1>12. Shape(t) \in u[m].adds
  BY <1>5, <1>10, <1>11
<1>13. \A j \in m + 1..Len(u) : Shape(t) \notin u[j].drops
  <2>1. ASSUME NEW j \in m + 1..Len(u)
        PROVE  j \in 1..Len(u) /\ j \in 1..n
    BY <1>1, <1>11
  <2> QED
    BY <1>5, <1>9, <2>1
<1> QED
  BY <1>11, <1>12, <1>13 DEF Present, u

LEMMA VerifyKeeps ==
  ASSUME ProofInv, NEW d \in Documents, NEW t \in Traces, Verify(d, t)
  PROVE  ProofInv'
<1>1. UNCHANGED <<host, undo, redo, activeDoc, used, candidate>>
  BY DEF Verify
<1>2. probed' \in BOOLEAN
  BY DEF Verify
<1>3. HistoryTypes' /\ CandidateHolds' /\ \A e \in Documents : Owned(History(e), used)'
  BY <1>1, <1>2 DEF ProofInv, HistoryTypes, CandidateHolds, History
<1>4. ASSUME candidate.trace = t, candidate.approved, ExactRedo(d, t), AllMissing(d, candidate.aliases)
      PROVE  host \in {"whole", "each"}
  <2>1. SUFFICES ASSUME host = "last" PROVE FALSE
    BY <1>4 DEF ProofInv, CandidateHolds
  <2>2. Grounded(History(d), t)
    BY <1>4, <2>1 DEF ProofInv, CandidateHolds
  <2>3. Present(d, Shape(t))
    BY <1>4, <2>2, GroundedShape DEF ProofInv, ExactRedo
  <2>4. PICK reference \in candidate.aliases : reference.object = Shape(t)
    BY <1>4 DEF ProofInv, CandidateHolds
  <2>5. Missing(d, reference) /\ Present(d, reference.object)
    BY <1>4, <2>3, <2>4 DEF AllMissing
  <2>6. Resolution(d, reference) \in {"STALE_OBJECT", "found"}
    BY <2>5 DEF Resolution
  <2> QED
    BY <2>5, <2>6 DEF Missing
<1>5. ProofIsSound'
  BY <1>1, <1>4 DEF ProofInv, ProofIsSound, Verify
<1> QED
  BY <1>3, <1>5 DEF ProofInv

-----------------------------------------------------------------------------
(* People.                                                                 *)

LEMMA EditKeeps ==
  ASSUME ProofInv, NEW d \in Documents, PersonEdits(d)
  PROVE  ProofInv'
<1>1. UNCHANGED <<host, activeDoc, used, candidate, probed>>
  BY DEF PersonEdits
<1>2. PICK o \in Objects : /\ Present(d, o)
                           /\ \/ Does(d, <<Step(None, {}, {o}, {})>>)
                              \/ Does(d, <<Step(None, {}, {}, {o})>>)
  BY DEF PersonEdits
<1>3. o \in used \X Items
  BY <1>2, PresentOwned
<1>4. PICK step \in Steps : /\ step.label = None /\ step.adds = {} /\ step.drops \subseteq {o}
                            /\ Does(d, <<step>>)
  <2>1. {} \in SUBSET Objects /\ {o} \in SUBSET Objects
    OBVIOUS
  <2> QED
    BY <1>2, <2>1, StepType
<1>5. <<step>> \in Seq(Steps) /\ Len(<<step>>) = 1 /\ \A n \in 1..1 : <<step>>[n] = step
  OBVIOUS
<1>6. used \subseteq Traces /\ None \notin Traces
  BY UndoAssumption DEF ProofInv, HistoryTypes, UndoAssumption
<1>7. PICK steps : steps = <<step>>
  OBVIOUS
<1>8. /\ steps \in Seq(Steps) /\ Does(d, steps)
      /\ \A n \in 1..Len(steps) :
           /\ steps[n].label \in used \cup {None}
           /\ steps[n].adds \subseteq used \X Items
           /\ steps[n].drops \subseteq used \X Items
      /\ \A t \in Traces : \A n \in 1..Len(steps) : steps[n].label # t
  BY <1>3, <1>4, <1>5, <1>6, <1>7
<1>9. /\ undo' \in [Documents -> Seq(Steps)] /\ redo' \in [Documents -> Seq(Steps)]
      /\ \A e \in Documents : Owned(History(e)', used)
      /\ \A t : /\ \A n \in 1..Len(steps) : steps[n].label # t
                /\ \A e \in Documents : Grounded(History(e), t)
                => \A e \in Documents : Grounded(History(e)', t)
  BY <1>6, <1>8, DoesKeeps
<1>10. HistoryTypes' /\ ProofIsSound'
  BY <1>1, <1>9 DEF ProofInv, HistoryTypes, ProofIsSound
<1>11. \A e \in Documents : Owned(History(e), used)'
  BY <1>1, <1>9
<1>12. CandidateHolds'
  BY <1>1, <1>6, <1>8, <1>9 DEF ProofInv, CandidateHolds
<1> QED
  BY <1>10, <1>11, <1>12 DEF ProofInv

\* What leaves the histories and the candidate as they are.
LEMMA MoveKeeps ==
  ASSUME ProofInv, undo' \in [Documents -> Seq(Steps)], redo' \in [Documents -> Seq(Steps)],
         activeDoc' \in Documents,
         \A d \in Documents : History(d)' = History(d), UNCHANGED <<host, used, candidate, probed>>
  PROVE  ProofInv'
<1>1. HistoryTypes' /\ ProofIsSound'
  BY DEF ProofInv, HistoryTypes, ProofIsSound
<1>2. \A e \in Documents : Owned(History(e), used)'
  BY DEF ProofInv
<1>3. CandidateHolds'
  BY DEF ProofInv, CandidateHolds
<1> QED
  BY <1>1, <1>2, <1>3 DEF ProofInv

LEMMA UndoKeeps ==
  ASSUME ProofInv, PersonUndoes
  PROVE  ProofInv'
<1> DEFINE a == activeDoc
<1>1. /\ undo \in [Documents -> Seq(Steps)] /\ redo \in [Documents -> Seq(Steps)]
      /\ a \in Documents
  BY DEF ProofInv, HistoryTypes
<1>2. /\ Front(undo[a]) \in Seq(Steps) /\ Append(redo[a], Last(undo[a])) \in Seq(Steps)
      /\ Line(Front(undo[a]), Append(redo[a], Last(undo[a]))) = Line(undo[a], redo[a])
  BY <1>1, LineMoves DEF PersonUndoes
<1>3. /\ undo' = [undo EXCEPT ![a] = Front(undo[a])]
      /\ redo' = [redo EXCEPT ![a] = Append(redo[a], Last(undo[a]))]
      /\ UNCHANGED <<host, activeDoc, used, candidate, probed>>
  BY DEF PersonUndoes
<1> HIDE DEF a
<1>4. undo' \in [Documents -> Seq(Steps)] /\ redo' \in [Documents -> Seq(Steps)]
  BY <1>1, <1>2, <1>3
<1>5. \A d \in Documents : Line(undo'[d], redo'[d]) = Line(undo[d], redo[d])
  BY <1>1, <1>2, <1>3
<1>6. \A d \in Documents : History(d)' = History(d)
  BY <1>5 DEF History
<1> QED
  BY <1>1, <1>3, <1>4, <1>6, MoveKeeps DEF a

LEMMA RedoKeeps ==
  ASSUME ProofInv, PersonRedoes
  PROVE  ProofInv'
<1> DEFINE a == activeDoc
           u == Append(undo[a], Last(redo[a]))
           r == Front(redo[a])
<1>1. /\ undo \in [Documents -> Seq(Steps)] /\ redo \in [Documents -> Seq(Steps)]
      /\ a \in Documents /\ redo[a] # <<>>
  BY DEF ProofInv, HistoryTypes, PersonRedoes
<1>2. /\ undo' = [undo EXCEPT ![a] = u]
      /\ redo' = [redo EXCEPT ![a] = r]
      /\ UNCHANGED <<host, activeDoc, used, candidate, probed>>
  BY DEF PersonRedoes
<1> HIDE DEF a
<1>3. /\ Last(redo[a]) \in Steps /\ u \in Seq(Steps) /\ u # <<>>
      /\ Front(u) = undo[a] /\ Last(u) = Last(redo[a])
  <2>1. redo[a] \in Seq(Steps) /\ undo[a] \in Seq(Steps)
    BY <1>1
  <2>2. Last(redo[a]) \in Steps
    BY <1>1, <2>1 DEF Last
  <2> QED
    BY <2>1, <2>2 DEF Last, Front
<1>4. r \in Seq(Steps) /\ redo[a] = Append(r, Last(redo[a]))
  <2>1. redo[a] \in Seq(Steps) /\ redo[a] # <<>>
    BY <1>1
  <2> QED
    BY <2>1 DEF Last, Front
<1> HIDE DEF u, r
<1>5. Line(u, r) = Line(undo[a], redo[a])
  <2>1. Line(Front(u), Append(r, Last(u))) = Line(u, r)
    BY <1>3, <1>4, LineMoves
  <2> QED
    BY <1>3, <1>4, <2>1, Zenon
<1>6. undo' \in [Documents -> Seq(Steps)] /\ redo' \in [Documents -> Seq(Steps)]
  BY <1>1, <1>2, <1>3, <1>4
<1>7. \A d \in Documents : Line(undo'[d], redo'[d]) = Line(undo[d], redo[d])
  BY <1>1, <1>2, <1>5
<1>8. \A d \in Documents : History(d)' = History(d)
  BY <1>7 DEF History
<1> QED
  BY <1>1, <1>2, <1>6, <1>8, MoveKeeps DEF a

LEMMA ActivateKeeps ==
  ASSUME ProofInv, NEW d \in Documents, PersonActivates(d)
  PROVE  ProofInv'
<1>1. /\ undo' \in [Documents -> Seq(Steps)] /\ redo' \in [Documents -> Seq(Steps)]
      /\ activeDoc' \in Documents /\ UNCHANGED <<host, undo, redo, used, candidate, probed>>
  BY DEF PersonActivates, ProofInv, HistoryTypes
<1>2. \A e \in Documents : History(e)' = History(e)
  BY <1>1 DEF History
<1> QED
  BY <1>1, <1>2, MoveKeeps

LEMMA ReloadKeeps ==
  ASSUME ProofInv, ReloadPanel
  PROVE  ProofInv'
<1>1. UNCHANGED <<host, undo, redo, activeDoc, used>> /\ ~probed' /\ probed' \in BOOLEAN
  BY DEF ReloadPanel
<1>2. HistoryTypes' /\ ProofIsSound' /\ \A e \in Documents : Owned(History(e), used)'
  BY <1>1 DEF ProofInv, HistoryTypes, ProofIsSound, History
<1>3. CandidateHolds'
  BY DEF ReloadPanel, NoCandidate, CandidateHolds
<1> QED
  BY <1>2, <1>3 DEF ProofInv

LEMMA StepProof ==
  ASSUME ProofInv, [Next]_vars
  PROVE  ProofInv'
<1>1. CASE UNCHANGED vars
  <2>1. /\ undo' \in [Documents -> Seq(Steps)] /\ redo' \in [Documents -> Seq(Steps)]
        /\ activeDoc' \in Documents /\ UNCHANGED <<host, undo, redo, used, candidate, probed>>
    BY <1>1 DEF vars, ProofInv, HistoryTypes
  <2>2. \A e \in Documents : History(e)' = History(e)
    BY <2>1 DEF History
  <2> QED
    BY <2>1, <2>2, MoveKeeps
<1>2. ASSUME NEW d \in Documents, NEW t \in Traces, NEW approved \in BOOLEAN, Apply(d, t, approved)
      PROVE  ProofInv'
  BY <1>2, ApplyKeeps
<1>3. ASSUME NEW d \in Documents, NEW t \in Traces, Verify(d, t)
      PROVE  ProofInv'
  BY <1>3, VerifyKeeps
<1>4. ASSUME NEW d \in Documents, PersonEdits(d) \/ PersonActivates(d)
      PROVE  ProofInv'
  BY <1>4, EditKeeps, ActivateKeeps
<1>5. CASE PersonUndoes \/ PersonRedoes \/ ReloadPanel
  BY <1>5, UndoKeeps, RedoKeeps, ReloadKeeps
<1> QED
  BY <1>1, <1>2, <1>3, <1>4, <1>5 DEF Next

LEMMA ProofInvariant == Spec => []ProofInv
<1>1. Init => ProofInv
  BY InitProof
<1>2. ProofInv /\ [Next]_vars => ProofInv'
  BY StepProof
<1> QED
  BY <1>1, <1>2, PTL DEF Spec

\* The grouping of a batch into one step is never claimed of a host that leaves
\* a step of a batch without its label, whatever was edited, undone and redone
\* before the snapshot.  (A host that labels each of many steps may pass.)
THEOREM ProofSound == Spec => []ProofIsSound
<1>1. ProofInv => ProofIsSound
  BY DEF ProofInv
<1> QED
  BY <1>1, ProofInvariant, PTL

=============================================================================
