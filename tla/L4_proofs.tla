----------------------------- MODULE L4_proofs -----------------------------
(***************************************************************************)
(* Proofs about the L4 generator, for every value of its constants.        *)
(*                                                                         *)
(* The heap of timers: whatever is added, deleted in any order and popped, *)
(* the links form one tree of all elements, ordered from the top.  The     *)
(* merging of siblings works on a heap that is in pieces: some roots stand *)
(* in a line, linked by next and prev, and the top may stand apart.        *)
(*                                                                         *)
(* A TCP stream: its two ends agree on what was sent, received and         *)
(* acknowledged, for every list of actions and whatever segments a network *)
(* that keeps their order loses.                                           *)
(***************************************************************************)
EXTENDS Heap, L4Stream, NumberLemmas, FiniteSetTheorems, SequenceTheorems, TLAPS

-----------------------------------------------------------------------------
(***************************************************************************)
(* Trees of linked elements.                                               *)
(***************************************************************************)

MaybeRef == HeapRefs \cup {HeapNull}

HeapType(h) ==
  h \in [top : MaybeRef, priority : [HeapRefs -> Int], prev : [HeapRefs -> MaybeRef],
         next : [HeapRefs -> MaybeRef], child : [HeapRefs -> MaybeRef]]

\* par gives the parent of an element, which siblings have in common.
LinkedAt(h, S, par, e) ==
  /\ par[e] # e
  /\ h.next[e] # HeapNull => h.next[e] \in S /\ h.prev[h.next[e]] = e /\ par[h.next[e]] = par[e]
  /\ h.child[e] # HeapNull => h.child[e] \in S /\ h.prev[h.child[e]] = e /\ par[h.child[e]] = e
  /\ h.prev[e] = HeapNull => par[e] = HeapNull
  /\ h.prev[e] # HeapNull => h.prev[e] \in S /\ (h.next[h.prev[e]] = e \/ h.child[h.prev[e]] = e)
  /\ par[e] # HeapNull => par[e] \in S /\ h.priority[par[e]] <= h.priority[e]

\* The links back lead in no circle.
Grounded(h, S) == \A T \in SUBSET S : T # {} => \E e \in T : h.prev[e] \notin T

\* The elements S in trees: the roots Q alone, the others in a line from first.
Line(h, S, par, Q, first) ==
  /\ HeapType(h) /\ S \subseteq HeapRefs /\ par \in [HeapRefs -> MaybeRef]
  /\ \A e \in S : LinkedAt(h, S, par, e)
  /\ Grounded(h, S)
  /\ Q \subseteq S /\ first \in S \ Q
  /\ \A e \in S : h.prev[e] = HeapNull <=> e \in Q \cup {first}
  /\ \A q \in Q : h.next[q] = HeapNull

Roots(S, par) == {e \in S : par[e] = HeapNull}

\* Of the neighbours l and r in the line w remains, and x is below it.
Replaced(h, g, S, par, pr, Q, first, l, r, w, x) ==
  /\ Line(g, S, pr, Q, IF first = l THEN w ELSE first)
  /\ x \in Roots(S, par) /\ Roots(S, pr) = Roots(S, par) \ {x}
  /\ w \in S \ Q /\ pr[w] = HeapNull /\ g.next[w] = h.next[r]
  /\ h.next[r] # HeapNull =>
       h.next[r] \in S /\ g.prev[h.next[r]] = w /\ pr[h.next[r]] = HeapNull
  /\ g.priority = h.priority /\ g.top = h.top

\* The left one of two neighbours wins.
LEMMA MergedLeft ==
  ASSUME NEW h, NEW S, NEW par, NEW Q, NEW first, NEW l \in S, Line(h, S, par, Q, first),
         par[l] = HeapNull, h.next[l] # HeapNull, h.priority[l] <= h.priority[h.next[l]]
  PROVE  \E pr : Replaced(h, heap_merge_tops_left(h, l, h.next[l]), S, par, pr, Q, first,
                          l, h.next[l], l, h.next[l])
<1> DEFINE r == h.next[l]
           g == heap_merge_tops_left(h, l, r)
           pr == [par EXCEPT ![r] = l]
<1>0. HeapNull \notin HeapRefs
  BY HeapAssumption
<1>1. /\ HeapType(h) /\ S \subseteq HeapRefs /\ par \in [HeapRefs -> MaybeRef]
      /\ Grounded(h, S) /\ Q \subseteq S /\ first \in S \ Q
      /\ \A e \in S : h.prev[e] = HeapNull <=> e \in Q \cup {first}
      /\ \A q \in Q : h.next[q] = HeapNull
  BY DEF Line
<1>2. \A e \in S : LinkedAt(h, S, par, e)
  BY DEF Line
<1>3. /\ r \in S /\ h.prev[r] = l /\ par[r] = HeapNull /\ r # HeapNull /\ l # HeapNull
      /\ r \in HeapRefs /\ l \in HeapRefs
  BY <1>0, <1>1, <1>2 DEF LinkedAt
<1>4. l # r
  <2>1. PICK e \in {l} : h.prev[e] \notin {l}
    BY <1>1 DEF Grounded
  <2> QED
    BY <2>1, <1>3
<1>5. /\ h.top \in MaybeRef /\ h.priority \in [HeapRefs -> Int] /\ h.prev \in [HeapRefs -> MaybeRef]
      /\ h.next \in [HeapRefs -> MaybeRef] /\ h.child \in [HeapRefs -> MaybeRef]
  BY <1>1 DEF HeapType
<1>6. /\ HeapType(g) /\ g.priority = h.priority /\ g.top = h.top
      /\ g.prev = Link(Link(h.prev, h.next[r], l), h.child[l], r)
      /\ g.next = [[h.next EXCEPT ![l] = h.next[r]] EXCEPT ![r] = h.child[l]]
      /\ g.child = [h.child EXCEPT ![l] = r]
  BY <1>1, <1>3, <1>5 DEF HeapType, heap_merge_tops_left, Link, MaybeRef
<1>7. /\ h.child[l] # HeapNull => h.child[l] \in S /\ h.prev[h.child[l]] = l /\ par[h.child[l]] = l
      /\ h.next[r] # HeapNull => h.next[r] \in S /\ h.prev[h.next[r]] = r /\ par[h.next[r]] = HeapNull
  BY <1>2, <1>3 DEF LinkedAt
<1>8. \A e \in HeapRefs :
        /\ g.prev[e] = IF e = h.child[l] THEN r ELSE IF e = h.next[r] THEN l ELSE h.prev[e]
        /\ g.next[e] = IF e = r THEN h.child[l] ELSE IF e = l THEN h.next[r] ELSE h.next[e]
        /\ g.child[e] = IF e = l THEN r ELSE h.child[e]
        /\ pr[e] = IF e = r THEN l ELSE par[e]
  BY <1>0, <1>1, <1>3, <1>4, <1>5, <1>6, <1>7 DEF Link
<1>9. pr \in [HeapRefs -> MaybeRef]
  BY <1>1, <1>3 DEF MaybeRef
<1> HIDE DEF g, pr, r
<1>10. ASSUME NEW e \in S PROVE LinkedAt(g, S, pr, e)
  <2>1. LinkedAt(h, S, par, e) /\ e \in HeapRefs /\ e # HeapNull
    BY <1>0, <1>1, <1>2
  <2>2. pr[e] # e
    BY <2>1, <1>4, <1>8 DEF LinkedAt
  <2>3. g.next[e] # HeapNull => g.next[e] \in S /\ g.prev[g.next[e]] = e /\ pr[g.next[e]] = pr[e]
    BY <2>1, <1>0, <1>1, <1>2, <1>3, <1>4, <1>7, <1>8 DEF LinkedAt, r
  <2>4. g.child[e] # HeapNull => g.child[e] \in S /\ g.prev[g.child[e]] = e /\ pr[g.child[e]] = e
    BY <2>1, <1>0, <1>1, <1>2, <1>3, <1>4, <1>7, <1>8 DEF LinkedAt, r
  <2>5. g.prev[e] = HeapNull => pr[e] = HeapNull
    BY <2>1, <1>0, <1>3, <1>4, <1>7, <1>8 DEF LinkedAt
  <2>6. g.prev[e] # HeapNull => g.prev[e] \in S /\ (g.next[g.prev[e]] = e \/ g.child[g.prev[e]] = e)
    BY <2>1, <1>0, <1>1, <1>2, <1>3, <1>4, <1>7, <1>8 DEF LinkedAt, r
  <2>7. pr[e] # HeapNull => pr[e] \in S /\ g.priority[pr[e]] <= g.priority[e]
    BY <2>1, <1>3, <1>6, <1>8 DEF LinkedAt, r
  <2> QED
    BY <2>2, <2>3, <2>4, <2>5, <2>6, <2>7 DEF LinkedAt
<1>11. Grounded(g, S)
  <2> SUFFICES ASSUME NEW T \in SUBSET S, T # {} PROVE \E e \in T : g.prev[e] \notin T
    BY DEF Grounded
  <2>1. PICK e \in T \cup {r} : h.prev[e] \notin T \cup {r}
    BY ZenonT(60), <1>1, <1>3 DEF Grounded
  <2>2. CASE l \in T
    <3>1. e # r /\ e \in T /\ e # h.next[r]
      BY <2>1, <2>2, <1>0, <1>1, <1>3, <1>7
    <3>2. CASE e # h.child[l]
      BY <3>1, <3>2, <2>1, <1>1, <1>8
    <3>3. CASE e = h.child[l]
      BY <3>1, <3>3, <2>1, <2>2, <1>0, <1>1, <1>7
    <3> QED
      BY <3>2, <3>3
  <2>3. CASE l \notin T
    <3>1. CASE r \in T
      BY <3>1, <2>3, <1>3, <1>4, <1>7, <1>8, <1>0
    <3>2. CASE r \notin T
      <4>1. PICK f \in T : h.prev[f] \notin T
        BY <1>1 DEF Grounded
      <4> QED
        BY <4>1, <3>2, <2>3, <1>1, <1>8
    <3> QED
      BY <3>1, <3>2
  <2> QED
    BY <2>2, <2>3
<1>12. /\ \A e \in S : g.prev[e] = HeapNull <=> e \in Q \cup {first}
       /\ \A q \in Q : g.next[q] = HeapNull
       /\ l \notin Q /\ r \notin Q /\ r # first
  <2>1. l \notin Q /\ r \notin Q /\ r # first
    BY <1>0, <1>1, <1>3 DEF r
  <2>2. \A q \in Q : g.next[q] = HeapNull
    BY <2>1, <1>1, <1>8
  <2>3. ASSUME NEW e \in S PROVE g.prev[e] = HeapNull <=> e \in Q \cup {first}
    BY <1>0, <1>1, <1>3, <1>7, <1>8
  <2> QED
    BY <2>1, <2>2, <2>3
<1>13. Line(g, S, pr, Q, IF first = l THEN l ELSE first)
  BY <1>1, <1>6, <1>9, <1>10, <1>11, <1>12 DEF Line
<1>14. r \in Roots(S, par) /\ Roots(S, pr) = Roots(S, par) \ {r}
  BY <1>0, <1>1, <1>3, <1>8 DEF Roots
<1>15. l \in S \ Q /\ pr[l] = HeapNull /\ g.next[l] = h.next[r]
  BY <1>3, <1>4, <1>8, <1>12
<1>16. h.next[r] # HeapNull =>
         h.next[r] \in S /\ g.prev[h.next[r]] = l /\ pr[h.next[r]] = HeapNull
  BY <1>0, <1>1, <1>3, <1>4, <1>7, <1>8
<1>17. Replaced(h, g, S, par, pr, Q, first, l, r, l, r)
  BY <1>6, <1>13, <1>14, <1>15, <1>16 DEF Replaced
<1> QED
  BY <1>17 DEF g, r

\* The right one wins, and takes the place of the left one.
LEMMA MergedRight ==
  ASSUME NEW h, NEW S, NEW par, NEW Q, NEW first, NEW l \in S, Line(h, S, par, Q, first),
         par[l] = HeapNull, h.next[l] # HeapNull, h.priority[h.next[l]] <= h.priority[l]
  PROVE  \E pr : Replaced(h, heap_merge_tops_right(h, l, h.next[l]), S, par, pr, Q, first,
                          l, h.next[l], h.next[l], l)
<1> DEFINE r == h.next[l]
           p == h.prev[l]
           g == heap_merge_tops_right(h, l, r)
           pr == [par EXCEPT ![l] = r]
<1>0. HeapNull \notin HeapRefs
  BY HeapAssumption
<1>1. /\ HeapType(h) /\ S \subseteq HeapRefs /\ par \in [HeapRefs -> MaybeRef]
      /\ Grounded(h, S) /\ Q \subseteq S /\ first \in S \ Q
      /\ \A e \in S : h.prev[e] = HeapNull <=> e \in Q \cup {first}
      /\ \A q \in Q : h.next[q] = HeapNull
  BY DEF Line
<1>2. \A e \in S : LinkedAt(h, S, par, e)
  BY DEF Line
<1>3. /\ r \in S /\ h.prev[r] = l /\ par[r] = HeapNull /\ r # HeapNull /\ l # HeapNull
      /\ r \in HeapRefs /\ l \in HeapRefs
  BY <1>0, <1>1, <1>2 DEF LinkedAt
<1>4. l # r
  <2>1. PICK e \in {l} : h.prev[e] \notin {l}
    BY <1>1 DEF Grounded
  <2> QED
    BY <2>1, <1>3
<1>5. /\ h.top \in MaybeRef /\ h.priority \in [HeapRefs -> Int] /\ h.prev \in [HeapRefs -> MaybeRef]
      /\ h.next \in [HeapRefs -> MaybeRef] /\ h.child \in [HeapRefs -> MaybeRef]
  BY <1>1 DEF HeapType
<1>6. /\ HeapType(g) /\ g.priority = h.priority /\ g.top = h.top
      /\ g.prev = [[Link(h.prev, h.child[r], l) EXCEPT ![r] = p] EXCEPT ![l] = r]
      /\ g.next = [Link(h.next, p, r) EXCEPT ![l] = h.child[r]]
      /\ g.child = [h.child EXCEPT ![r] = l]
  BY <1>1, <1>3, <1>5 DEF HeapType, heap_merge_tops_right, Link, MaybeRef
\* What stands left of the pair, and what hangs below the right one.
<1>7. /\ h.child[r] # HeapNull => h.child[r] \in S /\ h.prev[h.child[r]] = r /\ par[h.child[r]] = r
      /\ h.next[r] # HeapNull => h.next[r] \in S /\ h.prev[h.next[r]] = r /\ par[h.next[r]] = HeapNull
      /\ p # HeapNull => p \in S /\ h.next[p] = l /\ par[p] = HeapNull /\ p \in HeapRefs
  <2>1. p # HeapNull => p \in S /\ p \in HeapRefs /\ h.next[p] = l
    BY <1>0, <1>1, <1>2, <1>3 DEF LinkedAt
  <2> QED
    BY <2>1, <1>2, <1>3 DEF LinkedAt
<1>8. p # l /\ p # r
  <2>1. PICK e \in {l, r} : h.prev[e] \notin {l, r}
    BY <1>1, <1>3 DEF Grounded
  <2> QED
    BY <2>1, <1>3
<1>9. \A e \in HeapRefs :
        /\ g.prev[e] = IF e = l THEN r ELSE IF e = r THEN p ELSE IF e = h.child[r] THEN l ELSE h.prev[e]
        /\ g.next[e] = IF e = l THEN h.child[r] ELSE IF e = p THEN r ELSE h.next[e]
        /\ g.child[e] = IF e = r THEN l ELSE h.child[e]
        /\ pr[e] = IF e = l THEN r ELSE par[e]
  BY <1>0, <1>1, <1>3, <1>4, <1>5, <1>6, <1>7 DEF Link
<1>10. pr \in [HeapRefs -> MaybeRef]
  BY <1>1, <1>3 DEF MaybeRef
<1> HIDE DEF g, pr, r, p
<1>11. ASSUME NEW e \in S PROVE LinkedAt(g, S, pr, e)
  <2>1. LinkedAt(h, S, par, e) /\ e \in HeapRefs /\ e # HeapNull
    BY <1>0, <1>1, <1>2
  <2>2. pr[e] # e
    BY <2>1, <1>4, <1>9 DEF LinkedAt
  <2>3. g.next[e] # HeapNull => g.next[e] \in S /\ g.prev[g.next[e]] = e /\ pr[g.next[e]] = pr[e]
    BY <2>1, <1>0, <1>1, <1>2, <1>3, <1>4, <1>7, <1>8, <1>9 DEF LinkedAt, r, p
  <2>4. g.child[e] # HeapNull => g.child[e] \in S /\ g.prev[g.child[e]] = e /\ pr[g.child[e]] = e
    BY <2>1, <1>0, <1>1, <1>2, <1>3, <1>4, <1>7, <1>8, <1>9 DEF LinkedAt, r, p
  <2>5. g.prev[e] = HeapNull => pr[e] = HeapNull
    BY <2>1, <1>0, <1>3, <1>4, <1>7, <1>9 DEF LinkedAt
  <2>6. g.prev[e] # HeapNull => g.prev[e] \in S /\ (g.next[g.prev[e]] = e \/ g.child[g.prev[e]] = e)
    BY <2>1, <1>0, <1>1, <1>2, <1>3, <1>4, <1>7, <1>8, <1>9 DEF LinkedAt, r, p
  <2>7. pr[e] # HeapNull => pr[e] \in S /\ g.priority[pr[e]] <= g.priority[e]
    BY <2>1, <1>3, <1>6, <1>9 DEF LinkedAt, r
  <2> QED
    BY <2>2, <2>3, <2>4, <2>5, <2>6, <2>7 DEF LinkedAt
<1>12. Grounded(g, S)
  <2> SUFFICES ASSUME NEW T \in SUBSET S, T # {} PROVE \E e \in T : g.prev[e] \notin T
    BY DEF Grounded
  <2>1. CASE l \notin T /\ r \notin T
    <3>1. PICK e \in T : h.prev[e] \notin T
      BY <1>1 DEF Grounded
    <3> QED
      BY <3>1, <2>1, <1>1, <1>9
  <2>2. CASE l \in T /\ r \notin T
    BY <2>2, <1>3, <1>9
  <2>3. CASE r \in T
    <3>1. PICK e \in T \cup {l} : h.prev[e] \notin T \cup {l}
      BY <1>1 DEF Grounded
    <3>2. e # r
      BY <3>1, <1>3
    <3>3. CASE e = l
      BY <3>1, <3>3, <2>3, <1>3, <1>4, <1>9 DEF p
    <3>4. CASE e # l
      <4>1. e \in T /\ e # h.child[r]
        BY <3>1, <3>4, <2>3, <1>0, <1>1, <1>7
      <4> QED
        BY <4>1, <3>1, <3>2, <3>4, <1>1, <1>9
    <3> QED
      BY <3>3, <3>4
  <2> QED
    BY <2>1, <2>2, <2>3
<1>13. l \notin Q /\ r \notin Q /\ r # first
  BY <1>0, <1>1, <1>3 DEF r
<1>14. \A q \in Q : g.next[q] = HeapNull
  BY <1>0, <1>1, <1>3, <1>7, <1>9, <1>13
<1>15. ASSUME NEW e \in S
       PROVE  g.prev[e] = HeapNull <=> e \in Q \cup {IF first = l THEN r ELSE first}
  <2>1. l \in Q \cup {first} <=> p = HeapNull
    BY <1>1 DEF p
  <2> QED
    BY <2>1, <1>0, <1>1, <1>3, <1>4, <1>7, <1>9, <1>13
<1>16. Line(g, S, pr, Q, IF first = l THEN r ELSE first)
  <2>1. (IF first = l THEN r ELSE first) \in S \ Q
    BY <1>1, <1>3, <1>13
  <2> QED
    BY <2>1, <1>1, <1>6, <1>10, <1>11, <1>12, <1>14, <1>15 DEF Line
<1>17. l \in Roots(S, par) /\ Roots(S, pr) = Roots(S, par) \ {l}
  BY <1>0, <1>1, <1>3, <1>9 DEF Roots
<1>18. r \in S \ Q /\ pr[r] = HeapNull /\ g.next[r] = h.next[r]
  BY <1>3, <1>4, <1>8, <1>9, <1>13
<1>19. h.next[r] # HeapNull =>
         h.next[r] \in S /\ g.prev[h.next[r]] = r /\ pr[h.next[r]] = HeapNull
  <2>1. h.next[r] # HeapNull => h.next[r] # l /\ h.next[r] # r
    <3>1. PICK e \in {l, r} : h.prev[e] \notin {l, r}
      BY <1>1, <1>3 DEF Grounded
    <3>2. PICK f \in {r} : h.prev[f] \notin {r}
      BY <1>1, <1>3 DEF Grounded
    <3> QED
      BY <3>1, <3>2, <1>3, <1>7
  <2> QED
    BY <2>1, <1>0, <1>1, <1>3, <1>7, <1>9
<1>20. Replaced(h, g, S, par, pr, Q, first, l, r, r, l)
  BY <1>6, <1>16, <1>17, <1>18, <1>19 DEF Replaced
<1> QED
  BY <1>20 DEF g, r

\* A line whose first element has no next sibling is that element alone.
LEMMA OnlyFirst ==
  ASSUME NEW h, NEW S, NEW par, NEW Q, NEW first, Line(h, S, par, Q, first),
         h.next[first] = HeapNull
  PROVE  Roots(S, par) = Q \cup {first}
<1>1. /\ Grounded(h, S) /\ Q \subseteq S /\ first \in S /\ S \subseteq HeapRefs
      /\ \A e \in S : h.prev[e] = HeapNull <=> e \in Q \cup {first}
      /\ \A q \in Q : h.next[q] = HeapNull
      /\ \A e \in S : LinkedAt(h, S, par, e)
  BY DEF Line
<1>2. Q \cup {first} \subseteq Roots(S, par)
  BY <1>1 DEF LinkedAt, Roots
<1> DEFINE T == Roots(S, par) \ (Q \cup {first})
<1>3. ASSUME T # {} PROVE FALSE
  <2>1. PICK e \in T : h.prev[e] \notin T
    BY <1>1, <1>3 DEF Grounded, Roots
  <2>2. e \in S /\ par[e] = HeapNull /\ h.prev[e] # HeapNull
    BY <2>1, <1>1 DEF Roots
  <2>3. h.prev[e] \in S /\ par[h.prev[e]] = HeapNull /\ h.next[h.prev[e]] = e
    BY <2>2, <1>1, HeapAssumption DEF LinkedAt
  <2>4. h.prev[e] \in Q \cup {first}
    BY <2>1, <2>3 DEF Roots
  <2> QED
    BY <2>2, <2>3, <2>4, <1>1, HeapAssumption
<1> QED
  BY <1>2, <1>3

\* Of two trees one is put below the top of the other, as its first child.
MovedUnder(h, g, S, a, b) ==
  /\ HeapType(g)
  /\ \A e \in S :
       /\ g.priority[e] = h.priority[e]
       /\ g.prev[e] = IF e = b THEN a ELSE IF e = h.child[a] THEN b ELSE h.prev[e]
       /\ g.next[e] = IF e = b THEN h.child[a] ELSE h.next[e]
       /\ g.child[e] = IF e = a THEN b ELSE h.child[e]

LEMMA TreesJoined ==
  ASSUME NEW h, NEW g, NEW S, NEW par, NEW a, NEW b, Line(h, S, par, {b}, a),
         h.next[a] = HeapNull, h.priority[a] <= h.priority[b], MovedUnder(h, g, S, a, b)
  PROVE  \E pr : Line(g, S, pr, {}, a) /\ g.next[a] = HeapNull
<1> DEFINE pr == [par EXCEPT ![b] = a]
<1>0. HeapNull \notin HeapRefs
  BY HeapAssumption
<1>1. /\ S \subseteq HeapRefs /\ par \in [HeapRefs -> MaybeRef] /\ Grounded(h, S)
      /\ a \in S /\ b \in S /\ a # b
      /\ \A e \in S : h.prev[e] = HeapNull <=> e \in {a, b}
      /\ h.next[b] = HeapNull
  BY DEF Line
<1>2. \A e \in S : LinkedAt(h, S, par, e)
  BY DEF Line
<1>3. par[a] = HeapNull /\ par[b] = HeapNull /\ h.prev[a] = HeapNull /\ h.prev[b] = HeapNull
  BY <1>1, <1>2 DEF LinkedAt
<1>4. h.child[a] # HeapNull =>
        h.child[a] \in S /\ h.prev[h.child[a]] = a /\ par[h.child[a]] = a
  BY <1>1, <1>2 DEF LinkedAt
<1>5. h.child[a] # a /\ h.child[a] # b
  BY <1>0, <1>1, <1>3, <1>4
<1>6. \A e \in S :
        /\ g.priority[e] = h.priority[e]
        /\ g.prev[e] = IF e = b THEN a ELSE IF e = h.child[a] THEN b ELSE h.prev[e]
        /\ g.next[e] = IF e = b THEN h.child[a] ELSE h.next[e]
        /\ g.child[e] = IF e = a THEN b ELSE h.child[e]
        /\ pr[e] = IF e = b THEN a ELSE par[e]
  BY <1>1 DEF MovedUnder
<1>7. pr \in [HeapRefs -> MaybeRef]
  BY <1>1 DEF MaybeRef
<1> HIDE DEF pr
<1>8. ASSUME NEW e \in S PROVE LinkedAt(g, S, pr, e)
  <2>1. LinkedAt(h, S, par, e) /\ e # HeapNull
    BY <1>0, <1>1, <1>2
  <2>2. pr[e] # e
    BY <2>1, <1>1, <1>6 DEF LinkedAt
  <2>3. g.next[e] # HeapNull => g.next[e] \in S /\ g.prev[g.next[e]] = e /\ pr[g.next[e]] = pr[e]
    BY <2>1, <1>0, <1>1, <1>2, <1>3, <1>4, <1>5, <1>6 DEF LinkedAt
  <2>4. g.child[e] # HeapNull => g.child[e] \in S /\ g.prev[g.child[e]] = e /\ pr[g.child[e]] = e
    BY <2>1, <1>0, <1>1, <1>2, <1>3, <1>4, <1>5, <1>6 DEF LinkedAt
  <2>5. g.prev[e] = HeapNull => pr[e] = HeapNull
    BY <2>1, <1>0, <1>1, <1>6 DEF LinkedAt
  <2>6. g.prev[e] # HeapNull => g.prev[e] \in S /\ (g.next[g.prev[e]] = e \/ g.child[g.prev[e]] = e)
    BY <2>1, <1>0, <1>1, <1>2, <1>3, <1>4, <1>5, <1>6 DEF LinkedAt
  <2>7. pr[e] # HeapNull => pr[e] \in S /\ g.priority[pr[e]] <= g.priority[e]
    BY <2>1, <1>1, <1>6 DEF LinkedAt
  <2> QED
    BY <2>2, <2>3, <2>4, <2>5, <2>6, <2>7 DEF LinkedAt
<1>9. Grounded(g, S)
  <2> SUFFICES ASSUME NEW T \in SUBSET S, T # {} PROVE \E e \in T : g.prev[e] \notin T
    BY DEF Grounded
  <2>1. PICK e \in T : h.prev[e] \notin T
    BY <1>1 DEF Grounded
  <2>2. CASE a \in T
    BY <2>2, <1>0, <1>1, <1>3, <1>5, <1>6
  <2>3. CASE a \notin T /\ b \in T
    BY <2>3, <1>6
  <2>4. CASE a \notin T /\ b \notin T
    BY <2>1, <2>4, <1>6
  <2> QED
    BY <2>2, <2>3, <2>4
<1>10. \A e \in S : g.prev[e] = HeapNull <=> e \in {} \cup {a}
  BY <1>0, <1>1, <1>3, <1>4, <1>5, <1>6
<1>11. HeapType(g)
  BY DEF MovedUnder
<1>12. Line(g, S, pr, {}, a)
  BY <1>1, <1>7, <1>8, <1>9, <1>10, <1>11 DEF Line
<1>13. g.next[a] = HeapNull
  BY <1>1, <1>6
<1> QED
  BY <1>12, <1>13

-----------------------------------------------------------------------------
(***************************************************************************)
(* The passes over a line of siblings.                                     *)
(***************************************************************************)

Steps == Cardinality(HeapRefs)

\* A root fewer takes one from the number of roots.
LEMMA RootsFewer ==
  ASSUME NEW S \in SUBSET HeapRefs, NEW par, NEW pr, NEW x \in Roots(S, par),
         Roots(S, pr) = Roots(S, par) \ {x}
  PROVE  /\ Cardinality(Roots(S, pr)) \in Nat /\ Cardinality(Roots(S, par)) \in Nat
         /\ Cardinality(Roots(S, pr)) = Cardinality(Roots(S, par)) - 1
<1>1. IsFiniteSet(HeapRefs) /\ Roots(S, par) \subseteq HeapRefs
  BY HeapAssumption DEF Roots
<1>2. IsFiniteSet(Roots(S, par))
  BY <1>1, FS_Subset
<1>3. /\ IsFiniteSet(Roots(S, pr))
      /\ Cardinality(Roots(S, pr)) = Cardinality(Roots(S, par)) - 1
  BY <1>2, FS_RemoveElement
<1> QED
  BY <1>2, <1>3, FS_CardinalityType

LEMMA RootsBound ==
  ASSUME NEW S \in SUBSET HeapRefs, NEW par
  PROVE  /\ Steps \in Nat /\ Cardinality(Roots(S, par)) \in Nat
         /\ Cardinality(Roots(S, par)) <= Steps
         /\ Roots(S, par) # {} => Cardinality(Roots(S, par)) > 0
<1>1. IsFiniteSet(HeapRefs) /\ Roots(S, par) \subseteq HeapRefs
  BY HeapAssumption DEF Roots
<1>2. IsFiniteSet(Roots(S, par)) /\ Cardinality(Roots(S, par)) <= Cardinality(HeapRefs)
  BY <1>1, FS_Subset
<1>3. Cardinality(Roots(S, par)) \in Nat /\ Cardinality(HeapRefs) \in Nat
  BY <1>1, <1>2, FS_CardinalityType
<1>4. Roots(S, par) # {} => Cardinality(Roots(S, par)) # 0
  BY <1>2, FS_EmptySet
<1> QED
  BY <1>2, <1>3, <1>4 DEF Steps

HeapRecords ==
  [top : MaybeRef, priority : [HeapRefs -> Int], prev : [HeapRefs -> MaybeRef],
   next : [HeapRefs -> MaybeRef], child : [HeapRefs -> MaybeRef]]

\* After k steps of the forward pass over the line of h0 from e0.
ForwardStates == [heap : HeapRecords, last : HeapRefs, n : MaybeRef]
FirstWinner(h0, e0) == IF Lower(h0, e0, h0.next[e0]) THEN e0 ELSE h0.next[e0]
ForwardAt(s, k, h0, e0, S, Q) ==
  /\ s \in ForwardStates /\ s.last \in S \ Q /\ s.n = s.heap.next[s.last]
  /\ s.heap.priority = h0.priority /\ s.heap.top = h0.top
  /\ \E par : /\ Line(s.heap, S, par, Q, IF k = 0 THEN e0 ELSE FirstWinner(h0, e0))
              /\ par[s.last] = HeapNull
              /\ s.n # HeapNull => Cardinality(Roots(S, par)) + k <= Steps
  /\ k = 0 => s.heap = h0 /\ s.last = e0 /\ s.n # HeapNull
  /\ k # 0 /\ s.n # HeapNull => s.heap.prev[s.last] # HeapNull

LEMMA ForwardKeeps ==
  ASSUME NEW h0, NEW e0, NEW S, NEW Q, NEW s, NEW k \in 0 .. Steps - 1,
         ForwardAt(s, k, h0, e0, S, Q)
  PROVE  ForwardAt(ForwardStep(s), k + 1, h0, e0, S, Q)
<1>0. HeapNull \notin HeapRefs
  BY HeapAssumption
<1>1. CASE s.n = HeapNull
  <2>1. ForwardStep(s) = s
    BY <1>1 DEF ForwardStep
  <2>2. k # 0 /\ k + 1 # 0
    BY <1>1 DEF ForwardAt
  <2> QED
    BY <2>1, <2>2, <1>1 DEF ForwardAt
<1>2. CASE s.n # HeapNull
  <2> DEFINE F == IF k = 0 THEN e0 ELSE FirstWinner(h0, e0)
             h == s.heap
             l == s.last
             r == s.n
             tmp == h.next[r]
             won == IF Lower(h, l, r) THEN l ELSE r
             lost == IF Lower(h, l, r) THEN r ELSE l
             g == IF won = l THEN heap_merge_tops_left(h, l, r) ELSE heap_merge_tops_right(h, l, r)
  <2>1. PICK par : /\ Line(h, S, par, Q, F) /\ par[l] = HeapNull
                   /\ Cardinality(Roots(S, par)) + k <= Steps
    BY <1>2 DEF ForwardAt
  <2>2. /\ l \in S /\ r = h.next[l] /\ r # HeapNull
        /\ h.priority = h0.priority /\ h.top = h0.top
        /\ k = 0 => l = e0 /\ h = h0
        /\ k # 0 => h.prev[l] # HeapNull
    BY <1>2 DEF ForwardAt
  <2>3. S \subseteq HeapRefs /\ HeapType(h) /\ l \in HeapRefs /\ r \in HeapRefs
        /\ h.priority \in [HeapRefs -> Int] /\ Q \subseteq S /\ F \in S \ Q
        /\ Grounded(h, S) /\ r \in S /\ h.prev[r] = l
        /\ \A e \in S : h.prev[e] = HeapNull <=> e \in Q \cup {F}
    BY <2>1, <2>2 DEF Line, HeapType, LinkedAt
  <2>4. l # r
    <3>1. PICK e \in {l} : h.prev[e] \notin {l}
      BY <2>2, <2>3 DEF Grounded
    <3> QED
      BY <3>1, <2>2, <2>3, <1>0
  <2>5. \E pr : Replaced(h, g, S, par, pr, Q, F, l, r, won, lost)
    <3>1. CASE Lower(h, l, r)
      <4>1. h.priority[l] <= h.priority[r]
        BY <3>1, <2>3 DEF Lower
      <4>2. won = l /\ lost = r /\ g = heap_merge_tops_left(h, l, r)
        BY <3>1
      <4> HIDE DEF won, lost, g, F, h, l, r
      <4> QED
        BY <4>1, <4>2, <2>1, <2>2, MergedLeft
    <3>2. CASE ~ Lower(h, l, r)
      <4>1. h.priority[r] <= h.priority[l]
        BY <3>2, <2>3 DEF Lower
      <4>2. won = r /\ lost = l /\ g = heap_merge_tops_right(h, l, r)
        BY <3>2, <2>4
      <4> HIDE DEF won, lost, g, F, h, l, r
      <4> QED
        BY <4>1, <4>2, <2>1, <2>2, MergedRight
    <3> QED
      BY <3>1, <3>2
  <2>6. PICK pr : Replaced(h, g, S, par, pr, Q, F, l, r, won, lost)
    BY <2>5
  <2>7. (IF F = l THEN won ELSE F) = FirstWinner(h0, e0)
    <3>1. CASE k = 0
      <4>1. F = l /\ l = e0 /\ h = h0 /\ r = h0.next[e0]
        BY <3>1, <2>2
      <4> QED
        BY <4>1 DEF FirstWinner
    <3>2. CASE k # 0
      <4>1. F # l
        BY <3>2, <2>2, <2>3
      <4> QED
        BY <3>2, <4>1
    <3> QED
      BY <3>1, <3>2
  <2> HIDE DEF g, F
  <2>8. Line(g, S, pr, Q, FirstWinner(h0, e0))
    BY <2>6, <2>7 DEF Replaced
  <2>9. /\ won \in S \ Q /\ pr[won] = HeapNull /\ g.next[won] = tmp
        /\ tmp # HeapNull => tmp \in S /\ g.prev[tmp] = won /\ pr[tmp] = HeapNull
        /\ g.priority = h0.priority /\ g.top = h0.top
        /\ lost \in Roots(S, par) /\ Roots(S, pr) = Roots(S, par) \ {lost}
    BY <2>2, <2>6 DEF Replaced
  <2>10. Cardinality(Roots(S, pr)) + (k + 1) <= Steps
    <3>1. Cardinality(Roots(S, pr)) = Cardinality(Roots(S, par)) - 1
          /\ Cardinality(Roots(S, par)) \in Nat
      BY <2>3, <2>9, RootsFewer
    <3>2. Steps \in Nat
      BY <2>3, RootsBound
    <3> QED
      BY <2>1, <3>1, <3>2
  <2>11. HeapType(g) /\ g \in HeapRecords
    BY <2>8 DEF Line, HeapType, HeapRecords
  <2>14. tmp # HeapNull => tmp \notin Q
    BY <2>3, <2>8, <2>9, <1>0 DEF Line
  <2>12. CASE tmp = HeapNull
    <3>1. ForwardStep(s) = [heap |-> g, last |-> won, n |-> HeapNull]
      BY <1>2, <2>12 DEF ForwardStep, g
    <3>2. ForwardStep(s) \in ForwardStates
      BY <3>1, <2>3, <2>9, <2>11 DEF ForwardStates, MaybeRef
    <3>3. k + 1 # 0
      OBVIOUS
    <3> HIDE DEF won, tmp, lost
    <3> QED
      BY <3>1, <3>2, <3>3, <2>8, <2>9, <2>12 DEF ForwardAt
  <2>13. CASE tmp # HeapNull
    <3>1. ForwardStep(s) = [heap |-> [g EXCEPT !.prev[tmp] = won], last |-> tmp, n |-> g.next[tmp]]
      BY <1>2, <2>13 DEF ForwardStep, g
    <3>2. [g EXCEPT !.prev[tmp] = won] = g
      BY <2>9, <2>11, <2>13 DEF HeapRecords
    <3>3. tmp \in HeapRefs /\ g.next[tmp] \in MaybeRef
      BY <2>3, <2>9, <2>11, <2>13 DEF HeapRecords
    <3>4. ForwardStep(s) = [heap |-> g, last |-> tmp, n |-> g.next[tmp]]
      BY <3>1, <3>2
    <3>5. ForwardStep(s) \in ForwardStates
      BY <3>3, <3>4, <2>11 DEF ForwardStates
    <3>7. k + 1 # 0
      OBVIOUS
    <3>6. won # HeapNull
      BY <2>3, <2>9, <1>0
    <3> DEFINE t == ForwardStep(s)
    <3>8. t.heap = g /\ t.last = tmp /\ t.n = g.next[tmp] /\ t \in ForwardStates
      BY <3>4, <3>5
    <3> HIDE DEF won, tmp, lost, t
    <3>9. /\ Line(t.heap, S, pr, Q, IF k + 1 = 0 THEN e0 ELSE FirstWinner(h0, e0))
          /\ pr[t.last] = HeapNull
          /\ t.n # HeapNull => Cardinality(Roots(S, pr)) + (k + 1) <= Steps
      BY <3>7, <3>8, <2>8, <2>9, <2>10, <2>13
    <3>10. t.heap.prev[t.last] # HeapNull
      BY <3>6, <3>8, <2>9, <2>13
    <3>11. ForwardAt(t, k + 1, h0, e0, S, Q)
      BY <3>7, <3>8, <3>9, <3>10, <2>9, <2>13, <2>14 DEF ForwardAt
    <3> QED
      BY <3>11 DEF t
  <2> QED
    BY <2>12, <2>13
<1> QED
  BY <1>1, <1>2

\* The forward pass ends at the last one of the line.
ForwardBy(f, h, e, n) ==
  f = [k \in Rounds |-> IF k = 0 THEN [heap |-> h, last |-> e, n |-> n] ELSE ForwardStep(f[k - 1])]
LEMMA ForwardEnds ==
  ASSUME NEW h, NEW S, NEW par, NEW Q, NEW e, Line(h, S, par, Q, e), h.next[e] # HeapNull
  PROVE  LET s == Forward(h, e, h.next[e]) IN
         /\ s.last \in S \ Q /\ s.heap.next[s.last] = HeapNull
         /\ s.heap.priority = h.priority /\ s.heap.top = h.top
         /\ \E pr : Line(s.heap, S, pr, Q, FirstWinner(h, e)) /\ pr[s.last] = HeapNull
<1> DEFINE base == [heap |-> h, last |-> e, n |-> h.next[e]]
           At(s, k) == ForwardAt(s, k, h, e, S, Q)
           T == {s \in ForwardStates : \E k \in 0 .. Steps : At(s, k)}
           N == Steps
           step == [k \in 1 .. N |-> [s \in T |-> ForwardStep(s)]]
<1>1. S \in SUBSET HeapRefs /\ HeapType(h) /\ e \in S \ Q /\ e \in HeapRefs /\ par[e] = HeapNull
      /\ N \in Nat /\ Cardinality(Roots(S, par)) <= N
  <2>1. S \in SUBSET HeapRefs /\ HeapType(h) /\ e \in S \ Q /\ LinkedAt(h, S, par, e) /\ h.prev[e] = HeapNull
    BY DEF Line
  <2> QED
    BY <2>1, RootsBound DEF LinkedAt
<1>2. base \in ForwardStates
  BY <1>1 DEF ForwardStates, HeapType, HeapRecords
<1>3. At(base, 0)
  <2>1. Cardinality(Roots(S, par)) + 0 <= Steps
    BY <1>1, RootsBound
  <2> QED
    BY <1>1, <1>2, <2>1 DEF ForwardAt
<1>4. \A s, k : k \in 0 .. N - 1 /\ At(s, k) => At(ForwardStep(s), k + 1)
  BY ForwardKeeps
<1>5. ASSUME NEW s, At(s, N) PROVE s.n = HeapNull
  <2>1. SUFFICES ASSUME s.n # HeapNull PROVE FALSE
    OBVIOUS
  <2>2. PICK pr : pr[s.last] = HeapNull /\ s.last \in S /\ Cardinality(Roots(S, pr)) + N <= Steps
    BY <1>5, <2>1 DEF ForwardAt
  <2>3. Roots(S, pr) # {}
    BY <2>2 DEF Roots
  <2> QED
    BY <1>1, <2>2, <2>3, RootsBound
<1>6. \A s : At(s, N) => ForwardStep(s) = s
  BY <1>5 DEF ForwardStep
<1> HIDE DEF At, base, N
<1>7. ASSUME NEW s \in T PROVE ForwardStep(s) \in T
  <2>1. PICK k \in 0 .. N : At(s, k)
    BY DEF N
  <2>2. CASE k = N
    BY <2>1, <2>2, <1>6
  <2>3. CASE k # N
    <3>1. k \in 0 .. N - 1 /\ k + 1 \in 0 .. N
      BY <1>1, <2>3
    <3>2. At(ForwardStep(s), k + 1)
      BY <1>4, <2>1, <3>1
    <3>3. ForwardStep(s) \in ForwardStates
      BY <3>2 DEF At, ForwardAt
    <3> QED
      BY <3>1, <3>2, <3>3 DEF N
  <2> QED
    BY <2>2, <2>3
<1>8. base \in T /\ T \subseteq ForwardStates
  BY <1>1, <1>2, <1>3 DEF N
<1> HIDE DEF T
<1>9. \A k \in 1 .. N : \A s \in T : step[k][s] = ForwardStep(s)
  OBVIOUS
<1> HIDE DEF step
<1>10. StepsWithin(N, T, base, step)
  BY <1>1, <1>7, <1>8, <1>9 DEF StepsWithin
<1>11. \E g \in [0 .. N -> T] : g[0] = base /\ \A k \in 1 .. N : g[k] = step[k][g[k - 1]]
  BY <1>10, StepsExist
<1>12. PICK g \in [0 .. N -> T] : g[0] = base /\ \A k \in 1 .. N : g[k] = step[k][g[k - 1]]
  BY <1>11
<1>13. ASSUME NEW k \in 0 .. N PROVE g[k] = IF k = 0 THEN base ELSE ForwardStep(g[k - 1])
  <2>1. CASE k # 0
    <3>1. k \in 1 .. N /\ k - 1 \in 0 .. N
      BY <1>1, <2>1
    <3> QED
      BY <1>9, <1>12, <2>1, <3>1
  <2> QED
    BY <1>12, <2>1
<1>14. g = [k \in 0 .. N |-> g[k]]
  BY <1>12
<1>15. ForwardBy(g, h, e, h.next[e])
  BY <1>13, <1>14, Zenon DEF ForwardBy, Rounds, base, N, Steps
<1> DEFINE f == CHOOSE f : ForwardBy(f, h, e, h.next[e])
<1>16. ForwardBy(f, h, e, h.next[e])
  BY <1>15, Zenon
<1>17. Forward(h, e, h.next[e]) = f[N]
  BY Zenon DEF Forward, ForwardBy, N, Steps
<1> HIDE DEF f
<1>18. f[0] = base /\ \A k \in 1 .. N : f[k] = ForwardStep(f[k - 1])
  BY <1>1, <1>16 DEF ForwardBy, Rounds, base, N, Steps
<1> DEFINE U == {k \in 0 .. N : At(f[k], k)}
<1>19. 0 \in U
  BY <1>1, <1>3, <1>18
<1>20. ASSUME NEW k \in 0 .. N - 1, k \in U PROVE k + 1 \in U
  <2>1. k + 1 \in 1 .. N /\ k + 1 \in 0 .. N /\ (k + 1) - 1 = k /\ At(f[k], k)
    BY <1>1, <1>20
  <2>2. f[k + 1] = ForwardStep(f[k])
    BY <1>18, <2>1
  <2> QED
    BY <1>4, <2>1, <2>2
<1> HIDE DEF U
<1>21. 0 .. N \subseteq U
  BY <1>1, <1>19, <1>20, ReachesAll
<1>22. At(f[N], N)
  BY <1>1, <1>21 DEF U
<1> DEFINE s == f[N]
<1>23. s.n = HeapNull
  BY <1>5, <1>22
<1>24. ForwardAt(s, N, h, e, S, Q)
  BY <1>22 DEF At
<1> HIDE DEF s
<1>25. N # 0
  BY <1>23, <1>24 DEF ForwardAt
<1>26. /\ s.last \in S \ Q /\ s.heap.next[s.last] = HeapNull
       /\ s.heap.priority = h.priority /\ s.heap.top = h.top
       /\ \E pr : Line(s.heap, S, pr, Q, FirstWinner(h, e)) /\ pr[s.last] = HeapNull
  BY <1>23, <1>24, <1>25 DEF ForwardAt
<1> QED
  BY <1>17, <1>26 DEF s

\* After k steps of the backward pass over the line of h0.
BackwardStates == [heap : HeapRecords, last : HeapRefs, first : HeapRefs]
BackwardAt(s, k, h0, S, Q) ==
  /\ s \in BackwardStates /\ s.last \in S \ Q /\ s.heap.next[s.last] = HeapNull
  /\ s.heap.priority = h0.priority /\ s.heap.top = h0.top
  /\ \E par : /\ Line(s.heap, S, par, Q, s.first)
              /\ par[s.last] = HeapNull
              /\ s.first # s.last => Cardinality(Roots(S, par)) + k <= Steps

LEMMA BackwardKeeps ==
  ASSUME NEW h0, NEW S, NEW Q, NEW s, NEW k \in 0 .. Steps - 1, BackwardAt(s, k, h0, S, Q)
  PROVE  BackwardAt(BackwardStep(s), k + 1, h0, S, Q)
<1>0. HeapNull \notin HeapRefs
  BY HeapAssumption
<1>1. CASE s.first = s.last
  <2>1. BackwardStep(s) = s
    BY <1>1 DEF BackwardStep
  <2> QED
    BY <2>1, <1>1 DEF BackwardAt
<1>2. CASE s.first # s.last
  <2> DEFINE F == s.first
             h == s.heap
             r == s.last
             l == h.prev[r]
             won == IF Lower(h, r, l) THEN r ELSE l
             lost == IF Lower(h, r, l) THEN l ELSE r
             g == IF Lower(h, r, l) THEN heap_merge_tops_right(h, l, r) ELSE heap_merge_tops_left(h, l, r)
  <2>1. PICK par : /\ Line(h, S, par, Q, F) /\ par[r] = HeapNull
                   /\ Cardinality(Roots(S, par)) + k <= Steps
    BY <1>2 DEF BackwardAt
  <2>2. /\ r \in S \ Q /\ h.next[r] = HeapNull /\ F # r
        /\ h.priority = h0.priority /\ h.top = h0.top
    BY <1>2 DEF BackwardAt
  <2>3. S \subseteq HeapRefs /\ HeapType(h) /\ r \in HeapRefs
        /\ h.priority \in [HeapRefs -> Int] /\ Q \subseteq S /\ F \in S \ Q
        /\ LinkedAt(h, S, par, r)
        /\ \A e \in S : LinkedAt(h, S, par, e)
        /\ h.prev[r] # HeapNull
    BY <2>1, <2>2 DEF Line, HeapType
  <2>4. l \in S /\ h.next[l] = r /\ r # HeapNull /\ l # HeapNull /\ l \in HeapRefs
    BY <2>1, <2>3, <1>0 DEF LinkedAt
  <2>5. par[l] = HeapNull
    BY <2>1, <2>3, <2>4 DEF LinkedAt
  <2>6. \E pr : Replaced(h, g, S, par, pr, Q, F, l, r, won, lost)
    <3>1. CASE Lower(h, r, l)
      <4>1. h.priority[r] <= h.priority[l]
        BY <3>1, <2>3, <2>4 DEF Lower
      <4>2. won = r /\ lost = l /\ g = heap_merge_tops_right(h, l, r)
        BY <3>1
      <4> HIDE DEF won, lost, g, F, h, l, r
      <4> QED
        BY <4>1, <4>2, <2>1, <2>4, <2>5, MergedRight
    <3>2. CASE ~ Lower(h, r, l)
      <4>1. h.priority[l] <= h.priority[r]
        BY <3>2, <2>3, <2>4 DEF Lower
      <4>2. won = l /\ lost = r /\ g = heap_merge_tops_left(h, l, r)
        BY <3>2
      <4> HIDE DEF won, lost, g, F, h, l, r
      <4> QED
        BY <4>1, <4>2, <2>1, <2>4, <2>5, MergedLeft
    <3> QED
      BY <3>1, <3>2
  <2>7. PICK pr : Replaced(h, g, S, par, pr, Q, F, l, r, won, lost)
    BY <2>6
  <2> DEFINE first == IF F = l THEN won ELSE F
  <2>8. BackwardStep(s) = [heap |-> g, last |-> won, first |-> first]
    BY <1>2 DEF BackwardStep
  <2> HIDE DEF g, won, lost, l
  <2>9. /\ Line(g, S, pr, Q, first) /\ won \in S \ Q /\ pr[won] = HeapNull
        /\ g.next[won] = HeapNull /\ g.priority = h0.priority /\ g.top = h0.top
        /\ lost \in Roots(S, par) /\ Roots(S, pr) = Roots(S, par) \ {lost}
    BY <2>2, <2>7 DEF Replaced
  <2>10. Cardinality(Roots(S, pr)) + (k + 1) <= Steps
    <3>1. Cardinality(Roots(S, pr)) = Cardinality(Roots(S, par)) - 1
          /\ Cardinality(Roots(S, par)) \in Nat
      BY <2>3, <2>9, RootsFewer
    <3>2. Steps \in Nat
      BY <2>3, RootsBound
    <3> QED
      BY <2>1, <3>1, <3>2
  <2>11. g \in HeapRecords /\ won \in HeapRefs /\ first \in HeapRefs
    BY <2>3, <2>9 DEF Line, HeapType, HeapRecords
  <2> DEFINE t == BackwardStep(s)
  <2> HIDE DEF first
  <2>12. t.heap = g /\ t.last = won /\ t.first = first /\ t \in BackwardStates
    BY <2>8, <2>11 DEF BackwardStates
  <2> HIDE DEF t
  <2>13. /\ Line(t.heap, S, pr, Q, t.first)
         /\ pr[t.last] = HeapNull
         /\ t.first # t.last => Cardinality(Roots(S, pr)) + (k + 1) <= Steps
    BY <2>9, <2>10, <2>12
  <2>14. BackwardAt(t, k + 1, h0, S, Q)
    BY <2>9, <2>12, <2>13 DEF BackwardAt
  <2> QED
    BY <2>14 DEF t
<1> QED
  BY <1>1, <1>2

\* The backward pass leaves one element of the line, and below it the others.
BackwardBy(f, h, first, e) ==
  f = [k \in Rounds |-> IF k = 0 THEN [heap |-> h, last |-> e, first |-> first] ELSE BackwardStep(f[k - 1])]
LEMMA BackwardEnds ==
  ASSUME NEW h, NEW S, NEW par, NEW Q, NEW first, NEW e \in S \ Q, Line(h, S, par, Q, first),
         par[e] = HeapNull, h.next[e] = HeapNull
  PROVE  LET s == Backward(h, first, e) IN
         /\ s.last \in S /\ s.heap.next[s.last] = HeapNull
         /\ s.heap.priority = h.priority /\ s.heap.top = h.top
         /\ \E pr : Line(s.heap, S, pr, Q, s.last)
<1> DEFINE base == [heap |-> h, last |-> e, first |-> first]
           At(s, k) == BackwardAt(s, k, h, S, Q)
           T == {s \in BackwardStates : \E k \in 0 .. Steps : At(s, k)}
           N == Steps
           step == [k \in 1 .. N |-> [s \in T |-> BackwardStep(s)]]
<1>1. S \in SUBSET HeapRefs /\ HeapType(h) /\ e \in HeapRefs /\ first \in HeapRefs
      /\ N \in Nat /\ Cardinality(Roots(S, par)) <= N
  <2>1. S \in SUBSET HeapRefs /\ HeapType(h) /\ first \in S
    BY DEF Line
  <2> QED
    BY <2>1, RootsBound
<1>2. base \in BackwardStates
  BY <1>1 DEF BackwardStates, HeapType, HeapRecords
<1>3. At(base, 0)
  <2>1. Cardinality(Roots(S, par)) + 0 <= Steps
    BY <1>1, RootsBound
  <2> QED
    BY <1>1, <1>2, <2>1 DEF BackwardAt
<1>4. \A s, k : k \in 0 .. N - 1 /\ At(s, k) => At(BackwardStep(s), k + 1)
  BY BackwardKeeps
<1>5. ASSUME NEW s, At(s, N) PROVE s.first = s.last
  <2>1. SUFFICES ASSUME s.first # s.last PROVE FALSE
    OBVIOUS
  <2>2. PICK pr : pr[s.last] = HeapNull /\ s.last \in S /\ Cardinality(Roots(S, pr)) + N <= Steps
    BY <1>5, <2>1 DEF BackwardAt
  <2>3. Roots(S, pr) # {}
    BY <2>2 DEF Roots
  <2> QED
    BY <1>1, <2>2, <2>3, RootsBound
<1>6. \A s : At(s, N) => BackwardStep(s) = s
  BY <1>5 DEF BackwardStep
<1> HIDE DEF At, base, N
<1>7. ASSUME NEW s \in T PROVE BackwardStep(s) \in T
  <2>1. PICK k \in 0 .. N : At(s, k)
    BY DEF N
  <2>2. CASE k = N
    BY <2>1, <2>2, <1>6
  <2>3. CASE k # N
    <3>1. k \in 0 .. N - 1 /\ k + 1 \in 0 .. N
      BY <1>1, <2>3
    <3>2. At(BackwardStep(s), k + 1)
      BY <1>4, <2>1, <3>1
    <3>3. BackwardStep(s) \in BackwardStates
      BY <3>2 DEF At, BackwardAt
    <3> QED
      BY <3>1, <3>2, <3>3 DEF N
  <2> QED
    BY <2>2, <2>3
<1>8. base \in T
  BY <1>1, <1>2, <1>3 DEF N
<1> HIDE DEF T
<1>9. \A k \in 1 .. N : \A s \in T : step[k][s] = BackwardStep(s)
  OBVIOUS
<1> HIDE DEF step
<1>10. StepsWithin(N, T, base, step)
  BY <1>1, <1>7, <1>8, <1>9 DEF StepsWithin
<1>11. \E g \in [0 .. N -> T] : g[0] = base /\ \A k \in 1 .. N : g[k] = step[k][g[k - 1]]
  BY <1>10, StepsExist
<1>12. PICK g \in [0 .. N -> T] : g[0] = base /\ \A k \in 1 .. N : g[k] = step[k][g[k - 1]]
  BY <1>11
<1>13. ASSUME NEW k \in 0 .. N PROVE g[k] = IF k = 0 THEN base ELSE BackwardStep(g[k - 1])
  <2>1. CASE k # 0
    <3>1. k \in 1 .. N /\ k - 1 \in 0 .. N
      BY <1>1, <2>1
    <3> QED
      BY <1>9, <1>12, <2>1, <3>1
  <2> QED
    BY <1>12, <2>1
<1>14. g = [k \in 0 .. N |-> g[k]]
  BY <1>12
<1>15. BackwardBy(g, h, first, e)
  BY <1>13, <1>14, Zenon DEF BackwardBy, Rounds, base, N, Steps
<1> DEFINE f == CHOOSE f : BackwardBy(f, h, first, e)
<1>16. BackwardBy(f, h, first, e)
  BY <1>15, Zenon
<1>17. Backward(h, first, e) = f[N]
  BY Zenon DEF Backward, BackwardBy, N, Steps
<1> HIDE DEF f
<1>18. f[0] = base /\ \A k \in 1 .. N : f[k] = BackwardStep(f[k - 1])
  BY <1>1, <1>16 DEF BackwardBy, Rounds, base, N, Steps
<1> DEFINE U == {k \in 0 .. N : At(f[k], k)}
<1>19. 0 \in U
  BY <1>1, <1>3, <1>18
<1>20. ASSUME NEW k \in 0 .. N - 1, k \in U PROVE k + 1 \in U
  <2>1. k + 1 \in 1 .. N /\ k + 1 \in 0 .. N /\ (k + 1) - 1 = k /\ At(f[k], k)
    BY <1>1, <1>20
  <2>2. f[k + 1] = BackwardStep(f[k])
    BY <1>18, <2>1
  <2> QED
    BY <1>4, <2>1, <2>2
<1> HIDE DEF U
<1>21. 0 .. N \subseteq U
  BY <1>1, <1>19, <1>20, ReachesAll
<1>22. At(f[N], N)
  BY <1>1, <1>21 DEF U
<1> DEFINE s == f[N]
<1>23. s.first = s.last
  BY <1>5, <1>22
<1>24. BackwardAt(s, N, h, S, Q)
  BY <1>22 DEF At
<1> HIDE DEF s
<1>25. /\ s.last \in S /\ s.heap.next[s.last] = HeapNull
       /\ s.heap.priority = h.priority /\ s.heap.top = h.top
       /\ \E pr : Line(s.heap, S, pr, Q, s.last)
  BY <1>23, <1>24 DEF BackwardAt
<1> QED
  BY <1>17, <1>25 DEF s

-----------------------------------------------------------------------------
(***************************************************************************)
(* The operations.                                                         *)
(***************************************************************************)

\* Merging leaves one root of a line and touches no other.
LEMMA SiblingsMerged ==
  ASSUME NEW h, NEW S, NEW par, NEW Q, NEW e, Line(h, S, par, Q, e)
  PROVE  LET m == heap_merge_children(h, e) IN
         /\ m.last \in S /\ m.heap.next[m.last] = HeapNull
         /\ m.heap.priority = h.priority /\ m.heap.top = h.top
         /\ \E pr : Line(m.heap, S, pr, Q, m.last)
<1>1. CASE h.next[e] = HeapNull
  <2>1. heap_merge_children(h, e) = [heap |-> h, last |-> e]
    BY <1>1 DEF heap_merge_children
  <2>2. e \in S
    BY DEF Line
  <2> QED
    BY <2>1, <2>2, <1>1
<1>2. CASE h.next[e] # HeapNull
  <2> DEFINE f == Forward(h, e, h.next[e])
             m == Backward(f.heap, FirstWinner(h, e), f.last)
  <2>1. heap_merge_children(h, e) = m
    BY <1>2 DEF heap_merge_children, FirstWinner
  <2>2. /\ f.last \in S \ Q /\ f.heap.next[f.last] = HeapNull
        /\ f.heap.priority = h.priority /\ f.heap.top = h.top
        /\ \E pr : Line(f.heap, S, pr, Q, FirstWinner(h, e)) /\ pr[f.last] = HeapNull
    BY <1>2, ForwardEnds
  <2> HIDE DEF f
  <2>4. PICK fp : Line(f.heap, S, fp, Q, FirstWinner(h, e)) /\ fp[f.last] = HeapNull
    BY <2>2
  <2>3. /\ m.last \in S /\ m.heap.next[m.last] = HeapNull
        /\ m.heap.priority = f.heap.priority /\ m.heap.top = f.heap.top
        /\ \E pr : Line(m.heap, S, pr, Q, m.last)
    BY ZenonT(60), <2>2, <2>4, BackwardEnds
  <2> HIDE DEF m
  <2> QED
    BY <2>1, <2>2, <2>3
<1> QED
  BY <1>1, <1>2

\* Only the links of the elements S matter.
LEMMA LineLocal ==
  ASSUME NEW h, NEW g, NEW S, NEW par, NEW Q, NEW first, Line(h, S, par, Q, first), HeapType(g),
         \A e \in S : /\ g.priority[e] = h.priority[e] /\ g.prev[e] = h.prev[e]
                      /\ g.next[e] = h.next[e] /\ g.child[e] = h.child[e]
  PROVE  Line(g, S, par, Q, first)
<1>1. Grounded(g, S)
  BY DEF Line, Grounded
<1>2. ASSUME NEW e \in S PROVE LinkedAt(g, S, par, e)
  BY DEF Line, LinkedAt
<1> QED
  BY <1>1, <1>2 DEF Line

\* The heap between two operations.
WholeHeap(h, S) ==
  /\ HeapType(h)
  /\ \/ S = {} /\ h.top = HeapNull
     \/ \E par : Line(h, S, par, {}, h.top) /\ h.next[h.top] = HeapNull

\* The children of an element that is taken out become roots.
Orphaned(par, del) == [e \in HeapRefs |-> IF par[e] = del THEN HeapNull ELSE par[e]]

LEMMA TopRemoved ==
  ASSUME NEW h, NEW S, NEW par, Line(h, S, par, {}, h.top), h.next[h.top] = HeapNull
  PROVE  WholeHeap(WithoutTop(h), S \ {h.top})
<1> DEFINE t == h.top
           c == h.child[t]
           S1 == S \ {t}
           pr == Orphaned(par, t)
           g == [h EXCEPT !.prev[c] = HeapNull]
<1>0. HeapNull \notin HeapRefs
  BY HeapAssumption
<1>1. /\ HeapType(h) /\ S \subseteq HeapRefs /\ par \in [HeapRefs -> MaybeRef] /\ Grounded(h, S)
      /\ t \in S /\ t \in HeapRefs /\ t # HeapNull /\ h.next[t] = HeapNull
      /\ \A e \in S : h.prev[e] = HeapNull <=> e = t
      /\ \A e \in S : LinkedAt(h, S, par, e)
  BY <1>0 DEF Line
<1>2. CASE c = HeapNull
  <2>1. S1 = {}
    <3>1. SUFFICES ASSUME S1 # {} PROVE FALSE
      OBVIOUS
    <3>2. PICK e \in S1 : h.prev[e] \notin S1
      BY <1>1, <3>1 DEF Grounded
    <3>3. h.prev[e] = t /\ e # HeapNull
      BY <1>0, <1>1, <3>2 DEF LinkedAt
    <3> QED
      BY <1>1, <1>2, <3>2, <3>3 DEF LinkedAt
  <2>2. WithoutTop(h) = [h EXCEPT !.top = HeapNull]
    BY <1>2 DEF WithoutTop
  <2>3. HeapType(WithoutTop(h)) /\ WithoutTop(h).top = HeapNull
    BY <1>1, <2>2 DEF HeapType, MaybeRef
  <2> QED
    BY <2>1, <2>3 DEF WholeHeap
<1>3. CASE c # HeapNull
  <2>1. c \in S1 /\ c \in HeapRefs /\ h.prev[c] = t /\ par[c] = t
    BY <1>1, <1>3 DEF LinkedAt
  <2>2. HeapType(g) /\ g.priority = h.priority /\ g.next = h.next /\ g.child = h.child
    BY <1>1 DEF HeapType, MaybeRef
  <2>3. \A e \in S : /\ g.prev[e] = IF e = c THEN HeapNull ELSE h.prev[e]
                     /\ pr[e] = IF par[e] = t THEN HeapNull ELSE par[e]
    BY <1>1, <2>1 DEF HeapType, Orphaned
  <2>4. pr \in [HeapRefs -> MaybeRef]
    BY <1>1 DEF MaybeRef, Orphaned
  <2> HIDE DEF g, pr, c, t
  <2>5. ASSUME NEW e \in S1 PROVE LinkedAt(g, S1, pr, e)
    <3>1. LinkedAt(h, S, par, e) /\ e \in S /\ e # t /\ e # HeapNull
      BY <1>0, <1>1
    <3>2. pr[e] # e
      BY <2>3, <3>1 DEF LinkedAt
    <3>3. g.next[e] # HeapNull => g.next[e] \in S1 /\ g.prev[g.next[e]] = e /\ pr[g.next[e]] = pr[e]
      BY <1>1, <2>1, <2>2, <2>3, <3>1 DEF LinkedAt
    <3>4. g.child[e] # HeapNull => g.child[e] \in S1 /\ g.prev[g.child[e]] = e /\ pr[g.child[e]] = e
      BY <1>1, <2>1, <2>2, <2>3, <3>1 DEF LinkedAt
    <3>5. g.prev[e] = HeapNull => pr[e] = HeapNull
      BY <2>1, <2>3, <3>1 DEF LinkedAt
    <3>6. g.prev[e] # HeapNull => g.prev[e] \in S1 /\ (g.next[g.prev[e]] = e \/ g.child[g.prev[e]] = e)
      BY <1>1, <2>1, <2>2, <2>3, <3>1 DEF LinkedAt, c
    <3>7. pr[e] # HeapNull => pr[e] \in S1 /\ g.priority[pr[e]] <= g.priority[e]
      BY <2>2, <2>3, <3>1 DEF LinkedAt
    <3> QED
      BY <3>2, <3>3, <3>4, <3>5, <3>6, <3>7 DEF LinkedAt
  <2>6. Grounded(g, S1)
    <3> SUFFICES ASSUME NEW T \in SUBSET S1, T # {} PROVE \E e \in T : g.prev[e] \notin T
      BY DEF Grounded
    <3>1. PICK e \in T : h.prev[e] \notin T
      BY <1>1 DEF Grounded
    <3> QED
      BY <1>0, <1>1, <2>3, <3>1
  <2>7. \A e \in S1 : g.prev[e] = HeapNull <=> e \in {} \cup {c}
    BY <1>1, <2>1, <2>3
  <2>8. Line(g, S1, pr, {}, c)
    BY <1>1, <2>1, <2>2, <2>4, <2>5, <2>6, <2>7 DEF Line
  <2> DEFINE m == heap_merge_children(g, c)
             w == [m.heap EXCEPT !.top = m.last]
  <2>9. /\ m.last \in S1 /\ m.heap.next[m.last] = HeapNull
        /\ \E p : Line(m.heap, S1, p, {}, m.last)
    BY <2>8, SiblingsMerged
  <2>10. WithoutTop(h) = w
    BY <1>3 DEF WithoutTop, g, c, t
  <2> HIDE DEF m
  <2>11. HeapType(m.heap) /\ m.last \in HeapRefs
    BY <1>1, <2>9 DEF Line
  <2>12. /\ HeapType(w) /\ w.top = m.last /\ w.priority = m.heap.priority /\ w.prev = m.heap.prev
         /\ w.next = m.heap.next /\ w.child = m.heap.child
    BY <2>11 DEF HeapType, MaybeRef
  <2> HIDE DEF w
  <2>13. \E p : Line(w, S1, p, {}, w.top)
    BY <2>9, <2>12, LineLocal
  <2>14. WholeHeap(w, S1)
    BY <2>9, <2>12, <2>13 DEF WholeHeap
  <2> QED
    BY <2>10, <2>14 DEF t
<1> QED
  BY <1>2, <1>3

\* An inner element is taken out and its children are merged with the top.
LEMMA InnerRemoved ==
  ASSUME NEW h, NEW S, NEW par, Line(h, S, par, {}, h.top), h.next[h.top] = HeapNull,
         NEW del \in S, h.prev[del] # HeapNull
  PROVE  WholeHeap(WithoutInner(h, del), S \ {del})
<1> DEFINE t == h.top
           c == h.child[del]
           p == h.prev[del]
           x == h.next[del]
           S1 == S \ {del}
           pr == Orphaned(par, del)
           u == Unlinked(h, del)
           g == IF c = HeapNull THEN u ELSE [u EXCEPT !.prev[c] = HeapNull]
           Q == IF c = HeapNull THEN {} ELSE {t}
           first == IF c = HeapNull THEN t ELSE c
<1>0. HeapNull \notin HeapRefs
  BY HeapAssumption
<1>1. /\ HeapType(h) /\ S \subseteq HeapRefs /\ par \in [HeapRefs -> MaybeRef] /\ Grounded(h, S)
      /\ t \in S /\ t \in HeapRefs /\ t # HeapNull /\ h.next[t] = HeapNull
      /\ \A e \in S : h.prev[e] = HeapNull <=> e = t
      /\ \A e \in S : LinkedAt(h, S, par, e)
      /\ del \in HeapRefs /\ del # HeapNull /\ del # t
  BY <1>0 DEF Line
<1>2. /\ p \in S /\ p # HeapNull /\ (h.next[p] = del \/ h.child[p] = del)
      /\ x # HeapNull => x \in S /\ h.prev[x] = del /\ par[x] = par[del]
      /\ c # HeapNull => c \in S /\ h.prev[c] = del /\ par[c] = del
      /\ par[del] # del
  BY <1>1 DEF LinkedAt
<1>3. p # del /\ c # del /\ x # del /\ (c # HeapNull => c # x) /\ x # t /\ c # t
  <2>1. PICK e \in {del} : h.prev[e] \notin {del}
    BY <1>1 DEF Grounded
  <2> QED
    BY <2>1, <1>1, <1>2
<1>4. h.child[p] = del => par[del] = p
  BY <1>1, <1>2 DEF LinkedAt
<1>5. h.child[p] # del => h.next[p] = del /\ par[del] = par[p] /\ p # t
  BY <1>1, <1>2 DEF LinkedAt
<1>6. /\ HeapType(u) /\ u.priority = h.priority /\ u.top = h.top
      /\ u.child = [h.child EXCEPT ![p] = IF @ = del THEN x ELSE @]
      /\ u.next = [h.next EXCEPT ![p] = IF h.child[p] = del THEN @ ELSE x]
      /\ u.prev = Link(h.prev, x, p)
  BY <1>1, <1>2 DEF Unlinked, HeapType, Link, MaybeRef
<1>7. u.child[del] = c
  BY <1>1, <1>3, <1>6 DEF HeapType
<1> HIDE DEF u
<1>8. /\ HeapType(g) /\ g.priority = h.priority /\ g.top = h.top
      /\ g.child = u.child /\ g.next = u.next
      /\ g.prev = IF c = HeapNull THEN u.prev ELSE [u.prev EXCEPT ![c] = HeapNull]
  BY <1>0, <1>1, <1>2, <1>6 DEF HeapType, MaybeRef
<1> HIDE DEF g
<1>9. \A e \in S :
        /\ g.prev[e] = IF e = c THEN HeapNull ELSE IF e = x THEN p ELSE h.prev[e]
        /\ g.next[e] = IF e = p /\ h.child[p] # del THEN x ELSE h.next[e]
        /\ g.child[e] = IF e = p /\ h.child[p] = del THEN x ELSE h.child[e]
        /\ pr[e] = IF par[e] = del THEN HeapNull ELSE par[e]
  <2>1. ASSUME NEW e \in S
        PROVE  g.prev[e] = IF e = c THEN HeapNull ELSE IF e = x THEN p ELSE h.prev[e]
    <3>1. e # HeapNull /\ e \in HeapRefs /\ u.prev \in [HeapRefs -> MaybeRef]
      BY <1>0, <1>1, <1>6 DEF HeapType
    <3>2. u.prev[e] = IF e = x THEN p ELSE h.prev[e]
      BY <1>1, <1>2, <1>6, <3>1 DEF HeapType, Link
    <3> QED
      BY <1>2, <1>8, <3>1, <3>2
  <2>2. ASSUME NEW e \in S
        PROVE  /\ g.next[e] = IF e = p /\ h.child[p] # del THEN x ELSE h.next[e]
               /\ g.child[e] = IF e = p /\ h.child[p] = del THEN x ELSE h.child[e]
    BY <1>1, <1>6, <1>8 DEF HeapType
  <2>3. \A e \in S : pr[e] = IF par[e] = del THEN HeapNull ELSE par[e]
    BY <1>1 DEF Orphaned
  <2> QED
    BY <2>1, <2>2, <2>3
<1>10. pr \in [HeapRefs -> MaybeRef]
  BY <1>1 DEF MaybeRef, Orphaned
<1> HIDE DEF pr, c, t, p, x
<1>11. ASSUME NEW e \in S1 PROVE LinkedAt(g, S1, pr, e)
  <2>1. LinkedAt(h, S, par, e) /\ e \in S /\ e # del /\ e # HeapNull
    BY <1>0, <1>1
  <2>2. pr[e] # e
    BY <1>9, <2>1 DEF LinkedAt
  <2>3. g.next[e] # HeapNull => g.next[e] \in S1 /\ g.prev[g.next[e]] = e /\ pr[g.next[e]] = pr[e]
    <3>1. CASE e = p /\ h.child[p] # del
      BY <3>1, <1>2, <1>3, <1>5, <1>9
    <3>2. CASE ~ (e = p /\ h.child[p] # del)
      <4>1. h.next[e] # del
        BY <3>2, <1>1, <1>2, <1>4, <2>1 DEF LinkedAt, p
      <4>2. h.next[e] # HeapNull => h.next[e] # c /\ h.next[e] # x
        BY <1>2, <2>1 DEF LinkedAt
      <4> QED
        BY <3>2, <4>1, <4>2, <1>9, <2>1 DEF LinkedAt
    <3> QED
      BY <3>1, <3>2
  <2>4. g.child[e] # HeapNull => g.child[e] \in S1 /\ g.prev[g.child[e]] = e /\ pr[g.child[e]] = e
    <3>1. CASE e = p /\ h.child[p] = del
      BY <3>1, <1>2, <1>3, <1>4, <1>9
    <3>2. CASE ~ (e = p /\ h.child[p] = del)
      <4>1. h.child[e] # del
        BY <3>2, <1>1, <1>2, <1>5, <2>1 DEF LinkedAt, p
      <4>2. h.child[e] # HeapNull => h.child[e] # c /\ h.child[e] # x
        BY <1>2, <2>1 DEF LinkedAt
      <4> QED
        BY <3>2, <4>1, <4>2, <1>9, <2>1 DEF LinkedAt
    <3> QED
      BY <3>1, <3>2
  <2>5. g.prev[e] = HeapNull => pr[e] = HeapNull
    BY <1>2, <1>9, <2>1 DEF LinkedAt
  <2>6. g.prev[e] # HeapNull => g.prev[e] \in S1 /\ (g.next[g.prev[e]] = e \/ g.child[g.prev[e]] = e)
    <3>1. CASE e = x
      BY <3>1, <1>2, <1>3, <1>9, <2>1
    <3>2. CASE e # x /\ e # c
      <4>1. h.prev[e] # del
        BY <3>2, <2>1, <1>1 DEF LinkedAt, c, x
      <4> QED
        BY <3>2, <4>1, <1>2, <1>9, <2>1 DEF LinkedAt
    <3>3. CASE e = c
      BY <3>3, <1>9, <2>1
    <3> QED
      BY <3>1, <3>2, <3>3
  <2>7. pr[e] # HeapNull => pr[e] \in S1 /\ g.priority[pr[e]] <= g.priority[e]
    BY <1>8, <1>9, <2>1 DEF LinkedAt
  <2> QED
    BY <2>2, <2>3, <2>4, <2>5, <2>6, <2>7 DEF LinkedAt
<1>12. Grounded(g, S1)
  <2> SUFFICES ASSUME NEW T \in SUBSET S1, T # {} PROVE \E e \in T : g.prev[e] \notin T
    BY DEF Grounded
  <2>1. CASE x \in T /\ p \in T
    <3>1. PICK e \in T \cup {del} : h.prev[e] \notin T \cup {del}
      BY <1>1 DEF Grounded
    <3>2. e # del /\ e # x
      BY <2>1, <3>1, <1>0, <1>1, <1>2 DEF p
    <3> QED
      BY <3>1, <3>2, <1>0, <1>1, <1>9
  <2>2. CASE x \in T /\ p \notin T
    BY <2>2, <1>0, <1>1, <1>9
  <2>3. CASE x \notin T
    <3>1. PICK e \in T : h.prev[e] \notin T
      BY <1>1 DEF Grounded
    <3> QED
      BY <2>3, <3>1, <1>0, <1>1, <1>9
  <2> QED
    BY <2>1, <2>2, <2>3
<1>13. g.next[t] = HeapNull
  BY <1>1, <1>5, <1>9
<1>14. \A e \in S1 : g.prev[e] = HeapNull <=> e \in Q \cup {first}
  <2> SUFFICES ASSUME NEW e \in S1 PROVE g.prev[e] = HeapNull <=> e \in Q \cup {first}
    OBVIOUS
  <2>1. e \in S /\ e # HeapNull /\ t # HeapNull
    BY <1>0, <1>1
  <2>2. CASE c = HeapNull
    BY <2>1, <2>2, <1>1, <1>2, <1>3, <1>9
  <2>3. CASE c # HeapNull
    BY <2>1, <2>3, <1>1, <1>2, <1>3, <1>9
  <2> QED
    BY <2>2, <2>3
<1>15. Q \subseteq S1 /\ first \in S1 \ Q /\ \A q \in Q : g.next[q] = HeapNull
  BY <1>1, <1>2, <1>3, <1>13
<1>16. Line(g, S1, pr, Q, first)
  BY <1>1, <1>8, <1>10, <1>11, <1>12, <1>14, <1>15 DEF Line
<1>17. CASE c = HeapNull
  <2>1. WithoutInner(h, del) = g
    BY <1>7, <1>17 DEF WithoutInner, g, u
  <2> QED
    BY <2>1, <1>8, <1>13, <1>16, <1>17 DEF WholeHeap, t
<1>18. CASE c # HeapNull
  <2> DEFINE m == heap_merge_children(g, c)
             k == m.heap
             b == m.last
             w == Rejoined(k, b)
  <2>1. WithoutInner(h, del) = w
    BY <1>7, <1>18 DEF WithoutInner, g, u, c
  <2>2. /\ b \in S1 /\ k.next[b] = HeapNull /\ k.priority = g.priority /\ k.top = t
        /\ \E q : Line(k, S1, q, {t}, b)
    BY <1>8, <1>16, <1>18, SiblingsMerged DEF t
  <2> HIDE DEF m, k, b
  <2>3. PICK q : Line(k, S1, q, {t}, b)
    BY <2>2
  <2>4. /\ HeapType(k) /\ b \in HeapRefs /\ b # t /\ t \in S1 /\ k.next[t] = HeapNull
        /\ k.priority \in [HeapRefs -> Int] /\ S1 \subseteq HeapRefs
        /\ b # HeapNull
    BY <2>3, <1>0, <1>1 DEF Line, HeapType
  <2>5. /\ k.child[t] \in MaybeRef /\ k.child[b] \in MaybeRef
        /\ k.child[t] # b /\ k.child[b] # t
    BY <2>2, <2>3, <2>4, <1>0, <1>1 DEF Line, HeapType, LinkedAt
  <2>8. /\ k.top \in MaybeRef /\ k.prev \in [HeapRefs -> MaybeRef]
        /\ k.next \in [HeapRefs -> MaybeRef] /\ k.child \in [HeapRefs -> MaybeRef]
        /\ t \in MaybeRef /\ b \in MaybeRef
    BY <2>4, <1>1 DEF HeapType, MaybeRef
  <2> HIDE DEF w
  <2>6. CASE Lower(k, t, b)
    <3>1. w = [k EXCEPT !.next[b] = k.child[t], !.child[t] = b,
                        !.prev = [Link(@, k.child[t], b) EXCEPT ![b] = t]]
      BY <2>2, <2>6 DEF Rejoined, w
    <3>7. Link(k.prev, k.child[t], b) \in [HeapRefs -> MaybeRef]
      BY <2>4 DEF HeapType, Link, MaybeRef
    <3>2. HeapType(w) /\ w.top = t
      BY <2>2, <2>4, <2>5, <2>8, <3>1, <3>7 DEF HeapType
    <3>3. MovedUnder(k, w, S1, t, b)
      BY <2>4, <2>5, <3>1, <3>2, <1>0, <1>1 DEF MovedUnder, HeapType, Link
    <3>4. Line(k, S1, q, {b}, t)
      BY <2>2, <2>3, <2>4 DEF Line
    <3>5. k.priority[t] <= k.priority[b]
      BY <2>4, <2>6, <1>1 DEF Lower
    <3>6. \E pq : Line(w, S1, pq, {}, t) /\ w.next[t] = HeapNull
      BY <3>3, <3>4, <3>5, <2>4, TreesJoined
    <3> QED
      BY <2>1, <3>2, <3>6 DEF WholeHeap
  <2>7. CASE ~ Lower(k, t, b)
    <3>1. w = [k EXCEPT !.next[t] = k.child[b], !.child[b] = t, !.top = b,
                        !.prev = [Link(@, k.child[b], t) EXCEPT ![t] = b]]
      BY <2>2, <2>7 DEF Rejoined, w
    <3>7. Link(k.prev, k.child[b], t) \in [HeapRefs -> MaybeRef]
      BY <2>4, <1>1 DEF HeapType, Link, MaybeRef
    <3>2. HeapType(w) /\ w.top = b
      BY <2>2, <2>4, <2>5, <2>8, <3>1, <3>7 DEF HeapType
    <3>3. MovedUnder(k, w, S1, b, t)
      BY <2>4, <2>5, <3>1, <3>2, <1>0, <1>1 DEF MovedUnder, HeapType, Link
    <3>5. k.priority[b] <= k.priority[t]
      BY <2>4, <2>7, <1>1 DEF Lower
    <3>6. \E pq : Line(w, S1, pq, {}, b) /\ w.next[b] = HeapNull
      BY <3>3, <3>5, <2>2, <2>3, TreesJoined
    <3> QED
      BY <2>1, <3>2, <3>6 DEF WholeHeap
  <2> QED
    BY <2>6, <2>7
<1> QED
  BY <1>17, <1>18

\* An element is added: it and the top are joined.
LEMMA ElementAdded ==
  ASSUME NEW ref \in HeapRefs, NEW priority \in HeapPriorities, in_heap \subseteq HeapRefs,
         WholeHeap(heap, in_heap), heap_add(ref, priority)
  PROVE  WholeHeap(heap', in_heap')
<1> DEFINE t == heap.top
           w == heap'
           S == in_heap \cup {ref}
           h == [heap EXCEPT !.priority[ref] = priority, !.prev[ref] = HeapNull,
                             !.next[ref] = HeapNull, !.child[ref] = HeapNull]
           new == [heap EXCEPT !.priority[ref] = priority]
           wins == t = HeapNull \/ heap.priority[t] > priority
<1>0. HeapNull \notin HeapRefs
  BY HeapAssumption
<1>1. /\ HeapType(heap) /\ priority \in Int /\ ref \notin in_heap /\ ref # HeapNull
      /\ in_heap' = S /\ S \subseteq HeapRefs
  BY <1>0, HeapAssumption DEF WholeHeap, heap_add
<1>2. /\ heap.top \in MaybeRef /\ heap.priority \in [HeapRefs -> Int]
      /\ heap.prev \in [HeapRefs -> MaybeRef] /\ heap.next \in [HeapRefs -> MaybeRef]
      /\ heap.child \in [HeapRefs -> MaybeRef] /\ HeapNull \in MaybeRef /\ ref \in MaybeRef
  BY <1>1 DEF HeapType, MaybeRef
<1>3. /\ new.top = t /\ new.priority = [heap.priority EXCEPT ![ref] = priority]
      /\ new.prev = heap.prev /\ new.next = heap.next /\ new.child = heap.child /\ HeapType(new)
  BY <1>1, <1>2 DEF HeapType
<1>4. /\ HeapType(h) /\ h.top = t /\ h.priority = new.priority
      /\ h.prev = [heap.prev EXCEPT ![ref] = HeapNull]
      /\ h.next = [heap.next EXCEPT ![ref] = HeapNull]
      /\ h.child = [heap.child EXCEPT ![ref] = HeapNull]
  BY <1>1, <1>2, <1>3 DEF HeapType
<1>5. \A e \in S :
        /\ h.priority[e] = IF e = ref THEN priority ELSE heap.priority[e]
        /\ h.prev[e] = IF e = ref THEN HeapNull ELSE heap.prev[e]
        /\ h.next[e] = IF e = ref THEN HeapNull ELSE heap.next[e]
        /\ h.child[e] = IF e = ref THEN HeapNull ELSE heap.child[e]
  BY <1>1, <1>2, <1>3, <1>4
<1>6. wins => w = [new EXCEPT !.top = ref, !.prev = [Link(@, t, ref) EXCEPT ![ref] = HeapNull],
                              !.next[ref] = HeapNull, !.child[ref] = t]
  BY DEF heap_add
<1>7. ~ wins => w = [new EXCEPT !.prev = [Link(@, heap.child[t], ref) EXCEPT ![ref] = t],
                                !.next[ref] = heap.child[t], !.child[ref] = HeapNull,
                                !.child[t] = ref]
  BY DEF heap_add
<1> HIDE DEF new, h, w
\* Apart from each other, and of the new element nothing but the element.
<1>8. ASSUME NEW par, Line(heap, in_heap, par, {}, t)
      PROVE  \E pr : Line(h, S, pr, {ref}, t)
  <2> DEFINE alone == [par EXCEPT ![ref] = HeapNull]
  <2>1. /\ par \in [HeapRefs -> MaybeRef] /\ t \in in_heap /\ Grounded(heap, in_heap)
        /\ \A e \in in_heap : LinkedAt(heap, in_heap, par, e)
        /\ \A e \in in_heap : heap.prev[e] = HeapNull <=> e = t
    BY <1>8 DEF Line
  <2>2. alone \in [HeapRefs -> MaybeRef] /\ \A e \in S : alone[e] = IF e = ref THEN HeapNull ELSE par[e]
    BY <1>1, <1>2, <2>1
  <2> HIDE DEF alone
  <2>3. ASSUME NEW e \in in_heap PROVE LinkedAt(h, S, alone, e)
    <3>1. LinkedAt(heap, in_heap, par, e) /\ e # ref
      BY <1>1, <2>1
    <3> QED
      BY <3>1, <1>1, <1>5, <2>2 DEF LinkedAt
  <2>4. LinkedAt(h, S, alone, ref)
    BY <1>1, <1>5, <2>2 DEF LinkedAt
  <2>5. Grounded(h, S)
    <3> SUFFICES ASSUME NEW T \in SUBSET S, T # {} PROVE \E e \in T : h.prev[e] \notin T
      BY DEF Grounded
    <3>1. CASE ref \in T
      BY <3>1, <1>0, <1>1, <1>5
    <3>2. CASE ref \notin T
      <4>1. PICK e \in T : heap.prev[e] \notin T
        BY <3>2, <2>1 DEF Grounded
      <4> QED
        BY <3>2, <4>1, <1>5
    <3> QED
      BY <3>1, <3>2
  <2>6. \A e \in S : h.prev[e] = HeapNull <=> e \in {ref} \cup {t}
    BY <1>1, <1>5, <2>1
  <2>7. {ref} \subseteq S /\ t \in S \ {ref} /\ \A q \in {ref} : h.next[q] = HeapNull
    BY <1>1, <1>5, <2>1
  <2>8. Line(h, S, alone, {ref}, t)
    BY <1>1, <1>4, <2>2, <2>3, <2>4, <2>5, <2>6, <2>7 DEF Line
  <2> QED
    BY <2>8
<1>9. CASE in_heap = {} /\ t = HeapNull
  <2> DEFINE pr == [e \in HeapRefs |-> HeapNull]
  <2>1. /\ HeapType(w) /\ w.top = ref
        /\ w.prev[ref] = HeapNull /\ w.next[ref] = HeapNull /\ w.child[ref] = HeapNull
    <3>1. Link(new.prev, t, ref) = new.prev
      BY <1>9 DEF Link
    <3>2. w = [new EXCEPT !.top = ref, !.prev = [@ EXCEPT ![ref] = HeapNull],
                          !.next[ref] = HeapNull, !.child[ref] = HeapNull]
      BY <1>6, <1>9, <3>1
    <3> QED
      BY <3>2, <1>2, <1>3 DEF HeapType
  <2>2. pr \in [HeapRefs -> MaybeRef] /\ pr[ref] = HeapNull
    BY <1>2
  <2>3. S = {ref}
    BY <1>9
  <2> HIDE DEF pr, S
  <2>4. LinkedAt(w, S, pr, ref)
    BY <1>1, <2>1, <2>2 DEF LinkedAt
  <2>5. Grounded(w, S)
    BY <1>1, <2>1, <2>3 DEF Grounded
  <2>6. Line(w, S, pr, {}, w.top)
    BY <1>1, <2>1, <2>2, <2>3, <2>4, <2>5 DEF Line
  <2> QED
    BY <1>1, <2>1, <2>6 DEF WholeHeap, w
<1>10. CASE ~ (in_heap = {} /\ t = HeapNull)
  <2>1. PICK par : Line(heap, in_heap, par, {}, t) /\ heap.next[t] = HeapNull
    BY <1>10 DEF WholeHeap
  <2>2. /\ t \in in_heap /\ t \in HeapRefs /\ t # HeapNull /\ t # ref /\ t \in MaybeRef
        /\ heap.priority[t] \in Int
    BY <2>1, <1>0, <1>1, <1>2 DEF Line, MaybeRef
  <2>3. \E pr : Line(h, S, pr, {ref}, t)
    BY <1>8, <2>1
  <2>4. PICK pr : Line(h, S, pr, {ref}, t)
    BY <2>3
  <2>5. h.next[t] = HeapNull /\ h.next[ref] = HeapNull
    BY <1>5, <2>1, <2>2
  <2>6. heap.child[t] # ref /\ heap.child[t] \in MaybeRef /\ heap.child[t] # t
        /\ (heap.child[t] # HeapNull => heap.child[t] \in in_heap)
    BY <2>1, <2>2, <1>0, <1>1, <1>2 DEF Line, LinkedAt
  <2>7. CASE wins
    <3>1. Link(new.prev, t, ref) \in [HeapRefs -> MaybeRef]
      BY <1>2, <1>3 DEF Link
    <3>3. /\ w.prev = [Link(new.prev, t, ref) EXCEPT ![ref] = HeapNull]
          /\ w.next = [new.next EXCEPT ![ref] = HeapNull]
          /\ w.child = [new.child EXCEPT ![ref] = t] /\ w.priority = new.priority
      BY ZenonT(60), <1>2, <1>3, <1>6, <2>7 DEF HeapType
    <3>8. /\ w.prev \in [HeapRefs -> MaybeRef] /\ w.next \in [HeapRefs -> MaybeRef]
          /\ w.child \in [HeapRefs -> MaybeRef]
      BY <1>2, <1>3, <2>2, <3>1, <3>3
    <3>9. w = [new EXCEPT !.top = ref, !.prev = w.prev, !.next = w.next, !.child = w.child]
      BY <1>2, <1>3, <1>6, <2>7, <3>3 DEF HeapType
    <3>2. HeapType(w) /\ w.top = ref
      BY <1>2, <1>3, <3>8, <3>9 DEF HeapType
    <3>4. MovedUnder(h, w, S, ref, t)
      <4> SUFFICES ASSUME NEW e \in S
                   PROVE  /\ w.priority[e] = h.priority[e]
                          /\ w.prev[e] = IF e = t THEN ref ELSE IF e = h.child[ref] THEN t ELSE h.prev[e]
                          /\ w.next[e] = IF e = t THEN h.child[ref] ELSE h.next[e]
                          /\ w.child[e] = IF e = ref THEN t ELSE h.child[e]
        BY <3>2 DEF MovedUnder
      <4>1. e \in HeapRefs /\ e # HeapNull /\ h.child[ref] = HeapNull
        BY <1>0, <1>1, <1>5
      <4>2. w.prev[e] = IF e = ref THEN HeapNull ELSE IF e = t THEN ref ELSE heap.prev[e]
        BY <3>3, <4>1, <1>2, <1>3, <2>2 DEF Link
      <4>3. w.next[e] = h.next[e] /\ w.child[e] = (IF e = ref THEN t ELSE heap.child[e])
            /\ w.priority[e] = h.priority[e]
        BY <3>3, <4>1, <1>2, <1>3, <1>4
      <4> QED
        BY <4>1, <4>2, <4>3, <1>5, <2>2, <2>5
    <3>5. Line(h, S, pr, {t}, ref)
      BY <2>2, <2>4, <2>5 DEF Line
    <3>6. h.priority[ref] <= h.priority[t]
      BY <1>1, <1>5, <2>2, <2>7
    <3>7. \E p : Line(w, S, p, {}, ref) /\ w.next[ref] = HeapNull
      BY <2>5, <3>4, <3>5, <3>6, TreesJoined
    <3> QED
      BY <1>1, <3>2, <3>7 DEF WholeHeap, w
  <2>8. CASE ~ wins
    <3>1. Link(new.prev, heap.child[t], ref) \in [HeapRefs -> MaybeRef]
      BY <1>2, <1>3 DEF Link
    <3>3. /\ w.prev = [Link(new.prev, heap.child[t], ref) EXCEPT ![ref] = t]
          /\ w.next = [new.next EXCEPT ![ref] = heap.child[t]]
          /\ w.child = [[new.child EXCEPT ![ref] = HeapNull] EXCEPT ![t] = ref]
          /\ w.priority = new.priority
      BY <1>2, <1>3, <1>7, <2>8 DEF HeapType
    <3>8. /\ w.prev \in [HeapRefs -> MaybeRef] /\ w.next \in [HeapRefs -> MaybeRef]
          /\ w.child \in [HeapRefs -> MaybeRef]
      BY <1>2, <1>3, <2>2, <2>6, <3>1, <3>3
    <3>9. w = [new EXCEPT !.prev = w.prev, !.next = w.next, !.child = w.child]
      BY <1>2, <1>3, <1>7, <2>8, <3>3 DEF HeapType
    <3>2. HeapType(w) /\ w.top = t
      BY <1>2, <1>3, <3>8, <3>9 DEF HeapType
    <3>4. MovedUnder(h, w, S, t, ref)
      <4> SUFFICES ASSUME NEW e \in S
                   PROVE  /\ w.priority[e] = h.priority[e]
                          /\ w.prev[e] = IF e = ref THEN t ELSE IF e = h.child[t] THEN ref ELSE h.prev[e]
                          /\ w.next[e] = IF e = ref THEN h.child[t] ELSE h.next[e]
                          /\ w.child[e] = IF e = t THEN ref ELSE h.child[e]
        BY <3>2 DEF MovedUnder
      <4>1. e \in HeapRefs /\ e # HeapNull /\ h.child[t] = heap.child[t]
        BY <1>0, <1>1, <1>5, <2>2
      <4>2. w.prev[e] = IF e = ref THEN t ELSE IF e = heap.child[t] THEN ref ELSE heap.prev[e]
        BY <3>3, <4>1, <1>2, <1>3, <2>6 DEF Link, MaybeRef
      <4>3. w.next[e] = (IF e = ref THEN heap.child[t] ELSE heap.next[e])
            /\ w.priority[e] = h.priority[e]
            /\ w.child[e] = (IF e = t THEN ref ELSE h.child[e])
        BY <3>3, <4>1, <1>2, <1>3, <1>4, <2>2
      <4> QED
        BY <4>1, <4>2, <4>3, <1>5, <2>2
    <3>6. h.priority[t] <= h.priority[ref]
      BY <1>1, <1>5, <2>2, <2>8
    <3>7. \E p : Line(w, S, p, {}, t) /\ w.next[t] = HeapNull
      BY <2>4, <2>5, <3>4, <3>6, TreesJoined
    <3> QED
      BY <1>1, <3>2, <3>7 DEF WholeHeap, w
  <2> QED
    BY <2>7, <2>8
<1> QED
  BY <1>9, <1>10

\* What is put back into the pool is no longer part of the heap.
LEMMA ForgottenOutside ==
  ASSUME NEW h, NEW S, NEW e \in HeapRefs, e \notin S, WholeHeap(h, S)
  PROVE  WholeHeap(Forgotten(h, e), S)
<1> DEFINE g == Forgotten(h, e)
<1>1. /\ h.top \in MaybeRef /\ h.priority \in [HeapRefs -> Int] /\ h.prev \in [HeapRefs -> MaybeRef]
      /\ h.next \in [HeapRefs -> MaybeRef] /\ h.child \in [HeapRefs -> MaybeRef] /\ HeapType(h)
      /\ HeapNull \in MaybeRef
  BY DEF WholeHeap, HeapType, MaybeRef
<1>5. g = [h EXCEPT !.priority = [@ EXCEPT ![e] = 0], !.prev = [@ EXCEPT ![e] = HeapNull],
                    !.next = [@ EXCEPT ![e] = HeapNull], !.child = [@ EXCEPT ![e] = HeapNull]]
  BY DEF Forgotten
<1>6. /\ g.top = h.top /\ g.priority = [h.priority EXCEPT ![e] = 0]
      /\ g.prev = [h.prev EXCEPT ![e] = HeapNull] /\ g.next = [h.next EXCEPT ![e] = HeapNull]
      /\ g.child = [h.child EXCEPT ![e] = HeapNull]
  BY <1>1, <1>5 DEF HeapType
<1>8. /\ g.priority \in [HeapRefs -> Int] /\ g.prev \in [HeapRefs -> MaybeRef]
      /\ g.next \in [HeapRefs -> MaybeRef] /\ g.child \in [HeapRefs -> MaybeRef]
  BY <1>1, <1>6
<1>9. g = [h EXCEPT !.priority = g.priority, !.prev = g.prev, !.next = g.next, !.child = g.child]
  BY <1>1, <1>5, <1>6 DEF HeapType
<1>7. HeapType(g)
  BY <1>1, <1>8, <1>9 DEF HeapType
<1>2. /\ HeapType(g) /\ g.top = h.top /\ g.priority = [h.priority EXCEPT ![e] = 0]
      /\ g.prev = [h.prev EXCEPT ![e] = HeapNull] /\ g.next = [h.next EXCEPT ![e] = HeapNull]
      /\ g.child = [h.child EXCEPT ![e] = HeapNull]
  BY <1>6, <1>7
<1> HIDE DEF g
<1>3. CASE S = {} /\ h.top = HeapNull
  BY <1>2, <1>3 DEF WholeHeap, g
<1>4. CASE \E par : Line(h, S, par, {}, h.top) /\ h.next[h.top] = HeapNull
  <2>1. PICK par : Line(h, S, par, {}, h.top) /\ h.next[h.top] = HeapNull
    BY <1>4
  <2>2. S \subseteq HeapRefs /\ h.top \in S
    BY <2>1 DEF Line
  <2>3. \A d \in S : /\ g.priority[d] = h.priority[d] /\ g.prev[d] = h.prev[d]
                     /\ g.next[d] = h.next[d] /\ g.child[d] = h.child[d]
    BY <1>1, <1>2, <2>2
  <2>4. Line(g, S, par, {}, h.top)
    BY <1>7, <2>1, <2>3, LineLocal
  <2>5. Line(g, S, par, {}, g.top) /\ g.next[g.top] = HeapNull
    BY <1>2, <2>1, <2>2, <2>3, <2>4
  <2>6. WholeHeap(g, S)
    BY <1>2, <2>5 DEF WholeHeap
  <2> QED
    BY <2>6 DEF g
<1> QED
  BY <1>3, <1>4 DEF WholeHeap

LEMMA ElementDeleted ==
  ASSUME NEW ref \in HeapRefs, in_heap \subseteq HeapRefs, WholeHeap(heap, in_heap), heap_del(ref)
  PROVE  WholeHeap(heap', in_heap')
<1> DEFINE without == IF heap.prev[ref] = HeapNull THEN WithoutTop(heap) ELSE WithoutInner(heap, ref)
<1>1. ref \in in_heap /\ in_heap' = in_heap \ {ref} /\ heap' = Forgotten(without, ref)
  BY DEF heap_del
<1>2. PICK par : Line(heap, in_heap, par, {}, heap.top) /\ heap.next[heap.top] = HeapNull
  BY <1>1 DEF WholeHeap
<1>3. heap.prev[ref] = HeapNull <=> ref = heap.top
  BY <1>1, <1>2 DEF Line
<1>4. WholeHeap(without, in_heap \ {ref})
  <2>1. CASE heap.prev[ref] = HeapNull
    BY <2>1, <1>2, <1>3, TopRemoved
  <2>2. CASE heap.prev[ref] # HeapNull
    BY <2>2, <1>1, <1>2, InnerRemoved
  <2> QED
    BY <2>1, <2>2
<1> HIDE DEF without
<1>5. WholeHeap(Forgotten(without, ref), in_heap \ {ref})
  BY <1>4, ForgottenOutside
<1> QED
  BY <1>1, <1>5

-----------------------------------------------------------------------------
(***************************************************************************)
(* The theorem.                                                            *)
(***************************************************************************)

\* What holds between two operations.
HeapInv == in_heap \subseteq HeapRefs /\ WholeHeap(heap, in_heap)

\* A tree that is ordered from parent to child has its least element on top.
LEMMA OrderedTree ==
  ASSUME NEW par, Line(heap, in_heap, par, {}, heap.top), heap.next[heap.top] = HeapNull
  PROVE  NothingLost /\ LinkedBothWays /\ TopIsEarliest
<1> DEFINE t == heap.top
<1>0. HeapNull \notin HeapRefs
  BY HeapAssumption
<1>1. /\ HeapType(heap) /\ in_heap \subseteq HeapRefs /\ par \in [HeapRefs -> MaybeRef]
      /\ Grounded(heap, in_heap) /\ t \in in_heap
      /\ \A e \in in_heap : LinkedAt(heap, in_heap, par, e)
      /\ \A e \in in_heap : heap.prev[e] = HeapNull <=> e = t
      /\ heap.prev[t] = HeapNull /\ heap.next[t] = HeapNull
  BY DEF Line
<1>2. NothingLost
  <2>1. LeadsWithin(in_heap)
    BY <1>1 DEF LeadsWithin, LinkedAt
  <2>2. ASSUME NEW U \in SUBSET in_heap, t \in U, LeadsWithin(U) PROVE U = in_heap
    <3>1. SUFFICES ASSUME in_heap \ U # {} PROVE FALSE
      OBVIOUS
    <3>2. PICK e \in in_heap \ U : heap.prev[e] \notin in_heap \ U
      BY <1>1, <3>1 DEF Grounded
    <3>3. heap.prev[e] # HeapNull /\ e # HeapNull
      BY <1>0, <1>1, <2>2, <3>2
    <3>4. heap.prev[e] \in U /\ (heap.next[heap.prev[e]] = e \/ heap.child[heap.prev[e]] = e)
      BY <1>1, <3>2, <3>3 DEF LinkedAt
    <3> QED
      BY <2>2, <3>2, <3>3, <3>4 DEF LeadsWithin
  <2> QED
    BY <1>1, <2>1, <2>2 DEF NothingLost
<1>3. LinkedBothWays
  <2>1. ASSUME NEW e \in in_heap
        PROVE  /\ heap.next[e] # HeapNull => heap.prev[heap.next[e]] = e
               /\ heap.child[e] # HeapNull => heap.prev[heap.child[e]] = e
    BY <1>1 DEF LinkedAt
  <2>2. ASSUME NEW e \in in_heap, e # t
        PROVE  LET p == heap.prev[e] IN p \in in_heap /\ (heap.next[p] = e) # (heap.child[p] = e)
    <3> DEFINE p == heap.prev[e]
    <3>1. p \in in_heap /\ (heap.next[p] = e \/ heap.child[p] = e) /\ e # HeapNull
      BY <1>0, <1>1, <2>2 DEF LinkedAt
    <3>2. ~ (heap.next[p] = e /\ heap.child[p] = e)
      BY <1>1, <3>1 DEF LinkedAt
    <3>3. heap.next[p] = e \/ heap.next[p] # e
      OBVIOUS
    <3>4. CASE heap.next[p] = e
      BY <3>1, <3>2, <3>4
    <3>5. CASE heap.next[p] # e
      BY <3>1, <3>5
    <3> QED
      BY <3>4, <3>5
  <2> QED
    BY <1>1, <2>1, <2>2 DEF LinkedBothWays
<1>4. TopIsEarliest
  <2> DEFINE pri == heap.priority
             Early == {e \in in_heap : \/ pri[e] < pri[t]
                                       \/ par[e] # HeapNull /\ pri[par[e]] < pri[t]}
  <2>1. ASSUME Early # {} PROVE FALSE
    <3>1. PICK e \in Early : heap.prev[e] \notin Early
      BY <1>1, <2>1 DEF Grounded
    <3>2. pri[e] \in Int /\ pri[t] \in Int /\ e \in in_heap /\ LinkedAt(heap, in_heap, par, e)
      BY <1>1, <3>1 DEF HeapType
    <3>3. CASE e = t
      <4>1. par[t] = HeapNull
        BY <1>1 DEF LinkedAt
      <4> QED
        BY <3>1, <3>2, <3>3, <4>1
    <3>4. CASE e # t
      <4>1. heap.prev[e] \in in_heap /\ LinkedAt(heap, in_heap, par, heap.prev[e])
            /\ (heap.next[heap.prev[e]] = e \/ heap.child[heap.prev[e]] = e) /\ e # HeapNull
        BY <1>0, <1>1, <3>2, <3>4 DEF LinkedAt
      <4>2. ~ (pri[heap.prev[e]] < pri[t])
            /\ (par[heap.prev[e]] # HeapNull => ~ (pri[par[heap.prev[e]]] < pri[t]))
        BY <3>1, <4>1
      <4>3. par[e] = par[heap.prev[e]] \/ par[e] = heap.prev[e]
        BY <4>1 DEF LinkedAt
      <4>4. par[e] # HeapNull => ~ (pri[par[e]] < pri[t])
        BY <4>2, <4>3
      <4>5. pri[e] < pri[t]
        BY <3>1, <4>4
      <4>6. par[e] # HeapNull
        <5>1. e \notin Roots(in_heap, par)
          BY <3>4, OnlyFirst
        <5> QED
          BY <3>2, <5>1 DEF Roots
      <4>7. par[e] \in in_heap /\ pri[par[e]] <= pri[e]
        BY <3>2, <4>6 DEF LinkedAt
      <4>8. pri[par[e]] \in Int
        BY <1>1, <4>7 DEF HeapType
      <4> QED
        BY <3>2, <4>4, <4>5, <4>6, <4>7, <4>8
    <3> QED
      BY <3>3, <3>4
  <2>2. ASSUME NEW e \in in_heap PROVE pri[t] <= pri[e]
    <3>1. pri[e] \in Int /\ pri[t] \in Int /\ e \notin Early
      BY <1>1, <2>1 DEF HeapType
    <3> QED
      BY <3>1
  <2> QED
    BY <2>2 DEF TopIsEarliest
<1> QED
  BY <1>2, <1>3, <1>4

LEMMA HeapSoundHolds == HeapInv => HeapSound
<1> SUFFICES ASSUME HeapInv PROVE HeapSound
  OBVIOUS
<1>1. CASE in_heap = {} /\ heap.top = HeapNull
  <2>1. NothingLost
    BY <1>1 DEF NothingLost, LeadsWithin
  <2>2. LinkedBothWays /\ TopIsEarliest
    BY <1>1 DEF LinkedBothWays, TopIsEarliest
  <2> QED
    BY <2>1, <2>2 DEF HeapSound
<1>2. CASE \E par : Line(heap, in_heap, par, {}, heap.top) /\ heap.next[heap.top] = HeapNull
  BY <1>2, OrderedTree DEF HeapSound
<1> QED
  BY <1>1, <1>2 DEF HeapInv, WholeHeap

LEMMA HeapInvInit == HeapInit => HeapInv
<1> SUFFICES ASSUME HeapInit PROVE HeapInv
  OBVIOUS
<1>1. HeapType(heap) /\ heap.top = HeapNull /\ in_heap = {}
  BY DEF HeapInit, HeapType, MaybeRef
<1> QED
  BY <1>1 DEF HeapInv, WholeHeap

LEMMA HeapInvNext == HeapInv /\ [HeapNext]_heap_vars => HeapInv'
<1> SUFFICES ASSUME HeapInv, [HeapNext]_heap_vars PROVE HeapInv'
  OBVIOUS
<1>1. in_heap \subseteq HeapRefs /\ WholeHeap(heap, in_heap)
  BY DEF HeapInv
<1>2. ASSUME NEW ref \in HeapRefs, NEW p \in HeapPriorities, heap_add(ref, p) PROVE HeapInv'
  <2>1. WholeHeap(heap', in_heap')
    BY <1>1, <1>2, ElementAdded
  <2>2. in_heap' \subseteq HeapRefs
    BY <1>1, <1>2 DEF heap_add
  <2> QED
    BY <2>1, <2>2 DEF HeapInv
<1>3. ASSUME NEW ref \in HeapRefs, heap_del(ref) PROVE HeapInv'
  <2>1. WholeHeap(heap', in_heap')
    BY <1>1, <1>3, ElementDeleted
  <2>2. in_heap' \subseteq HeapRefs
    BY <1>1, <1>3 DEF heap_del
  <2> QED
    BY <2>1, <2>2 DEF HeapInv
<1>4. ASSUME heap_pop PROVE HeapInv'
  <2>1. heap_del(heap.top) /\ heap.top \in in_heap
    BY <1>4 DEF heap_pop, heap_del
  <2> QED
    BY <1>1, <1>3, <2>1
<1>5. CASE UNCHANGED heap_vars
  <2>1. heap' = heap /\ in_heap' = in_heap
    BY <1>5 DEF heap_vars
  <2> QED
    BY <1>1, <2>1 DEF HeapInv
<1> QED
  BY <1>2, <1>3, <1>4, <1>5 DEF HeapNext

\* Timers that are set, stopped in any order and popped are neither lost nor
\* put behind later ones: the elements that were added and not deleted are those
\* reached from the top, linked both ways, and none of them is earlier than the
\* top.
THEOREM HeapOrdered == HeapSpec => []HeapSound
<1>1. HeapSpec => []HeapInv
  BY HeapInvInit, HeapInvNext, PTL DEF HeapSpec
<1> QED
  BY <1>1, HeapSoundHolds, PTL

-----------------------------------------------------------------------------
(***************************************************************************)
(* The two ends of a TCP stream: what is right about a context, about a    *)
(* segment under way, and about the two ends and the network together.     *)
(***************************************************************************)

\* The first data byte of a peer has this sequence number.
First(p) == IF p = "client" THEN 100 ELSE 201
Total(a, p) == Before(a, p)[Len(a)]
Closer(a) == a[Len(a)].peer

States(p) == (IF p = "client" THEN {"CLOSED", "SYN_SENT"} ELSE {"LISTEN", "SYN_RECEIVED"})
               \cup {"ESTABLISHED", "FIN_WAIT", "TIME_WAIT", "LAST_ACK"}
Closing == {"FIN_WAIT", "TIME_WAIT", "LAST_ACK"}
CtxFlags == {"SYN", "FIN", "NEW_DATA", "MORE_DATA", "PROGRESS"}
CtxType(a, p) ==
  [st : States(p), act : 1 .. Len(a), next : Int, ackd : Int, recv : Int, ackable : Int,
   first : Int, ofirst : Int, same : Nat, flags : SUBSET CtxFlags]
OpenC(c) == c.st \notin {"GONE", "CLOSED", "LISTEN", "SYN_SENT"}
\* The peer knows the other's numbers; it sends with numbers of its own.
Known(c) == c.st # "GONE" /\ "SYN" \in c.flags
Sending(c) == OpenC(c) \/ c.st = "SYN_SENT"
\* All it may have sent is below this: sending again takes next_seq back.
HighSent(c) == IF c.ackable # 0 THEN c.ackable ELSE c.next
Fin(flags) == IF "FIN" \in flags THEN 1 ELSE 0

\* What was received fits the action the peer is at.
Played(a, p, c) ==
  LET q == Other(p)  got == c.recv - First(q)  before == Before(a, q)[c.act] IN
  /\ "FIN" \in c.flags => c.act = Len(a)
  /\ before <= got
  /\ c.act = Len(a) => got = before + Fin(c.flags)
  /\ c.act # Len(a) /\ a[c.act].peer = p => got = before
  /\ c.act # Len(a) /\ a[c.act].peer = q => got < before + a[c.act].len

\* The sequence number at which the current action begins.
Base(a, p, c) == First(p) + Before(a, p)[c.act]
CtxKnown(a, p, c) ==
  IF "SYN" \in c.flags
  THEN c.ofirst = First(Other(p)) /\ c.recv >= First(Other(p)) /\ Played(a, p, c)
  ELSE c.recv = 0 /\ c.act = 1
CtxSynSent(c) ==
  c.st = "SYN_SENT" =>
    /\ c.next = 100 /\ c.first = 100 /\ "FIN" \notin c.flags /\ c.act = 1
    /\ IF "SYN" \in c.flags THEN c.ackd = 100 /\ c.recv = 201 ELSE c.ackd = 99
CtxListen(a, p, c) ==
  /\ c.st \in {"LISTEN", "SYN_RECEIVED"} => Before(a, p)[c.act] = 0
  /\ c.st = "SYN_RECEIVED" => c.next = 201 /\ c.ackd \in {200, 201}
CtxEstablished(a, p, c) ==
  c.st = "ESTABLISHED" =>
    IF c.ackable = 0 THEN c.ackd = Base(a, p, c) /\ c.next = Base(a, p, c)
    ELSE /\ a[c.act].peer = p /\ c.act # Len(a) /\ c.ackable = Base(a, p, c) + a[c.act].len
         /\ Base(a, p, c) <= c.ackd /\ c.ackd < c.ackable
         /\ Base(a, p, c) <= c.next /\ c.next <= c.ackable
CtxClosing(a, p, c) ==
  c.st \in Closing =>
    /\ c.act = Len(a) /\ c.next = First(p) + Total(a, p) + 1 /\ c.ackd \in {c.next - 1, c.next}
    /\ c.st = "LAST_ACK" <=> Closer(a) # p
    /\ c.st # "FIN_WAIT" => "FIN" \in c.flags
CtxOK(a, p, c) ==
  /\ c \in CtxType(a, p)
  /\ CtxKnown(a, p, c)
  /\ OpenC(c) => "SYN" \in c.flags /\ c.first = First(p)
  /\ c.st # "ESTABLISHED" => c.ackable = 0
  /\ c.st = "CLOSED" => c.flags = {}
  /\ CtxSynSent(c) /\ CtxListen(a, p, c) /\ CtxEstablished(a, p, c) /\ CtxClosing(a, p, c)

\* A segment under way; create_tcp_pkt gives it numbers that fit its sender.
SegType == [from : Peers, flags : SUBSET {"SYN", "ACK", "FIN", "RST"}, seq : Int, ack : Int, pos : Int, len : Nat]
Plain(s) == "ACK" \in s.flags /\ "SYN" \notin s.flags
SegSyn(p, s) ==
  /\ "SYN" \in s.flags /\ s.len = 0 /\ "FIN" \notin s.flags /\ "RST" \notin s.flags
  /\ IF p = "client" THEN "ACK" \notin s.flags /\ s.seq = 99
     ELSE "ACK" \in s.flags /\ s.seq = 200 /\ s.ack >= 100
SegPlain(a, p, s) ==
  /\ Plain(s) /\ "RST" \notin s.flags /\ s.seq = First(p) + s.pos /\ s.pos >= 0 /\ s.ack >= First(Other(p))
  /\ s.len > 0 => s.pos + s.len <= Total(a, p)
  /\ "FIN" \in s.flags => /\ s.len = 0 /\ s.pos = Total(a, p)
                          /\ s.ack >= First(Other(p)) + Total(a, Other(p))
Segs(ns) == {ns[i] : i \in 1 .. Len(ns)}
Segment_(a, p) == {s \in SegType : s.from = p /\ (SegSyn(p, s) \/ s.flags = {"RST"} \/ SegPlain(a, p, s))}
Has(ns, f) == \E s \in Segs(ns) : f \in s.flags

\* What one end c, the other d and the segments to them, ns and ms, have in
\* common: what is acknowledged was received, and what was received was sent.
AckedGot(c, d) == OpenC(c) /\ Known(d) => c.ackd <= d.recv
AcksGot(ns, d) == Known(d) => \A s \in Segs(ns) : "ACK" \in s.flags => s.ack <= d.recv
GotSent(c, d) == Sending(c) /\ Known(d) => d.recv <= HighSent(c)
AcksSent(c, ns) == Sending(c) => \A s \in Segs(ns) : "ACK" \in s.flags => s.ack <= HighSent(c)
DataSent(c, ms) == Sending(c) => \A s \in Segs(ms) : Plain(s) => s.seq + s.len + Fin(s.flags) <= HighSent(c)
FinGot(a, p, d, ms) == Known(d) /\ Has(ms, "FIN") => d.recv >= First(p) + Total(a, p)
SynsFirst(ns) == \A i, j \in 1 .. Len(ns) : i < j /\ "SYN" \in ns[j].flags => ~ Plain(ns[i])
Pair(a, p, c, d, ns, ms) ==
  /\ AckedGot(c, d) /\ AcksGot(ns, d) /\ GotSent(c, d) /\ AcksSent(c, ns) /\ DataSent(c, ms)
  /\ FinGot(a, p, d, ms) /\ SynsFirst(ns)

\* The connection is being opened: a SYN may still arrive at the server.  Then
\* it is fresh as long as the client may not count on the server's answer.
Early(x, n) == x["client"].st \in {"CLOSED", "SYN_SENT"} \/ Has(n["server"], "SYN")
Fresh(x, n) == \/ Early(x, n)
               \/ x["server"].st = "SYN_RECEIVED"
               \/ x["server"].st = "LISTEN" /\ Known(x["server"])
ServerEarly(d) ==
  d.st # "GONE" => /\ d.st \in {"LISTEN", "SYN_RECEIVED"} /\ Known(d) /\ d.recv = 100 /\ d.act = 1
                   /\ d.ackd # 201 /\ "FIN" \notin d.flags
EarlyOK(x, n) ==
  Early(x, n) =>
    /\ ServerEarly(x["server"])
    /\ \A s \in Segs(n["client"]) : "ACK" \in s.flags => s.ack = 100
    /\ \A s \in Segs(n["server"]) : "FIN" \in s.flags => s.pos = 0
    /\ OpenC(x["client"]) => x["client"].ackd <= 100
    /\ x["client"].st \in {"CLOSED", "SYN_SENT"} => \A s \in Segs(n["server"]) : "SYN" \in s.flags
Nothing(c) == Known(c) => c.recv = 201 /\ "FIN" \notin c.flags
FreshOK(x, n) ==
  Fresh(x, n) =>
    /\ \A s \in Segs(n["server"]) : "ACK" \in s.flags => s.ack <= 201
    /\ Nothing(x["client"])
    /\ \A s \in Segs(n["client"]) : ~ Plain(s)
SynAgain(x, n) == Has(n["client"], "SYN") => Nothing(x["client"])
ClosedOK(x, n) ==
  x["client"].st = "CLOSED" => x["server"].st = "GONE" /\ n["client"] = <<>> /\ n["server"] = <<>>

ConnInv(a, x, n) ==
  /\ \A p \in Peers : x[p].st # "GONE" => CtxOK(a, p, x[p])
  /\ \A p \in Peers : n[p] \in Seq(Segment_(a, Other(p)))
  /\ \A p \in Peers : Pair(a, p, x[p], x[Other(p)], n[p], n[Other(p)])
  /\ EarlyOK(x, n) /\ FreshOK(x, n) /\ SynAgain(x, n) /\ ClosedOK(x, n)

-----------------------------------------------------------------------------
(***************************************************************************)
(* The bytes that come before an action.                                   *)
(***************************************************************************)

PlayedList(a) ==
  a \in Seq([peer : Peers, beg : Nat, len : Nat]) /\ a # <<>> /\ PlayedInOrder(a)
SumBy(a, p, g) ==
  g = [i \in 1 .. Len(a) |->
         IF i = 1 THEN 0 ELSE g[i - 1] + (IF a[i - 1].peer = p THEN a[i - 1].len ELSE 0)]

\* The recursive function that counts the bytes of a peer exists.
LEMMA BeforeIs ==
  ASSUME NEW a, PlayedList(a), NEW p
  PROVE  /\ Len(a) \in Nat \ {0} /\ \A i \in 1 .. Len(a) : a[i] \in [peer : Peers, beg : Nat, len : Nat]
         /\ SumBy(a, p, Before(a, p))
         /\ \A i \in 1 .. Len(a) : Before(a, p)[i] \in Nat
<1> DEFINE n == Len(a)
           add(i) == IF a[i].peer = p THEN a[i].len ELSE 0
<1>1. n \in Nat \ {0} /\ \A i \in 1 .. n : a[i] \in [peer : Peers, beg : Nat, len : Nat]
  <2> DEFINE S == [peer : Peers, beg : Nat, len : Nat]
  <2>1. a \in Seq(S) /\ a # <<>>
    BY DEF PlayedList
  <2> HIDE DEF S
  <2>2. \A i \in 1 .. n : a[i] \in S
    BY <2>1, ElementOfSeq
  <2>3. n \in Nat /\ n # 0
    BY <2>1, LenProperties, EmptySeq
  <2> QED BY <2>2, <2>3 DEF S
<1>2. \A i \in 1 .. n : add(i) \in Nat
  BY <1>1
<1> DEFINE step == [k \in 1 .. n - 1 |-> [x \in Nat |-> x + add(k)]]
<1>3. PICK h \in [0 .. n - 1 -> Nat] : h[0] = 0 /\ \A k \in 1 .. n - 1 : h[k] = step[k][h[k - 1]]
  <2>1. StepsWithin(n - 1, Nat, 0, step)
    <3>1. \A k \in 1 .. n - 1 : \A x \in Nat : step[k][x] = x + add(k) /\ k \in 1 .. n
      BY <1>1
    <3> HIDE DEF step, add, n
    <3> QED BY <1>1, <1>2, <3>1 DEF StepsWithin
  <2> HIDE DEF step, n
  <2> QED BY ONLY <2>1, StepsExist
<1> DEFINE g == [i \in 1 .. n |-> h[i - 1]]
<1>4. \A i \in 1 .. n : g[i] \in Nat
  BY SMTT(60), <1>1, <1>3
<1>5. SumBy(a, p, g)
  <2>1. ASSUME NEW i \in 1 .. n
        PROVE  g[i] = IF i = 1 THEN 0 ELSE g[i - 1] + add(i - 1)
    <3>1. CASE i = 1
      BY <1>1, <1>3, <3>1
    <3>2. CASE i # 1
      <4>1. i - 1 \in 1 .. n - 1 /\ i - 1 \in 1 .. n /\ (i - 1) - 1 \in 0 .. n - 1
        BY <1>1, <3>2
      <4>2. h[(i - 1) - 1] \in Nat
        BY <1>3, <4>1
      <4>3. h[i - 1] = step[i - 1][h[(i - 1) - 1]]
        BY <1>3, <4>1
      <4>4. h[i - 1] = h[(i - 1) - 1] + add(i - 1)
        BY <4>1, <4>2, <4>3
      <4>5. g[i] = h[i - 1] /\ g[i - 1] = h[(i - 1) - 1]
        BY <4>1
      <4> QED BY <3>2, <4>4, <4>5
    <3> QED BY <3>1, <3>2
  <2>2. g = [i \in 1 .. n |-> IF i = 1 THEN 0 ELSE g[i - 1] + add(i - 1)]
    <3> DEFINE r == [i \in 1 .. n |-> IF i = 1 THEN 0 ELSE g[i - 1] + add(i - 1)]
    <3>1. \A i \in 1 .. n : g[i] = r[i]
      <4> HIDE DEF g, add
      <4> QED BY <2>1
    <3>2. DOMAIN g = 1 .. n /\ DOMAIN r = 1 .. n /\ g = [i \in DOMAIN g |-> g[i]] /\ r = [i \in DOMAIN r |-> r[i]]
      OBVIOUS
    <3> HIDE DEF g, r
    <3>3. g = r
      BY <3>1, <3>2
    <3> QED BY <3>3 DEF r
  <2> HIDE DEF g
  <2> QED BY <2>2 DEF SumBy
<1> HIDE DEF g
<1>6. Before(a, p) = CHOOSE f : SumBy(a, p, f)
  BY Zenon DEF Before, SumBy
<1>7. SumBy(a, p, Before(a, p))
  BY ONLY <1>5, <1>6, Zenon
<1> DEFINE f == Before(a, p)
<1>8. f = [i \in 1 .. n |-> IF i = 1 THEN 0 ELSE f[i - 1] + add(i - 1)]
  BY <1>7 DEF SumBy
<1> HIDE DEF f
<1>9. \A i \in 1 .. n : f[i] = IF i = 1 THEN 0 ELSE f[i - 1] + add(i - 1)
  BY <1>8
<1> DEFINE T == {k \in 0 .. n - 1 : f[k + 1] \in Nat}
<1>10. 0 .. n - 1 \subseteq T
  <2>1. 0 \in T
    BY <1>1, <1>9
  <2>2. ASSUME NEW k \in 0 .. (n - 1) - 1, k \in T PROVE k + 1 \in T
    <3>1. k + 1 \in 1 .. n /\ (k + 1) + 1 \in 1 .. n /\ k + 1 \in 0 .. n - 1 /\ (k + 1) + 1 # 1 /\ ((k + 1) + 1) - 1 = k + 1
      BY <1>1
    <3>2. f[k + 1] \in Nat /\ add(k + 1) \in Nat
      BY <1>2, <2>2, <3>1
    <3>3. f[(k + 1) + 1] = f[k + 1] + add(k + 1)
      BY <1>9, <3>1
    <3> HIDE DEF add, n
    <3> QED BY <3>1, <3>2, <3>3
  <2>3. n - 1 \in Nat
    BY <1>1
  <2> HIDE DEF T, n
  <2> QED BY <2>1, <2>2, <2>3, ReachesAll
<1>11. ASSUME NEW i \in 1 .. n PROVE f[i] \in Nat
  <2>1. i - 1 \in 0 .. n - 1 /\ (i - 1) + 1 = i
    BY <1>1
  <2> QED BY <1>10, <2>1
<1> QED BY <1>1, <1>7, <1>11 DEF f

\* The bytes before an action: none before the first, its own added after it, and
\* all lengths but the last positive.
LEMMA BytesOf ==
  ASSUME NEW a, PlayedList(a), NEW p \in Peers
  PROVE  /\ Before(a, p)[1] = 0
         /\ \A i \in 1 .. Len(a) - 1 :
              /\ Before(a, p)[i + 1] = Before(a, p)[i] + (IF a[i].peer = p THEN a[i].len ELSE 0)
              /\ a[i].len > 0 /\ a[i].beg = Before(a, a[i].peer)[i]
         /\ a[Len(a)].len = 0
<1> DEFINE n == Len(a)
           f == Before(a, p)
<1>1. n \in Nat \ {0} /\ \A i \in 1 .. n : a[i] \in [peer : Peers, beg : Nat, len : Nat]
  BY BeforeIs
<1>2. f = [i \in 1 .. n |-> IF i = 1 THEN 0 ELSE f[i - 1] + (IF a[i - 1].peer = p THEN a[i - 1].len ELSE 0)]
  BY BeforeIs DEF SumBy
<1> HIDE DEF f
<1>3. \A i \in 1 .. n : f[i] = IF i = 1 THEN 0 ELSE f[i - 1] + (IF a[i - 1].peer = p THEN a[i - 1].len ELSE 0)
  BY <1>2
<1>4. \A i \in 1 .. n : /\ a[i].len = 0 <=> i = n
                        /\ i # n => a[i].beg = Before(a, a[i].peer)[i]
  BY DEF PlayedList, PlayedInOrder
<1>5. ASSUME NEW i \in 1 .. n - 1
      PROVE  /\ f[i + 1] = f[i] + (IF a[i].peer = p THEN a[i].len ELSE 0)
             /\ a[i].len > 0 /\ a[i].beg = Before(a, a[i].peer)[i]
  <2>1. i \in 1 .. n /\ i # n /\ i + 1 \in 1 .. n /\ i + 1 # 1 /\ (i + 1) - 1 = i
    BY <1>1
  <2>2. a[i].len \in Nat /\ a[i].len # 0
    BY <1>1, <1>4, <2>1
  <2>3. f[i + 1] = f[i] + (IF a[i].peer = p THEN a[i].len ELSE 0)
    BY <1>3, <2>1
  <2> QED BY <1>4, <2>1, <2>2, <2>3
<1> QED BY <1>1, <1>3, <1>4, <1>5 DEF f

\* Nothing is taken back: later actions have no fewer bytes before them.
LEMMA MoreBytes ==
  ASSUME NEW a, PlayedList(a), NEW p \in Peers, NEW i \in 1 .. Len(a), NEW j \in i .. Len(a)
  PROVE  Before(a, p)[i] <= Before(a, p)[j]
<1> DEFINE n == Len(a)
           f == Before(a, p)
           T == {k \in 0 .. n - i : f[i] <= f[i + k]}
<1>1. n \in Nat \ {0} /\ (\A k \in 1 .. n : f[k] \in Nat) /\ \A k \in 1 .. n : a[k].len \in Nat
  BY BeforeIs
<1>2. \A k \in 1 .. n - 1 : f[k + 1] = f[k] + (IF a[k].peer = p THEN a[k].len ELSE 0)
  BY BytesOf
<1> HIDE DEF f, n
<1>3. i \in 1 .. n /\ j \in i .. n
  BY DEF n
<1>4. 0 \in T
  BY <1>1, <1>3
<1>5. ASSUME NEW k \in 0 .. (n - i) - 1, k \in T PROVE k + 1 \in T
  <2>1. i + k \in 1 .. n - 1 /\ i + k \in 1 .. n /\ (i + k) + 1 \in 1 .. n /\ (i + k) + 1 = i + (k + 1) /\ k + 1 \in 0 .. n - i
    BY <1>1, <1>3
  <2>2. f[i + k] <= f[(i + k) + 1]
    <3>1. f[i + k] \in Nat /\ a[i + k].len \in Nat
      BY <1>1, <2>1
    <3>2. f[(i + k) + 1] = f[i + k] + (IF a[i + k].peer = p THEN a[i + k].len ELSE 0)
      BY <1>2, <2>1
    <3> QED BY <3>1, <3>2
  <2>3. f[i] \in Nat /\ f[i + k] \in Nat /\ f[i + (k + 1)] \in Nat /\ f[i] <= f[i + k]
    BY <1>1, <1>3, <1>5, <2>1
  <2> QED BY <2>1, <2>2, <2>3
<1>6. 0 .. n - i \subseteq T
  <2>1. n - i \in Nat
    BY <1>1, <1>3
  <2> HIDE DEF T
  <2> QED BY <1>4, <1>5, <2>1, ReachesAll
<1>7. j - i \in 0 .. n - i /\ i + (j - i) = j
  BY <1>1, <1>3
<1> QED BY <1>6, <1>7 DEF f

-----------------------------------------------------------------------------
(***************************************************************************)
(* The network, and what may be sent.                                      *)
(***************************************************************************)

Put(x, p, e) == [r \in Peers |-> IF r = p THEN e ELSE x[r]]

\* The peers, and their first sequence numbers.
LEMMA TwoPeers ==
  ASSUME NEW p \in Peers
  PROVE  /\ Other(p) \in Peers /\ Other(p) # p /\ Other(Other(p)) = p /\ Peers = {p, Other(p)}
         /\ "client" \in Peers /\ "server" \in Peers
         /\ p # "client" => p = "server"
         /\ First(p) \in {100, 201}
  BY DEF Peers, Other, First

\* What Put gives to one peer and leaves to the other.
LEMMA PutIs ==
  ASSUME NEW x, NEW p \in Peers, NEW e
  PROVE  Put(x, p, e)[p] = e /\ Put(x, p, e)[Other(p)] = x[Other(p)]
  BY TwoPeers DEF Put

\* A segment leaves the network.
LEMMA SegsTail ==
  ASSUME NEW S, NEW ns \in Seq(S), ns # <<>>
  PROVE  /\ Tail(ns) \in Seq(S) /\ Segs(Tail(ns)) \subseteq Segs(ns) /\ Head(ns) \in Segs(ns) /\ Head(ns) = ns[1]
         /\ Len(ns) \in Nat \ {0} /\ 1 \in 1 .. Len(ns)
         /\ SynsFirst(ns) => SynsFirst(Tail(ns))
<1>1. /\ Len(ns) \in Nat \ {0} /\ Tail(ns) \in Seq(S) /\ Len(Tail(ns)) = Len(ns) - 1
      /\ \A i \in 1 .. Len(ns) - 1 : Tail(ns)[i] = ns[i + 1]
      /\ Head(ns) = ns[1]
  BY EmptySeq, LenProperties, HeadTailProperties
<1>2. \A i \in 1 .. Len(Tail(ns)) : i + 1 \in 1 .. Len(ns) /\ Tail(ns)[i] = ns[i + 1]
  BY <1>1
<1>3. Segs(Tail(ns)) \subseteq Segs(ns) /\ Head(ns) \in Segs(ns)
  BY <1>1, <1>2 DEF Segs
<1>4. ASSUME SynsFirst(ns) PROVE SynsFirst(Tail(ns))
  <2> SUFFICES ASSUME NEW i \in 1 .. Len(Tail(ns)), NEW j \in 1 .. Len(Tail(ns)), i < j, "SYN" \in Tail(ns)[j].flags
               PROVE  ~ Plain(Tail(ns)[i])
    BY DEF SynsFirst
  <2>1. i + 1 < j + 1 /\ i + 1 \in 1 .. Len(ns) /\ j + 1 \in 1 .. Len(ns) /\ Tail(ns)[i] = ns[i + 1] /\ Tail(ns)[j] = ns[j + 1]
    BY <1>1, <1>2
  <2> QED BY <1>4, <2>1 DEF SynsFirst
<1> QED BY <1>1, <1>3, <1>4

\* A segment enters the network.
LEMMA SegsAppend ==
  ASSUME NEW S, NEW ns \in Seq(S), NEW s \in S
  PROVE  /\ Append(ns, s) \in Seq(S) /\ Segs(Append(ns, s)) = Segs(ns) \cup {s}
         /\ SynsFirst(ns) /\ ("SYN" \in s.flags => \A t \in Segs(ns) : ~ Plain(t)) => SynsFirst(Append(ns, s))
<1> DEFINE m == Append(ns, s)
<1>1. /\ Len(ns) \in Nat /\ m \in Seq(S) /\ Len(m) = Len(ns) + 1
      /\ (\A i \in 1 .. Len(ns) : m[i] = ns[i]) /\ m[Len(ns) + 1] = s
  BY AppendProperties, LenProperties
<1> HIDE DEF m
<1>2. Segs(m) = Segs(ns) \cup {s}
  <2>1. \A i \in 1 .. Len(m) : m[i] \in Segs(ns) \cup {s}
    <3> SUFFICES ASSUME NEW i \in 1 .. Len(m) PROVE m[i] \in Segs(ns) \cup {s}
      OBVIOUS
    <3>1. i \in 1 .. Len(ns) \/ i = Len(ns) + 1
      BY <1>1
    <3> QED BY <1>1, <3>1 DEF Segs
  <2>2. \A i \in 1 .. Len(ns) : i \in 1 .. Len(m) /\ m[i] = ns[i]
    BY <1>1
  <2>3. Len(m) \in 1 .. Len(m) /\ m[Len(m)] = s
    BY <1>1
  <2> QED BY <2>1, <2>2, <2>3 DEF Segs
<1>3. ASSUME SynsFirst(ns), "SYN" \in s.flags => \A t \in Segs(ns) : ~ Plain(t) PROVE SynsFirst(m)
  <2> SUFFICES ASSUME NEW i \in 1 .. Len(m), NEW j \in 1 .. Len(m), i < j, "SYN" \in m[j].flags
               PROVE  ~ Plain(m[i])
    BY DEF SynsFirst
  <2>1. i \in 1 .. Len(ns) /\ m[i] = ns[i]
    BY <1>1
  <2>2. j \in 1 .. Len(ns) \/ j = Len(ns) + 1
    BY <1>1
  <2>3. CASE j \in 1 .. Len(ns)
    BY <1>1, <1>3, <2>1, <2>3 DEF SynsFirst
  <2>4. CASE j = Len(ns) + 1
    <3>1. "SYN" \in s.flags /\ ns[i] \in Segs(ns)
      BY <1>1, <2>1, <2>4 DEF Segs
    <3> QED BY <1>3, <2>1, <3>1
  <2> QED BY <2>2, <2>3, <2>4
<1> QED BY <1>1, <1>2, <1>3 DEF m

\* A segment that was received or lost.
LEMMA TailNet ==
  ASSUME NEW a, NEW x, NEW n, ConnInv(a, x, n), NEW p \in Peers, n[p] # <<>>
  PROVE  ConnInv(a, x, Put(n, p, Tail(n[p])))
<1> DEFINE q == Other(p)
           m == Put(n, p, Tail(n[p]))
<1>1. q \in Peers /\ q # p /\ Other(q) = p /\ Peers = {p, q} /\ "client" \in Peers /\ "server" \in Peers
  BY TwoPeers
<1>2. m[p] = Tail(n[p]) /\ m[q] = n[q]
  BY PutIs
<1>3. \A r \in Peers : n[r] \in Seq(Segment_(a, Other(r)))
  BY DEF ConnInv
<1>4. \A r \in Peers : m[r] \in Seq(Segment_(a, Other(r))) /\ Segs(m[r]) \subseteq Segs(n[r]) /\ (SynsFirst(n[r]) => SynsFirst(m[r]))
                       /\ (n[r] = <<>> => m[r] = <<>>)
  <2>1. m[p] \in Seq(Segment_(a, Other(p))) /\ Segs(m[p]) \subseteq Segs(n[p]) /\ (SynsFirst(n[p]) => SynsFirst(m[p]))
    BY <1>2, <1>3, SegsTail
  <2> QED BY <1>1, <1>2, <1>3, <2>1
<1> HIDE DEF m, q
<1>5. \A r \in Peers : \A f : Has(m[r], f) => Has(n[r], f)
  BY <1>4 DEF Has
<1>6. ASSUME NEW r \in Peers PROVE Pair(a, r, x[r], x[Other(r)], m[r], m[Other(r)])
  <2>1. Pair(a, r, x[r], x[Other(r)], n[r], n[Other(r)])
    BY DEF ConnInv
  <2>2. Other(r) \in Peers
    BY TwoPeers
  <2>3. Segs(m[r]) \subseteq Segs(n[r]) /\ Segs(m[Other(r)]) \subseteq Segs(n[Other(r)]) /\ (SynsFirst(n[r]) => SynsFirst(m[r]))
        /\ (Has(m[Other(r)], "FIN") => Has(n[Other(r)], "FIN"))
    BY <1>4, <1>5, <2>2
  <2>4. AckedGot(x[r], x[Other(r)]) /\ GotSent(x[r], x[Other(r)])
    BY <2>1 DEF Pair
  <2>5. AcksGot(m[r], x[Other(r)]) /\ AcksSent(x[r], m[r]) /\ DataSent(x[r], m[Other(r)])
    BY <2>1, <2>3 DEF Pair, AcksGot, AcksSent, DataSent
  <2>6. FinGot(a, r, x[Other(r)], m[Other(r)]) /\ SynsFirst(m[r])
    BY <2>1, <2>3 DEF Pair, FinGot
  <2> QED BY <2>4, <2>5, <2>6 DEF Pair
<1>7. Early(x, m) => Early(x, n)
  BY <1>1, <1>5 DEF Early
<1>8. Fresh(x, m) => Fresh(x, n)
  BY <1>7 DEF Fresh
<1>9. EarlyOK(x, m)
  BY <1>1, <1>4, <1>7 DEF EarlyOK, ConnInv
<1>10. FreshOK(x, m) /\ SynAgain(x, m) /\ ClosedOK(x, m)
  <2>1. FreshOK(x, m)
    BY <1>1, <1>4, <1>8 DEF FreshOK, ConnInv
  <2>2. SynAgain(x, m)
    BY <1>1, <1>5 DEF SynAgain, ConnInv
  <2>3. ClosedOK(x, m)
    BY <1>1, <1>4 DEF ClosedOK, ConnInv
  <2> QED BY <2>1, <2>2, <2>3
<1> QED BY <1>4, <1>6, <1>9, <1>10 DEF ConnInv, m

\* What a segment must satisfy for p to send it.
SendOK(a, x, n, p, s) ==
  LET q == Other(p)  c == x[p]  d == x[q] IN
  /\ s \in Segment_(a, p)
  /\ Known(c) /\ "ACK" \in s.flags => s.ack <= c.recv
  /\ Sending(d) /\ "ACK" \in s.flags => s.ack <= HighSent(d)
  /\ Sending(c) /\ Plain(s) => s.seq + s.len + Fin(s.flags) <= HighSent(c)
  /\ Known(d) /\ "FIN" \in s.flags => d.recv >= First(p) + Total(a, p)
  /\ "SYN" \in s.flags => \A t \in Segs(n[q]) : ~ Plain(t)
  /\ c.st # "CLOSED" /\ d.st # "CLOSED"
  /\ p = "client" /\ "SYN" \in s.flags => Early(x, n)
  /\ p = "client" /\ c.st = "SYN_SENT" => "SYN" \in s.flags
  /\ p = "client" /\ "FIN" \in s.flags /\ Early(x, n) => s.pos = 0
  /\ p = "client" /\ "ACK" \in s.flags /\ Fresh(x, n) => s.ack <= 201
  /\ p = "server" /\ "ACK" \in s.flags /\ Early(x, n) => s.ack = 100
  /\ p = "server" /\ Fresh(x, n) => ~ Plain(s)
  /\ p = "server" /\ "SYN" \in s.flags => Nothing(d)

\* The invariant after a segment that may be sent.
LEMMA AppendNet ==
  ASSUME NEW a, NEW x, NEW n, ConnInv(a, x, n), NEW p \in Peers, NEW s, SendOK(a, x, n, p, s)
  PROVE  ConnInv(a, x, Put(n, Other(p), Append(n[Other(p)], s)))
<1> DEFINE q == Other(p)
           m == Put(n, q, Append(n[q], s))
<1>1. q \in Peers /\ q # p /\ Other(q) = p /\ Peers = {p, q} /\ ((p = "client" /\ q = "server") \/ (p = "server" /\ q = "client"))
  <2>1. (p = "client" /\ q = "server") \/ (p = "server" /\ q = "client")
    BY DEF Other, Peers
  <2> QED BY <2>1, TwoPeers
<1>2. m[q] = Append(n[q], s) /\ m[p] = n[p]
  BY <1>1 DEF Put
<1>3. n[p] \in Seq(Segment_(a, q)) /\ n[q] \in Seq(Segment_(a, p)) /\ s \in Segment_(a, p)
  BY <1>1 DEF ConnInv, SendOK
<1>4. m[q] \in Seq(Segment_(a, p)) /\ Segs(m[q]) = Segs(n[q]) \cup {s} /\ m[p] = n[p]
  BY <1>2, <1>3, SegsAppend
<1>5. SynsFirst(m[q])
  <2>1. SynsFirst(n[q])
    BY <1>1 DEF ConnInv, Pair
  <2>2. "SYN" \in s.flags => \A t \in Segs(n[q]) : ~ Plain(t)
    BY DEF SendOK
  <2> QED BY <1>2, <1>3, <2>1, <2>2, SegsAppend
<1>6. /\ Pair(a, p, x[p], x[q], n[p], n[q]) /\ Pair(a, q, x[q], x[p], n[q], n[p])
      /\ EarlyOK(x, n) /\ FreshOK(x, n) /\ SynAgain(x, n) /\ ClosedOK(x, n)
  BY <1>1 DEF ConnInv
<1> HIDE DEF m
<1>s. /\ Known(x[p]) /\ "ACK" \in s.flags => s.ack <= x[p].recv
      /\ Sending(x[q]) /\ "ACK" \in s.flags => s.ack <= HighSent(x[q])
      /\ Sending(x[p]) /\ Plain(s) => s.seq + s.len + Fin(s.flags) <= HighSent(x[p])
      /\ Known(x[q]) /\ "FIN" \in s.flags => x[q].recv >= First(p) + Total(a, p)
  BY Zenon DEF SendOK
<1>7. Pair(a, p, x[p], x[q], m[p], m[q])
  <2>1. DataSent(x[p], m[q])
    BY <1>4, <1>6, <1>s DEF DataSent, Pair
  <2>2. FinGot(a, p, x[q], m[q])
    BY <1>4, <1>6, <1>s DEF FinGot, Pair, Has
  <2> QED BY <1>4, <1>6, <2>1, <2>2 DEF Pair
<1>8. Pair(a, q, x[q], x[p], m[q], m[p])
  <2>1. AcksGot(m[q], x[p])
    BY <1>4, <1>6, <1>s DEF AcksGot, Pair
  <2>2. AcksSent(x[q], m[q])
    BY <1>4, <1>6, <1>s DEF AcksSent, Pair
  <2> QED BY <1>4, <1>5, <1>6, <2>1, <2>2 DEF Pair
<1>9. Early(x, m) <=> Early(x, n)
  <2>1. CASE p = "client"
    <3>1. Has(m["server"], "SYN") <=> Has(n["server"], "SYN") \/ "SYN" \in s.flags
      BY <1>1, <1>4, <2>1 DEF Has
    <3>2. "SYN" \in s.flags => Early(x, n)
      BY <2>1 DEF SendOK
    <3> QED BY <3>1, <3>2 DEF Early
  <2>2. CASE p = "server"
    BY <1>1, <1>4, <2>2 DEF Early
  <2> QED BY <1>1, <2>1, <2>2
<1>10. Fresh(x, m) <=> Fresh(x, n)
  BY <1>9 DEF Fresh
<1>11. EarlyOK(x, m)
  <2>1. p = "client" => /\ Segs(m["client"]) = Segs(n["client"]) /\ Segs(m["server"]) = Segs(n["server"]) \cup {s}
                        /\ (x["client"].st \in {"CLOSED", "SYN_SENT"} => "SYN" \in s.flags)
                        /\ ("FIN" \in s.flags /\ Early(x, n) => s.pos = 0)
    BY <1>1, <1>4 DEF SendOK
  <2>2. p = "server" => /\ Segs(m["server"]) = Segs(n["server"]) /\ Segs(m["client"]) = Segs(n["client"]) \cup {s}
                        /\ ("ACK" \in s.flags /\ Early(x, n) => s.ack = 100)
    BY <1>1, <1>4 DEF SendOK
  <2>3. EarlyOK(x, n)
    BY <1>6
  <2> QED BY <1>1, <1>9, <2>1, <2>2, <2>3 DEF EarlyOK
<1>12. FreshOK(x, m)
  <2>1. p = "client" => /\ Segs(m["client"]) = Segs(n["client"]) /\ Segs(m["server"]) = Segs(n["server"]) \cup {s}
                        /\ ("ACK" \in s.flags /\ Fresh(x, n) => s.ack <= 201)
    BY <1>1, <1>4 DEF SendOK
  <2>2. p = "server" => /\ Segs(m["server"]) = Segs(n["server"]) /\ Segs(m["client"]) = Segs(n["client"]) \cup {s}
                        /\ (Fresh(x, n) => ~ Plain(s))
    BY <1>1, <1>4 DEF SendOK
  <2>3. FreshOK(x, n)
    BY <1>6
  <2> QED BY <1>1, <1>10, <2>1, <2>2, <2>3 DEF FreshOK
<1>13. SynAgain(x, m)
  <2>1. p = "client" => Segs(m["client"]) = Segs(n["client"])
    BY <1>1, <1>4
  <2>2. p = "server" => Segs(m["client"]) = Segs(n["client"]) \cup {s} /\ ("SYN" \in s.flags => Nothing(x["client"]))
    BY <1>1, <1>4 DEF SendOK
  <2>3. SynAgain(x, n)
    BY <1>6
  <2> QED BY <1>1, <2>1, <2>2, <2>3 DEF SynAgain, Has
<1>14. ClosedOK(x, m)
  BY <1>1 DEF ClosedOK, SendOK
<1>15. \A r \in Peers : (x[r].st # "GONE" => CtxOK(a, r, x[r])) /\ m[r] \in Seq(Segment_(a, Other(r)))
  BY <1>1, <1>3, <1>4 DEF ConnInv
<1>16. \A r \in Peers : Pair(a, r, x[r], x[Other(r)], m[r], m[Other(r)])
  BY <1>1, <1>7, <1>8
<1> QED BY <1>11, <1>12, <1>13, <1>14, <1>15, <1>16 DEF ConnInv, m

-----------------------------------------------------------------------------
(***************************************************************************)
(* Changes of a context.                                                   *)
(***************************************************************************)

\* What must hold of a new context e of p.
ChangeOK(a, x, n, p, e) ==
  LET q == Other(p)  d == x[q]  y == Put(x, p, e) IN
  /\ e.st # "GONE" => CtxOK(a, p, e)
  /\ AckedGot(e, d) /\ GotSent(e, d) /\ AcksSent(e, n[p]) /\ DataSent(e, n[q])
  /\ AckedGot(d, e) /\ AcksGot(n[q], e) /\ GotSent(d, e) /\ FinGot(a, q, e, n[p])
  /\ EarlyOK(y, n) /\ FreshOK(y, n) /\ SynAgain(y, n) /\ ClosedOK(y, n)

\* A new context that fits the other one and the network.
LEMMA ContextChanges ==
  ASSUME NEW a, NEW x, NEW n, ConnInv(a, x, n), NEW p \in Peers, NEW e, ChangeOK(a, x, n, p, e)
  PROVE  ConnInv(a, Put(x, p, e), n)
<1> DEFINE q == Other(p)
           y == Put(x, p, e)
<1>1. q \in Peers /\ q # p /\ Other(q) = p /\ Peers = {p, q}
  BY TwoPeers
<1>2. y[p] = e /\ y[q] = x[q]
  BY PutIs
<1>3. EarlyOK(y, n) /\ FreshOK(y, n) /\ SynAgain(y, n) /\ ClosedOK(y, n)
  BY DEF ChangeOK
<1> HIDE DEF y
<1>4. /\ Pair(a, p, x[p], x[q], n[p], n[q]) /\ Pair(a, q, x[q], x[p], n[q], n[p])
      /\ (x[q].st # "GONE" => CtxOK(a, q, x[q]))
      /\ \A r \in Peers : n[r] \in Seq(Segment_(a, Other(r)))
  BY <1>1 DEF ConnInv
<1>5. Pair(a, p, y[p], y[q], n[p], n[q])
  BY <1>2, <1>4 DEF Pair, ChangeOK
<1>6. Pair(a, q, y[q], y[p], n[q], n[p])
  BY <1>1, <1>2, <1>4 DEF Pair, ChangeOK
<1>7. \A r \in Peers : Pair(a, r, y[r], y[Other(r)], n[r], n[Other(r)])
  BY <1>1, <1>5, <1>6
<1>8. \A r \in Peers : y[r].st # "GONE" => CtxOK(a, r, y[r])
  BY <1>1, <1>2, <1>4 DEF ChangeOK
<1> QED BY <1>3, <1>4, <1>7, <1>8 DEF ConnInv, y

\* A context that is freed.
LEMMA ContextFreed ==
  ASSUME NEW a, NEW x, NEW n, ConnInv(a, x, n), NEW p \in Peers
  PROVE  ConnInv(a, Put(x, p, Gone), n)
<1> DEFINE q == Other(p)
           y == Put(x, p, Gone)
<1>1. Gone.st = "GONE" /\ ~ OpenC(Gone) /\ ~ Known(Gone) /\ ~ Sending(Gone)
  BY DEF Gone, OpenC, Known, Sending
<1>2. (p = "client" /\ q = "server") \/ (p = "server" /\ q = "client")
  BY DEF Other, Peers
<1>3. y[p] = Gone /\ y[q] = x[q]
  BY PutIs
<1> HIDE DEF y, q
<1>4. EarlyOK(x, n) /\ FreshOK(x, n) /\ SynAgain(x, n) /\ ClosedOK(x, n)
  BY DEF ConnInv
<1>5. (Early(y, n) => Early(x, n)) /\ (Fresh(y, n) => Fresh(x, n))
  BY <1>1, <1>2, <1>3 DEF Early, Fresh
<1>6. EarlyOK(y, n)
  BY <1>1, <1>2, <1>3, <1>4, <1>5 DEF EarlyOK, ServerEarly
<1>7. FreshOK(y, n) /\ SynAgain(y, n) /\ ClosedOK(y, n)
  BY <1>1, <1>2, <1>3, <1>4, <1>5 DEF FreshOK, SynAgain, ClosedOK, Nothing
<1>8. ChangeOK(a, x, n, p, Gone)
  BY <1>1, <1>6, <1>7 DEF ChangeOK, AckedGot, GotSent, AcksSent, DataSent, AcksGot, FinGot, y
<1> QED BY <1>8, ContextChanges

\* A change by which nothing is received.
Calm(c, e) ==
  /\ c.st # "GONE" /\ e.st # "GONE" /\ e.recv = c.recv
  /\ ("SYN" \in e.flags <=> "SYN" \in c.flags) /\ ("FIN" \in e.flags <=> "FIN" \in c.flags)
PhaseOK(x, n, p, c, e) ==
  /\ e.st # "CLOSED"
  /\ p = "client" => /\ e.st = "SYN_SENT" => c.st \in {"CLOSED", "SYN_SENT"}
                     /\ Early(x, n) /\ OpenC(e) => e.ackd <= 100
  /\ p = "server" => /\ Early(x, n) => ServerEarly(e)
                     /\ e.st = "SYN_RECEIVED" \/ (e.st = "LISTEN" /\ Known(e)) => Fresh(x, n)

\* The phases of opening, for a change by which nothing is received.
LEMMA PhaseKept ==
  ASSUME NEW a, NEW x, NEW n, ConnInv(a, x, n), NEW p \in Peers, NEW e, Calm(x[p], e), PhaseOK(x, n, p, x[p], e)
  PROVE  LET y == Put(x, p, e) IN EarlyOK(y, n) /\ FreshOK(y, n) /\ SynAgain(y, n) /\ ClosedOK(y, n)
<1> DEFINE q == Other(p)
           y == Put(x, p, e)
<1>2. (p = "client" /\ q = "server") \/ (p = "server" /\ q = "client")
  BY DEF Other, Peers
<1>3. y[p] = e /\ y[q] = x[q]
  BY PutIs
<1> HIDE DEF y, q
<1>4. EarlyOK(x, n) /\ FreshOK(x, n) /\ SynAgain(x, n) /\ ClosedOK(x, n)
  BY DEF ConnInv
<1>5. Early(y, n) => Early(x, n)
  BY <1>2, <1>3 DEF Early, PhaseOK
<1>6. Fresh(y, n) => Fresh(x, n)
  <2>1. CASE p = "client"
    <3>1. y["server"] = x["server"]
      BY <1>2, <1>3, <2>1
    <3> QED BY <1>5, <3>1 DEF Fresh
  <2>2. CASE p = "server"
    <3>1. y["server"] = e
      BY <1>3, <2>2
    <3>2. Early(x, n) => Fresh(x, n)
      BY DEF Fresh
    <3>3. e.st = "SYN_RECEIVED" \/ (e.st = "LISTEN" /\ Known(e)) => Fresh(x, n)
      BY <2>2 DEF PhaseOK
    <3>4. Fresh(y, n) => Early(y, n) \/ e.st = "SYN_RECEIVED" \/ (e.st = "LISTEN" /\ Known(e))
      BY <3>1 DEF Fresh
    <3> QED BY <1>5, <3>2, <3>3, <3>4
  <2> QED BY <1>2, <2>1, <2>2
<1>7. Nothing(x["client"]) => Nothing(y["client"])
  BY <1>2, <1>3 DEF Nothing, Calm, Known
<1>8. EarlyOK(y, n)
  BY <1>2, <1>3, <1>4, <1>5 DEF EarlyOK, PhaseOK, Calm
<1>9. FreshOK(y, n)
  BY <1>4, <1>6, <1>7 DEF FreshOK
<1>10. SynAgain(y, n)
  BY <1>4, <1>7 DEF SynAgain
<1>11. ClosedOK(y, n)
  BY <1>2, <1>3, <1>4 DEF ClosedOK, PhaseOK, Calm
<1> QED BY <1>8, <1>9, <1>10, <1>11 DEF y

\* The invariant, for a change by which nothing is received.
LEMMA CalmChange ==
  ASSUME NEW a, NEW x, NEW n, ConnInv(a, x, n), NEW p \in Peers, NEW e, Calm(x[p], e), PhaseOK(x, n, p, x[p], e),
         CtxOK(a, p, e), AckedGot(e, x[Other(p)]), GotSent(e, x[Other(p)]),
         AcksSent(e, n[p]), DataSent(e, n[Other(p)])
  PROVE  ConnInv(a, Put(x, p, e), n)
<1> DEFINE q == Other(p)
<1>1. q \in Peers /\ Other(q) = p
  BY TwoPeers
<1>2. Pair(a, q, x[q], x[p], n[q], n[p])
  BY <1>1 DEF ConnInv
<1>3. (Known(e) <=> Known(x[p])) /\ e.recv = x[p].recv
  BY DEF Known, Calm
<1>4. AckedGot(x[q], e) /\ AcksGot(n[q], e) /\ GotSent(x[q], e) /\ FinGot(a, q, e, n[p])
  BY <1>2, <1>3 DEF Pair, AckedGot, AcksGot, GotSent, FinGot
<1> HIDE DEF q
<1>5. ChangeOK(a, x, n, p, e)
  BY <1>4, PhaseKept DEF ChangeOK, q
<1> QED BY <1>5, ContextChanges

\* The sender's side of a context that already sent what it counts as sent.
LEMMA SideKept ==
  ASSUME NEW a, NEW x, NEW n, ConnInv(a, x, n), NEW p \in Peers, NEW e, Sending(x[p]),
         HighSent(e) >= HighSent(x[p]), HighSent(e) \in Int, HighSent(x[p]) \in Int
  PROVE  GotSent(e, x[Other(p)]) /\ AcksSent(e, n[p]) /\ DataSent(e, n[Other(p)])
<1> DEFINE q == Other(p)
           h == HighSent(x[p])
           k == HighSent(e)
<1>1. q \in Peers /\ Other(q) = p
  BY TwoPeers
<1>2. /\ Pair(a, p, x[p], x[q], n[p], n[q]) /\ n[p] \in Seq(Segment_(a, q)) /\ n[q] \in Seq(Segment_(a, p))
      /\ (x[q].st # "GONE" => CtxOK(a, q, x[q]))
  BY <1>1 DEF ConnInv
<1>3. \A s \in Segs(n[p]) : s.ack \in Int
  BY SMTT(60), <1>2, ElementOfSeq DEF Segs, Segment_, SegType
<1>4. \A s \in Segs(n[q]) : s.seq \in Int /\ s.len \in Nat /\ Fin(s.flags) \in Int
  BY SMTT(60), <1>2, ElementOfSeq DEF Segs, Segment_, SegType, Fin
<1>5. Known(x[q]) => x[q].recv \in Int
  BY <1>2 DEF Known, CtxOK, CtxType
<1> HIDE DEF q
<1>6. Known(x[q]) => x[q].recv <= h
  BY <1>2 DEF Pair, GotSent
<1>7. \A s \in Segs(n[p]) : "ACK" \in s.flags => s.ack <= h
  BY <1>2 DEF Pair, AcksSent
<1>8. \A s \in Segs(n[q]) : Plain(s) => s.seq + s.len + Fin(s.flags) <= h
  BY <1>2 DEF Pair, DataSent
<1>9. h <= k /\ h \in Int /\ k \in Int
  OBVIOUS
<1> HIDE DEF h, k
<1>10. Known(x[q]) => x[q].recv <= k
  BY <1>5, <1>6, <1>9
<1>11. \A s \in Segs(n[p]) : "ACK" \in s.flags => s.ack <= k
  BY <1>3, <1>7, <1>9
<1>12. \A s \in Segs(n[q]) : Plain(s) => s.seq + s.len + Fin(s.flags) <= k
  <2> SUFFICES ASSUME NEW s \in Segs(n[q]), Plain(s) PROVE s.seq + s.len + Fin(s.flags) <= k
    OBVIOUS
  <2> DEFINE t == s.seq + s.len + Fin(s.flags)
  <2>1. t \in Int
    BY <1>4
  <2>2. t <= h
    BY <1>8
  <2> HIDE DEF t
  <2>3. t <= k
    BY <1>9, <2>1, <2>2
  <2> QED BY <2>3 DEF t
<1> QED BY <1>10, <1>11, <1>12 DEF GotSent, AcksSent, DataSent, q, k

\* A change of what is not in the invariant.
Alike(c, e) ==
  /\ Calm(c, e) /\ e.st = c.st /\ e.act = c.act /\ e.next = c.next /\ e.ackd = c.ackd
  /\ e.ackable = c.ackable /\ e.first = c.first /\ e.ofirst = c.ofirst

\* A change of flags or counts of the scheduler keeps a context right.
LEMMA AlikeOK ==
  ASSUME NEW a, NEW p \in Peers, NEW c, NEW e, CtxOK(a, p, c), Alike(c, e), e \in CtxType(a, p), c.st # "CLOSED"
  PROVE  CtxOK(a, p, e)
<1> USE DEF Alike, Calm
<1>1. Fin(e.flags) = Fin(c.flags) /\ Base(a, p, e) = Base(a, p, c)
  BY DEF Fin, Base
<1>2. Played(a, p, c) => Played(a, p, e)
  BY <1>1 DEF Played
<1>3. CtxKnown(a, p, e)
  BY <1>2 DEF CtxOK, CtxKnown
<1>4. CtxSynSent(e) /\ CtxListen(a, p, e) /\ CtxEstablished(a, p, e) /\ CtxClosing(a, p, e)
  <2>1. CtxSynSent(e)
    BY DEF CtxOK, CtxSynSent
  <2>2. CtxListen(a, p, e)
    BY DEF CtxOK, CtxListen
  <2>3. CtxEstablished(a, p, e)
    BY <1>1 DEF CtxOK, CtxEstablished
  <2>4. CtxClosing(a, p, e)
    BY DEF CtxOK, CtxClosing
  <2> QED BY <2>1, <2>2, <2>3, <2>4
<1> QED BY <1>3, <1>4 DEF CtxOK, OpenC

\* A change of flags or counts of the scheduler keeps the invariant.
LEMMA AlikeChange ==
  ASSUME NEW a, NEW x, NEW n, ConnInv(a, x, n), NEW p \in Peers, NEW e, Alike(x[p], e), e \in CtxType(a, p), x[p].st # "CLOSED"
  PROVE  ConnInv(a, Put(x, p, e), n)
<1> DEFINE c == x[p]
           q == Other(p)
<1>1. CtxOK(a, p, c) /\ Pair(a, p, c, x[q], n[p], n[q]) /\ EarlyOK(x, n)
  BY DEF ConnInv, Alike, Calm
<1>2. CtxOK(a, p, e)
  BY <1>1, AlikeOK
<1>3. (OpenC(e) <=> OpenC(c)) /\ (Sending(e) <=> Sending(c)) /\ HighSent(e) = HighSent(c) /\ e.ackd = c.ackd /\ (Known(e) <=> Known(c))
  BY DEF Alike, Calm, OpenC, Sending, HighSent, Known
<1>4. AckedGot(e, x[q]) /\ GotSent(e, x[q]) /\ AcksSent(e, n[p]) /\ DataSent(e, n[q])
  BY <1>1, <1>3 DEF Pair, AckedGot, GotSent, AcksSent, DataSent
<1>5. PhaseOK(x, n, p, c, e)
  <2>1. p = "client" => (Early(x, n) /\ OpenC(e) => e.ackd <= 100)
    BY <1>1, <1>3 DEF EarlyOK
  <2>2. p = "server" => (Early(x, n) => ServerEarly(e))
    BY <1>1, <1>3 DEF EarlyOK, ServerEarly, Alike, Calm
  <2> QED BY <1>3, <2>1, <2>2 DEF PhaseOK, Alike, Calm, Fresh
<1>6. Calm(c, e)
  BY DEF Alike
<1> QED BY <1>2, <1>4, <1>5, <1>6, CalmChange

-----------------------------------------------------------------------------
(***************************************************************************)
(* stream_tcp_proc_in: an acknowledgement, data, the FIN and the SYN.      *)
(***************************************************************************)

\* What stands first in the network tells what cannot be behind it.
LEMMA HeadPlain ==
  ASSUME NEW a, NEW x, NEW n, ConnInv(a, x, n), NEW p \in Peers, n[p] # <<>>, Plain(Head(n[p]))
  PROVE  ~ Has(n[p], "SYN") /\ (p = "server" => ~ Early(x, n))
<1>1. n[p] \in Seq(Segment_(a, Other(p))) /\ SynsFirst(n[p]) /\ EarlyOK(x, n)
  BY TwoPeers DEF ConnInv, Pair
<1>2. Head(n[p]) \in Segs(n[p]) /\ Head(n[p]) = n[p][1] /\ 1 \in 1 .. Len(n[p]) /\ Len(n[p]) \in Nat
  BY <1>1, SegsTail
<1>3. ASSUME Has(n[p], "SYN") PROVE FALSE
  <2>1. PICK j \in 1 .. Len(n[p]) : "SYN" \in n[p][j].flags
    BY <1>3 DEF Has, Segs
  <2>2. CASE j = 1
    BY <1>2, <2>1, <2>2 DEF Plain
  <2>3. CASE j # 1
    <3>1. 1 < j
      BY <1>2, <2>3
    <3> QED BY <1>1, <1>2, <2>1, <3>1 DEF SynsFirst
  <2> QED BY <2>2, <2>3
<1>4. ASSUME p = "server", Early(x, n) PROVE FALSE
  <2>1. x["client"].st \in {"CLOSED", "SYN_SENT"}
    BY <1>3, <1>4 DEF Early
  <2>2. "SYN" \in Head(n[p]).flags
    BY <1>1, <1>2, <1>4, <2>1 DEF EarlyOK
  <2> QED BY <2>2 DEF Plain
<1> QED BY <1>3, <1>4

\* Segments and their numbers.
LEMMA SegmentIs ==
  ASSUME NEW a, NEW x, NEW n, ConnInv(a, x, n), NEW p \in Peers, NEW s \in Segs(n[p])
  PROVE  /\ s \in Segment_(a, Other(p)) /\ s.from = Other(p) /\ s.flags \in SUBSET {"SYN", "ACK", "FIN", "RST"}
         /\ s.seq \in Int /\ s.ack \in Int /\ s.pos \in Int /\ s.len \in Nat
         /\ SegSyn(Other(p), s) \/ s.flags = {"RST"} \/ SegPlain(a, Other(p), s)
<1>1. n[p] \in Seq(Segment_(a, Other(p)))
  BY DEF ConnInv
<1>2. s \in Segment_(a, Other(p))
  BY <1>1, ElementOfSeq DEF Segs
<1> QED BY <1>2 DEF Segment_, SegType

\* An action that was sent or received completely, and the next one.
LEMMA NextPlayed ==
  ASSUME NEW a, PlayedList(a), NEW p \in Peers, NEW c, NEW e, c.act \in 1 .. Len(a) - 1, e.act = c.act + 1,
         "FIN" \notin c.flags, "FIN" \notin e.flags, e.recv \in Int,
         e.recv - First(Other(p)) = Before(a, Other(p))[c.act + 1]
  PROVE  Played(a, p, e)
<1> DEFINE q == Other(p)  i == c.act + 1  got == e.recv - First(q)
<1>1. Len(a) \in Nat \ {0} /\ q \in Peers /\ \A k \in 1 .. Len(a) : a[k] \in [peer : Peers, beg : Nat, len : Nat] /\ Before(a, q)[k] \in Nat
  BY BeforeIs, TwoPeers
<1>2. i \in 1 .. Len(a) /\ Before(a, q)[i] \in Nat /\ got = Before(a, q)[i] /\ a[i].len \in Nat
  BY <1>1
<1>3. i # Len(a) => i \in 1 .. Len(a) - 1 /\ a[i].len > 0
  BY <1>1, <1>2, BytesOf
<1>4. Fin(e.flags) = 0
  BY DEF Fin
<1> HIDE DEF i, got
<1>5. got = e.recv - First(q) /\ i = e.act
  BY DEF got, i
<1> HIDE DEF q
<1>6. i # Len(a) => got < Before(a, q)[i] + a[i].len
  BY <1>2, <1>3
<1>7. got = Before(a, q)[i] + 0 /\ Before(a, q)[i] <= got
  BY <1>2
<1> QED BY <1>2, <1>4, <1>5, <1>6, <1>7 DEF Played, q

\* The numbers of a context.
LEMMA ContextIs ==
  ASSUME NEW a, PlayedList(a), NEW p \in Peers, NEW c, CtxOK(a, p, c)
  PROVE  /\ c.act \in 1 .. Len(a) /\ c.next \in Int /\ c.ackd \in Int /\ c.recv \in Int /\ c.ackable \in Int
         /\ c.flags \in SUBSET CtxFlags /\ c.st \in States(p) /\ Base(a, p, c) \in Int /\ a[c.act].len \in Nat
         /\ Before(a, p)[c.act] \in Nat /\ Before(a, Other(p))[c.act] \in Nat /\ First(p) \in Nat
         /\ a[c.act].peer \in Peers /\ Len(a) \in Nat \ {0} /\ c.st # "GONE"
         /\ Total(a, p) \in Nat /\ Total(a, Other(p)) \in Nat /\ Closer(a) \in Peers
<1>1. c \in CtxType(a, p)
  BY DEF CtxOK
<1>2. c.act \in 1 .. Len(a) /\ c.next \in Int /\ c.ackd \in Int /\ c.recv \in Int /\ c.ackable \in Int
      /\ c.flags \in SUBSET CtxFlags /\ c.st \in States(p)
  BY <1>1 DEF CtxType
<1>3. /\ Len(a) \in Nat \ {0} /\ (\A k \in 1 .. Len(a) : a[k] \in [peer : Peers, beg : Nat, len : Nat])
      /\ \A r \in Peers : \A k \in 1 .. Len(a) : Before(a, r)[k] \in Nat
  BY BeforeIs
<1>4. Len(a) \in 1 .. Len(a)
  BY <1>3
<1>5. c.st # "GONE"
  BY <1>2 DEF States
<1> QED BY SMTT(60), <1>2, <1>3, <1>4, <1>5, TwoPeers DEF Base, First, Total, Closer

\* The three outcomes of an acknowledgement.
LEMMA AckedIs ==
  ASSUME NEW c, NEW s, "ACK" \in s.flags, s.ack \in Int, c.ackd \in Int
  PROVE  \/ s.ack <= c.ackd /\ Acked(c, s) = c
         \/ /\ s.ack > c.ackd /\ c.ackable # s.ack
            /\ Acked(c, s) = [c EXCEPT !.ackd = s.ack]
         \/ /\ s.ack > c.ackd /\ c.ackable = s.ack
            /\ Acked(c, s) = [c EXCEPT !.ackd = s.ack, !.next = Skipped(c), !.ackable = 0, !.act = @ + 1]
  BY DEF Acked, AllAcked

\* The context after an acknowledgement is right.
LEMMA AckedContext ==
  ASSUME NEW a, PlayedList(a), NEW p \in Peers, NEW c, CtxOK(a, p, c), "SYN" \in c.flags, NEW s,
         "ACK" \in s.flags, s.ack \in Int, s.ack >= 100, Sending(c) => s.ack <= HighSent(c)
  PROVE  LET e == Acked(c, s) IN
         /\ CtxOK(a, p, e) /\ Calm(c, e) /\ e.st = c.st /\ s.ack <= e.ackd
         /\ Sending(c) => HighSent(e) = HighSent(c) /\ HighSent(c) \in Int
         /\ e.ackd = c.ackd \/ e.ackd = s.ack
         /\ c.st # "ESTABLISHED" => e.act = c.act
<1> DEFINE e == Acked(c, s)
           q == Other(p)
<1>1. /\ c.act \in 1 .. Len(a) /\ c.next \in Int /\ c.ackd \in Int /\ c.recv \in Int /\ c.ackable \in Int
      /\ c.flags \in SUBSET CtxFlags /\ c.st \in States(p) /\ Base(a, p, c) \in Int /\ a[c.act].len \in Nat
      /\ Before(a, p)[c.act] \in Nat /\ Before(a, q)[c.act] \in Nat /\ First(p) \in Nat
      /\ a[c.act].peer \in Peers /\ Len(a) \in Nat \ {0} /\ c.st # "GONE"
  BY ContextIs
<1>2. c \in CtxType(a, p) /\ CtxKnown(a, p, c) /\ Played(a, p, c)
  BY DEF CtxOK, CtxKnown
<1>3. HighSent(c) \in Int
  BY <1>1 DEF HighSent
<1>4. CASE s.ack <= c.ackd /\ e = c
  BY <1>1, <1>3, <1>4 DEF Calm
<1>5. CASE s.ack > c.ackd /\ c.ackable # s.ack /\ e = [c EXCEPT !.ackd = s.ack]
  <2> HIDE DEF e
  <2>1. /\ e \in CtxType(a, p) /\ e.ackd = s.ack /\ e.st = c.st /\ e.act = c.act /\ e.next = c.next /\ e.recv = c.recv
        /\ e.ackable = c.ackable /\ e.first = c.first /\ e.ofirst = c.ofirst /\ e.flags = c.flags
    BY <1>2, <1>5 DEF CtxType
  <2>2. Base(a, p, e) = Base(a, p, c) /\ (Played(a, p, c) => Played(a, p, e)) /\ HighSent(e) = HighSent(c) /\ OpenC(e) = OpenC(c)
    BY <2>1 DEF Base, Played, HighSent, OpenC
  <2>3. CtxKnown(a, p, e)
    BY <1>2, <2>1, <2>2 DEF CtxKnown
  <2>4. CtxSynSent(e)
    <3>1. c.st = "SYN_SENT" => c.next = 100 /\ c.ackd = 100 /\ c.ackable = 0
      BY DEF CtxOK, CtxSynSent
    <3>2. c.st # "SYN_SENT"
      BY <1>1, <1>5, <3>1 DEF HighSent, Sending
    <3> QED BY <2>1, <3>2 DEF CtxSynSent
  <2>5. CtxListen(a, p, e)
    <3>1. CtxListen(a, p, c) /\ (c.st = "SYN_RECEIVED" => c.ackable = 0)
      BY DEF CtxOK
    <3>2. c.st = "SYN_RECEIVED" => s.ack <= c.next
      BY <3>1 DEF Sending, OpenC, HighSent
    <3> QED BY <1>1, <1>5, <2>1, <3>1, <3>2 DEF CtxListen
  <2>6. CtxEstablished(a, p, e)
    <3>1. SUFFICES ASSUME c.st = "ESTABLISHED" PROVE CtxEstablished(a, p, e)
      BY <2>1 DEF CtxEstablished
    <3>2. s.ack <= HighSent(c) /\ CtxEstablished(a, p, c)
      BY <3>1 DEF Sending, OpenC, CtxOK
    <3>3. c.ackable # 0
      BY <1>1, <1>5, <3>1, <3>2 DEF CtxEstablished, HighSent
    <3>4. s.ack < c.ackable
      BY <1>1, <1>5, <3>2, <3>3 DEF HighSent
    <3> QED BY <1>1, <1>5, <2>1, <2>2, <3>1, <3>2, <3>3, <3>4 DEF CtxEstablished
  <2>7. CtxClosing(a, p, e)
    <3>1. SUFFICES ASSUME c.st \in Closing PROVE CtxClosing(a, p, e)
      BY <2>1 DEF CtxClosing
    <3>2. c.st # "ESTABLISHED" /\ OpenC(c)
      BY <3>1 DEF Closing, OpenC
    <3>3. s.ack <= c.next /\ CtxClosing(a, p, c)
      BY <3>2 DEF Sending, CtxOK, HighSent
    <3>4. s.ack = c.next
      BY SMTT(60), <1>1, <1>5, <3>1, <3>3 DEF CtxClosing
    <3> QED BY <2>1, <3>1, <3>3, <3>4 DEF CtxClosing
  <2>8. CtxOK(a, p, e)
    <3>1. c.st # "CLOSED"
      BY DEF CtxOK
    <3> QED BY <2>1, <2>2, <2>3, <2>4, <2>5, <2>6, <2>7, <3>1 DEF CtxOK
  <2> QED BY <1>1, <1>3, <2>1, <2>2, <2>8 DEF Calm, e
<1>6. CASE /\ s.ack > c.ackd /\ c.ackable = s.ack
           /\ e = [c EXCEPT !.ackd = s.ack, !.next = Skipped(c), !.ackable = 0, !.act = @ + 1]
  <2> HIDE DEF e
  <2>1. c.ackable # 0
    BY <1>6
  <2>2. c.st = "ESTABLISHED" /\ CtxEstablished(a, p, c) /\ OpenC(c)
    BY <2>1 DEF CtxOK, OpenC
  <2>3. /\ a[c.act].peer = p /\ c.act # Len(a) /\ c.ackable = Base(a, p, c) + a[c.act].len
        /\ c.next <= c.ackable
    BY <2>1, <2>2 DEF CtxEstablished
  <2>4. Skipped(c) = c.ackable
    BY <1>1, <2>3 DEF Skipped
  <2>5. c.act \in 1 .. Len(a) - 1 /\ c.act + 1 \in 1 .. Len(a)
    BY SMTT(60), <1>1, <2>3
  <2>6. /\ e \in CtxType(a, p) /\ e.ackd = s.ack /\ e.st = c.st /\ e.act = c.act + 1 /\ e.next = c.ackable /\ e.recv = c.recv
        /\ e.ackable = 0 /\ e.first = c.first /\ e.ofirst = c.ofirst /\ e.flags = c.flags
    <3> DEFINE k == c.act + 1
               h == c.ackable
               b == s.ack
    <3>1. k \in 1 .. Len(a) /\ h \in Int /\ b \in Int
      BY <1>1, <2>5
    <3>2. e = [c EXCEPT !.ackd = b, !.next = h, !.ackable = 0, !.act = k]
      BY <1>6, <2>4
    <3> HIDE DEF k, h, b
    <3>3. /\ e \in CtxType(a, p) /\ e.ackd = b /\ e.st = c.st /\ e.act = k /\ e.next = h /\ e.recv = c.recv
          /\ e.ackable = 0 /\ e.first = c.first /\ e.ofirst = c.ofirst /\ e.flags = c.flags
      <4>1. c \in CtxType(a, p)
        BY <1>2
      <4>2. e.ackd = b /\ e.st = c.st /\ e.act = k /\ e.next = h /\ e.recv = c.recv
            /\ e.ackable = 0 /\ e.first = c.first /\ e.ofirst = c.ofirst /\ e.flags = c.flags /\ e.same = c.same
        BY ONLY <3>2, <4>1 DEF CtxType
      <4>3. e \in CtxType(a, p)
        <5> DEFINE A == 1 .. Len(a)  S == States(p)  F == SUBSET CtxFlags  I == Int
        <5>1. k \in A /\ b \in I /\ h \in I /\ 0 \in I
          BY <3>1
        <5>2. c \in [st : S, act : A, next : I, ackd : I, recv : I, ackable : I,
                     first : I, ofirst : I, same : Nat, flags : F]
          BY <4>1 DEF CtxType
        <5> HIDE DEF A, S, F, I
        <5>3. e \in [st : S, act : A, next : I, ackd : I, recv : I, ackable : I,
                     first : I, ofirst : I, same : Nat, flags : F]
          BY ONLY <3>2, <5>1, <5>2
        <5> QED BY <5>3 DEF A, S, F, I, CtxType
      <4> QED BY <4>2, <4>3
    <3> QED BY <3>3 DEF k, h, b
  <2>7. /\ Before(a, p)[c.act + 1] = Before(a, p)[c.act] + a[c.act].len
        /\ Before(a, q)[c.act + 1] = Before(a, q)[c.act]
    <3>1. q \in Peers /\ q # p
      BY TwoPeers
    <3>2. \A r \in Peers : Before(a, r)[c.act + 1] = Before(a, r)[c.act] + (IF a[c.act].peer = r THEN a[c.act].len ELSE 0)
      BY <2>5, BytesOf
    <3>3. Before(a, q)[c.act + 1] = Before(a, q)[c.act] + (IF a[c.act].peer = q THEN a[c.act].len ELSE 0)
      BY <3>1, <3>2
    <3>4. Before(a, p)[c.act + 1] = Before(a, p)[c.act] + (IF a[c.act].peer = p THEN a[c.act].len ELSE 0)
      BY <3>2
    <3> QED BY <1>1, <2>3, <3>1, <3>3, <3>4
  <2>8. "FIN" \notin c.flags /\ c.recv - First(q) = Before(a, q)[c.act]
    BY <1>2, <2>3 DEF Played
  <2>9. Played(a, p, e)
    BY <1>1, <2>5, <2>6, <2>7, <2>8, NextPlayed
  <2>10. Base(a, p, e) = c.ackable
    BY SMTT(60), <1>1, <2>3, <2>6, <2>7 DEF Base
  <2>11. CtxOK(a, p, e)
    <3>1. CtxKnown(a, p, e)
      BY <1>2, <2>6, <2>9 DEF CtxKnown
    <3>2. CtxEstablished(a, p, e)
      BY <1>6, <2>6, <2>10 DEF CtxEstablished
    <3>3. CtxSynSent(e) /\ CtxListen(a, p, e) /\ CtxClosing(a, p, e)
      BY <2>2, <2>6 DEF CtxSynSent, CtxListen, CtxClosing, Closing
    <3>4. OpenC(e) => "SYN" \in e.flags /\ e.first = First(p)
      BY <2>2, <2>6 DEF CtxOK
    <3> QED BY <2>2, <2>6, <3>1, <3>2, <3>3, <3>4 DEF CtxOK
  <2>12. HighSent(e) = c.ackable /\ HighSent(c) = c.ackable
    BY <2>1, <2>6 DEF HighSent
  <2> QED BY <1>1, <1>3, <1>6, <2>2, <2>6, <2>11, <2>12 DEF Calm, e
<1>7. \/ s.ack <= c.ackd /\ e = c
      \/ s.ack > c.ackd /\ c.ackable # s.ack /\ e = [c EXCEPT !.ackd = s.ack]
      \/ /\ s.ack > c.ackd /\ c.ackable = s.ack
         /\ e = [c EXCEPT !.ackd = s.ack, !.next = Skipped(c), !.ackable = 0, !.act = @ + 1]
  BY <1>1, AckedIs
<1> HIDE DEF e
<1> QED BY <1>4, <1>5, <1>6, <1>7 DEF e

\* The acknowledgement of the segment that arrives.
LEMMA AckedChange ==
  ASSUME NEW a, PlayedList(a), NEW x, NEW n, ConnInv(a, x, n), NEW p \in Peers, n[p] # <<>>,
         Known(x[p]), "ACK" \in Head(n[p]).flags
  PROVE  LET s == Head(n[p])  e == Acked(x[p], s) IN
         /\ ConnInv(a, Put(x, p, e), n) /\ Known(e) /\ e.st = x[p].st /\ s.ack <= e.ackd
         /\ e.recv = x[p].recv /\ ("FIN" \in e.flags <=> "FIN" \in x[p].flags)
<1> DEFINE s == Head(n[p])
           c == x[p]
           e == Acked(c, s)
           q == Other(p)
           d == x[q]
<1>1. c.st # "GONE" /\ "SYN" \in c.flags /\ CtxOK(a, p, c) /\ n[p] \in Seq(Segment_(a, q))
  BY DEF Known, ConnInv
<1>2. s \in Segs(n[p])
  BY <1>1, SegsTail
<1>3. s.ack \in Int /\ (SegSyn(q, s) \/ SegPlain(a, q, s))
  BY <1>2, SegmentIs
<1>4. Pair(a, p, c, d, n[p], n[q]) /\ EarlyOK(x, n) /\ FreshOK(x, n)
  BY DEF ConnInv
<1>5. s.ack >= 100
  BY <1>3, TwoPeers DEF SegSyn, SegPlain
<1>6. (Sending(c) => s.ack <= HighSent(c)) /\ (Known(d) => s.ack <= d.recv)
  BY <1>2, <1>4 DEF Pair, AcksSent, AcksGot
<1> HIDE DEF e, s, q
<1>7. /\ CtxOK(a, p, e) /\ Calm(c, e) /\ e.st = c.st /\ s.ack <= e.ackd
      /\ (Sending(c) => HighSent(e) = HighSent(c) /\ HighSent(c) \in Int)
      /\ (e.ackd = c.ackd \/ e.ackd = s.ack)
      /\ (c.st # "ESTABLISHED" => e.act = c.act)
  BY <1>1, <1>3, <1>5, <1>6, AckedContext DEF e, s
<1>8. (OpenC(e) <=> OpenC(c)) /\ (Sending(e) <=> Sending(c)) /\ Known(e)
  BY <1>1, <1>7 DEF OpenC, Sending, Known, Calm
<1>9. AckedGot(e, d)
  BY <1>4, <1>6, <1>7, <1>8 DEF AckedGot, Pair
<1>10. GotSent(e, d) /\ AcksSent(e, n[p]) /\ DataSent(e, n[q])
  BY <1>4, <1>7, <1>8 DEF GotSent, AcksSent, DataSent, Pair
<1>11. PhaseOK(x, n, p, c, e)
  <2>1. c.st # "CLOSED"
    BY <1>1 DEF CtxOK
  <2>2. CASE p = "client"
    <3>1. Early(x, n) => s.ack = 100 /\ (OpenC(c) => c.ackd <= 100)
      BY <1>2, <1>4, <2>2 DEF EarlyOK, s
    <3> QED BY <1>7, <1>8, <2>1, <2>2, <3>1 DEF PhaseOK
  <2>3. CASE p = "server"
    <3>1. Plain(s)
      <4>1. q = "client"
        BY <2>3 DEF q, Other
      <4> QED BY <1>3, <4>1 DEF SegSyn, SegPlain, s
    <3>2. ~ Early(x, n)
      BY <2>3, <3>1, HeadPlain DEF s
    <3>3. e.st = "SYN_RECEIVED" \/ (e.st = "LISTEN" /\ Known(e)) => Fresh(x, n)
      <4>1. x["server"].st = e.st /\ Known(x["server"])
        BY <1>7, <2>3
      <4> QED BY <4>1 DEF Fresh
    <3> QED BY <1>7, <2>1, <2>3, <3>2, <3>3 DEF PhaseOK
  <2> QED BY <2>2, <2>3 DEF Peers
<1>12. ConnInv(a, Put(x, p, e), n)
  BY <1>7, <1>9, <1>10, <1>11, CalmChange DEF q
<1> QED BY <1>7, <1>8, <1>12 DEF e, s, Calm

\* Something was received.
Grown(c, e) ==
  /\ e.st = c.st /\ e.ackd = c.ackd /\ e.next = c.next /\ e.ackable = c.ackable
  /\ ("SYN" \in e.flags <=> "SYN" \in c.flags) /\ e.recv >= c.recv

\* The invariant, for a change by which data or an acknowledgement is received.
LEMMA GrownChange ==
  ASSUME NEW a, PlayedList(a), NEW x, NEW n, ConnInv(a, x, n), NEW p \in Peers, n[p] # <<>>, Plain(Head(n[p])),
         Known(x[p]), NEW e, CtxOK(a, p, e), Grown(x[p], e),
         Sending(x[Other(p)]) => e.recv <= HighSent(x[Other(p)])
  PROVE  ConnInv(a, Put(x, p, e), n)
<1> DEFINE q == Other(p)
           c == x[p]
           d == x[q]
           y == Put(x, p, e)
<1>1. (p = "client" /\ q = "server") \/ (p = "server" /\ q = "client")
  BY DEF Other, Peers
<1>2. y[p] = e /\ y[q] = d
  BY PutIs
<1>3. q \in Peers /\ Other(q) = p /\ n[p] \in Seq(Segment_(a, q)) /\ n[q] \in Seq(Segment_(a, p))
  BY TwoPeers DEF ConnInv
<1>4. /\ Pair(a, p, c, d, n[p], n[q]) /\ Pair(a, q, d, c, n[q], n[p]) /\ c.st # "GONE" /\ CtxOK(a, p, c)
      /\ EarlyOK(x, n) /\ FreshOK(x, n) /\ SynAgain(x, n) /\ ClosedOK(x, n)
      /\ (d.st # "GONE" => CtxOK(a, q, d))
  BY <1>3 DEF ConnInv, Known
<1>5. (OpenC(e) <=> OpenC(c)) /\ (Sending(e) <=> Sending(c)) /\ HighSent(e) = HighSent(c) /\ (Known(e) <=> Known(c)) /\ Known(e)
      /\ e.ackd = c.ackd /\ e.st = c.st /\ e.recv >= c.recv
  BY DEF Grown, OpenC, Sending, HighSent, Known
<1>6. e.recv \in Int /\ c.recv \in Int /\ (d.st # "GONE" => d.ackd \in Int) /\ Total(a, q) \in Nat /\ First(q) \in Nat
  <2>1. CtxOK(a, p, c) /\ p \in Peers
    BY <1>4
  <2>2. Total(a, q) \in Nat
    <3> HIDE DEF c
    <3> QED BY <2>1, ContextIs
  <2>3. First(q) \in Nat
    BY DEF First
  <2> QED BY <1>3, <1>4, <2>2, <2>3, ContextIs
<1>7. \A s \in Segs(n[q]) : s.ack \in Int
  BY <1>3, SegmentIs
<1> HIDE DEF y, q
<1>8. AckedGot(e, d) /\ GotSent(e, d) /\ AcksSent(e, n[p]) /\ DataSent(e, n[q])
  BY <1>4, <1>5 DEF Pair, AckedGot, GotSent, AcksSent, DataSent
<1>9. AckedGot(d, e)
  <2>1. OpenC(d) => d.ackd \in Int /\ d.ackd <= c.recv
    BY <1>4, <1>5, <1>6 DEF Pair, AckedGot, OpenC
  <2> QED BY <1>5, <1>6, <2>1 DEF AckedGot
<1>10. AcksGot(n[q], e)
  <2>1. \A s \in Segs(n[q]) : "ACK" \in s.flags => s.ack <= c.recv
    BY <1>4, <1>5 DEF Pair, AcksGot
  <2> QED BY <1>5, <1>6, <1>7, <2>1 DEF AcksGot
<1>11. GotSent(d, e)
  BY DEF GotSent, q
<1>12. FinGot(a, q, e, n[p])
  <2>1. Has(n[p], "FIN") => c.recv >= First(q) + Total(a, q)
    BY <1>4, <1>5 DEF Pair, FinGot
  <2> QED BY <1>5, <1>6, <2>1 DEF FinGot
<1>13. ~ Has(n[p], "SYN") /\ (p = "server" => ~ Early(x, n))
  BY HeadPlain
<1>14. p = "client" => ~ Fresh(x, n)
  BY <1>3, <1>4, SegsTail DEF FreshOK
<1>15. (Early(y, n) <=> Early(x, n)) /\ (Fresh(y, n) <=> Fresh(x, n))
  <2>1. Early(y, n) <=> Early(x, n)
    BY <1>1, <1>2, <1>5 DEF Early
  <2>2. CASE p = "client"
    BY <1>1, <1>2, <2>1, <2>2 DEF Fresh
  <2>3. CASE p = "server"
    BY <1>1, <1>2, <1>5, <2>1, <2>3 DEF Fresh
  <2> QED BY <1>1, <2>1, <2>2, <2>3
<1>16. EarlyOK(y, n) /\ FreshOK(y, n) /\ SynAgain(y, n) /\ ClosedOK(y, n)
  <2>1. CASE p = "client"
    <3>1. ~ Early(y, n) /\ ~ Fresh(y, n)
      BY <1>14, <1>15, <2>1 DEF Fresh
    <3>2. ~ Has(n["client"], "SYN") /\ y["client"].st # "CLOSED"
      BY <1>2, <1>4, <1>5, <1>13, <2>1 DEF CtxOK, Known
    <3> QED BY <3>1, <3>2 DEF EarlyOK, FreshOK, SynAgain, ClosedOK
  <2>2. CASE p = "server"
    <3>1. y["client"] = x["client"] /\ x["server"].st # "GONE"
      BY <1>1, <1>2, <1>4, <2>2
    <3> QED BY <1>4, <1>13, <1>15, <2>2, <3>1 DEF EarlyOK, FreshOK, SynAgain, ClosedOK
  <2> QED BY <1>1, <2>1, <2>2
<1>17. ChangeOK(a, x, n, p, e)
  BY <1>8, <1>9, <1>10, <1>11, <1>12, <1>16 DEF ChangeOK, q, y
<1> QED BY <1>17, ContextChanges

\* All of the sender's bytes were received, and nothing of this peer's is left:
\* it is at the last action.
LEMMA LastReached ==
  ASSUME NEW a, PlayedList(a), NEW p \in Peers, NEW c, CtxOK(a, p, c), "SYN" \in c.flags,
         c.recv >= First(Other(p)) + Total(a, Other(p)),
         \/ c.recv > First(Other(p)) + Total(a, Other(p))
         \/ c.st = "ESTABLISHED" /\ c.ackd >= First(p) + Total(a, p)
         \/ c.st \in {"LISTEN", "SYN_RECEIVED"} /\ Total(a, p) = 0
         \/ c.st \in Closing
  PROVE  c.act = Len(a)
<1> DEFINE q == Other(p)
           i == c.act
<1> SUFFICES ASSUME i # Len(a) PROVE FALSE
  OBVIOUS
<1>1. /\ i \in 1 .. Len(a) /\ c.ackd \in Int /\ c.recv \in Int /\ c.ackable \in Int
      /\ Base(a, p, c) \in Int /\ a[i].len \in Nat /\ Before(a, p)[i] \in Nat /\ Before(a, q)[i] \in Nat
      /\ First(p) \in Nat /\ a[i].peer \in Peers /\ Len(a) \in Nat \ {0} /\ Total(a, p) \in Nat /\ Total(a, q) \in Nat
  BY ContextIs
<1>2. q \in Peers /\ q # p /\ Peers = {p, q} /\ First(q) \in Nat
  BY TwoPeers
<1>3. i \in 1 .. Len(a) - 1 /\ i + 1 \in 1 .. Len(a) /\ Len(a) \in i + 1 .. Len(a) /\ Len(a) \in i .. Len(a)
  BY SMTT(60), <1>1
<1>4. /\ Before(a, p)[i + 1] = Before(a, p)[i] + (IF a[i].peer = p THEN a[i].len ELSE 0)
      /\ Before(a, q)[i + 1] = Before(a, q)[i] + (IF a[i].peer = q THEN a[i].len ELSE 0)
      /\ a[i].len > 0
  BY <1>2, <1>3, BytesOf
<1>5. Before(a, p)[i + 1] <= Total(a, p) /\ Before(a, q)[i + 1] <= Total(a, q) /\ Before(a, q)[i] <= Total(a, q)
  BY <1>1, <1>2, <1>3, MoreBytes DEF Total
<1>6. Played(a, p, c)
  BY DEF CtxOK, CtxKnown
<1>7. a[i].peer = p /\ c.recv - First(q) = Before(a, q)[i]
  <2>1. a[i].peer = q => c.recv - First(q) < Before(a, q)[i] + a[i].len
    BY <1>6 DEF Played
  <2>2. a[i].peer # q
    <3> SUFFICES ASSUME a[i].peer = q PROVE FALSE
      OBVIOUS
    <3> DEFINE b == Before(a, q)[i]  k == Before(a, q)[i + 1]  t == Total(a, q)  r == c.recv  f == First(q)  l == a[i].len
    <3>1. r - f < b + l /\ k = b + l /\ k <= t /\ r >= f + t
      BY <1>4, <1>5, <2>1
    <3>2. r \in Int /\ f \in Nat /\ b \in Nat /\ l \in Nat /\ t \in Nat
      BY <1>1, <1>2
    <3> HIDE DEF b, k, t, r, f, l
    <3> QED BY <3>1, <3>2
  <2> QED BY <1>1, <1>2, <1>6, <2>2 DEF Played
<1>8. Before(a, p)[i] + a[i].len <= Total(a, p) /\ Total(a, p) > 0
  BY <1>1, <1>4, <1>5, <1>7
<1>9. c.st = "ESTABLISHED" /\ c.ackd >= First(p) + Total(a, p)
  <2>1. ~ (c.recv > First(q) + Total(a, q))
    BY <1>1, <1>2, <1>5, <1>7
  <2>2. c.st \notin Closing
    BY DEF CtxOK, CtxClosing
  <2> QED BY <1>1, <1>8, <2>1, <2>2
<1>10. CtxEstablished(a, p, c)
  BY DEF CtxOK
<1>11. CASE c.ackable = 0
  BY SMTT(60), <1>1, <1>4, <1>8, <1>9, <1>10, <1>11 DEF CtxEstablished, Base
<1>12. CASE c.ackable # 0
  <2>1. c.ackable = Base(a, p, c) + a[i].len /\ c.ackd < c.ackable
    BY <1>9, <1>10, <1>12 DEF CtxEstablished
  <2> QED BY SMTT(60), <1>1, <1>8, <1>9, <2>1 DEF Base
<1> QED BY <1>11, <1>12

\* What the segment at the head of the network is to the one it is for.
LEMMA HeadIs ==
  ASSUME NEW a, PlayedList(a), NEW x, NEW n, ConnInv(a, x, n), NEW p \in Peers, n[p] # <<>>, Plain(Head(n[p])),
         Known(x[p])
  PROVE  LET q == Other(p)  s == Head(n[p])  c == x[p] IN
         /\ q \in Peers /\ Other(q) = p /\ q # p /\ First(p) \in Nat /\ First(q) \in Nat
         /\ CtxOK(a, p, c) /\ "SYN" \in c.flags /\ c.st # "CLOSED" /\ c.st # "SYN_SENT"
         /\ s \in Segs(n[p]) /\ SegPlain(a, q, s)
         /\ s.seq \in Int /\ s.ack \in Int /\ s.pos \in Int /\ s.len \in Nat /\ s.from = q
         /\ Sending(x[q]) => s.seq + s.len + Fin(s.flags) <= HighSent(x[q])
<1> DEFINE q == Other(p)  s == Head(n[p])  c == x[p]
<1>1. q \in Peers /\ Other(q) = p /\ q # p /\ First(p) \in Nat /\ First(q) \in Nat
  BY TwoPeers DEF First
<1>2. CtxOK(a, p, c) /\ "SYN" \in c.flags /\ c.st # "CLOSED" /\ n[p] \in Seq(Segment_(a, q))
  BY DEF ConnInv, Known, CtxOK
<1>3. s \in Segs(n[p])
  BY <1>2, SegsTail
<1>4. SegPlain(a, q, s) /\ s.seq \in Int /\ s.ack \in Int /\ s.pos \in Int /\ s.len \in Nat /\ s.from = q
  BY <1>3, SegmentIs DEF SegSyn, Plain
<1>5. c.st # "SYN_SENT"
  <2> SUFFICES ASSUME c.st = "SYN_SENT" PROVE FALSE
    OBVIOUS
  <2>1. p = "client"
    <3>1. c.st \in States(p)
      BY <1>2 DEF CtxOK, CtxType
    <3> QED BY <3>1 DEF States
  <2>2. Fresh(x, n)
    BY <2>1 DEF Fresh, Early
  <2> QED BY <1>3, <2>1, <2>2 DEF ConnInv, FreshOK
<1>6. Pair(a, q, x[q], c, n[q], n[p])
  BY <1>1 DEF ConnInv
<1>7. Sending(x[q]) => s.seq + s.len + Fin(s.flags) <= HighSent(x[q])
  BY <1>3, <1>6 DEF Pair, DataSent
<1> HIDE DEF q, s, c
<1> QED BY <1>1, <1>2, <1>3, <1>4, <1>5, <1>7 DEF q, s, c

\* The FIN arrives in order.
LEMMA FinReceived ==
  ASSUME NEW a, PlayedList(a), NEW x, NEW n, ConnInv(a, x, n), NEW p \in Peers, n[p] # <<>>, Plain(Head(n[p])),
         Known(x[p]), "FIN" \in Head(n[p]).flags, Head(n[p]).ack <= x[p].ackd, x[p].recv = Head(n[p]).seq,
         NEW e \in CtxType(a, p), Grown(x[p], e), e.act = x[p].act, e.recv = x[p].recv + 1,
         e.first = x[p].first, e.ofirst = x[p].ofirst, "FIN" \in e.flags
  PROVE  ConnInv(a, Put(x, p, e), n)
<1> DEFINE q == Other(p)  s == Head(n[p])  c == x[p]  d == x[q]  tp == First(p) + Total(a, p)  tq == First(q) + Total(a, q)
<1>1. /\ q \in Peers /\ Other(q) = p /\ q # p /\ First(p) \in Nat /\ First(q) \in Nat
      /\ CtxOK(a, p, c) /\ "SYN" \in c.flags /\ c.st # "CLOSED" /\ c.st # "SYN_SENT"
      /\ s \in Segs(n[p]) /\ SegPlain(a, q, s)
      /\ s.seq \in Int /\ s.ack \in Int /\ s.pos \in Int /\ s.len \in Nat
      /\ (Sending(d) => s.seq + s.len + Fin(s.flags) <= HighSent(d))
  BY HeadIs
<1>2. /\ c.act \in 1 .. Len(a) /\ c.next \in Int /\ c.ackd \in Int /\ c.recv \in Int /\ c.ackable \in Int
      /\ c.flags \in SUBSET CtxFlags /\ c.st \in States(p) /\ Total(a, p) \in Nat /\ Total(a, q) \in Nat
      /\ Before(a, q)[c.act] \in Nat
  BY <1>1, ContextIs
<1> HIDE DEF q, s, c, d
<1>3. s.seq = tq /\ s.len = 0 /\ s.ack >= tp /\ c.recv = tq /\ c.ackd >= tp
  <2>1. "FIN" \in s.flags /\ s.ack <= c.ackd /\ c.recv = s.seq
    BY DEF s, c
  <2>2. s.seq = tq /\ s.len = 0 /\ s.ack >= tp
    BY <1>1, <2>1 DEF SegPlain
  <2> HIDE DEF tp, tq
  <2>3. tp \in Int /\ tq \in Int
    BY <1>1, <1>2 DEF tp, tq
  <2> QED BY <1>1, <1>2, <2>1, <2>2, <2>3
<1>4. c.act = Len(a)
  <2>1. c.st \in {"LISTEN", "SYN_RECEIVED"} => Total(a, p) = 0
    <3> SUFFICES ASSUME c.st \in {"LISTEN", "SYN_RECEIVED"} PROVE Total(a, p) = 0
      OBVIOUS
    <3>1. p = "server"
      BY <1>2 DEF States, Peers
    <3>2. Fresh(x, n)
      BY <3>1 DEF Fresh, c
    <3>3. s.ack <= 201
      BY <1>1, <3>1, <3>2 DEF ConnInv, FreshOK, SegPlain, Plain
    <3>4. tp = 201 + Total(a, p)
      BY <3>1 DEF First
    <3> QED BY <1>1, <1>2, <1>3, <3>3, <3>4
  <2>2. c.st = "ESTABLISHED" \/ c.st \in {"LISTEN", "SYN_RECEIVED"} \/ c.st \in Closing
    BY <1>1, <1>2 DEF States, Closing
  <2>3. c.recv >= tq /\ c.ackd >= tp
    BY <1>1, <1>2, <1>3
  <2> QED BY <1>1, <2>1, <2>2, <2>3, LastReached DEF q
<1>5. Before(a, q)[c.act] = Total(a, q)
  BY <1>4 DEF Total
<1>6. /\ e.act = c.act /\ e.recv = tq + 1 /\ e.st = c.st /\ e.ackd = c.ackd /\ e.next = c.next /\ e.ackable = c.ackable
      /\ e.first = c.first /\ e.ofirst = c.ofirst /\ "FIN" \in e.flags /\ "SYN" \in e.flags
  BY <1>1, <1>3 DEF Grown, c
<1>7. Played(a, p, e)
  <2>1. Fin(e.flags) = 1
    BY <1>6 DEF Fin
  <2>2. e.recv - First(q) = Total(a, q) + 1
    BY SMTT(60), <1>1, <1>2, <1>6
  <2> QED BY <1>2, <1>4, <1>5, <1>6, <2>1, <2>2 DEF Played, q
<1>8. CtxOK(a, p, e)
  <2>1. CtxKnown(a, p, e)
    <3>1. c.ofirst = First(q)
      BY <1>1 DEF CtxOK, CtxKnown, q
    <3>2. e.recv >= First(q)
      BY SMTT(60), <1>1, <1>2, <1>6
    <3> QED BY <1>6, <1>7, <3>1, <3>2 DEF CtxKnown, q
  <2>2. CtxSynSent(e)
    BY <1>1, <1>6 DEF CtxSynSent
  <2>3. CtxListen(a, p, e)
    BY <1>1, <1>6 DEF CtxOK, CtxListen
  <2>4. CtxEstablished(a, p, e)
    BY <1>1, <1>6 DEF CtxOK, CtxEstablished, Base
  <2>5. CtxClosing(a, p, e)
    BY <1>1, <1>6 DEF CtxOK, CtxClosing
  <2>6. (OpenC(e) => e.first = First(p)) /\ (e.st # "ESTABLISHED" => e.ackable = 0)
    BY <1>1, <1>6 DEF CtxOK, OpenC
  <2> QED BY <1>1, <1>6, <2>1, <2>2, <2>3, <2>4, <2>5, <2>6 DEF CtxOK
<1>9. Sending(d) => e.recv <= HighSent(d)
  <2>1. Fin(s.flags) = 1
    BY DEF Fin, s
  <2> QED BY <1>1, <1>3, <1>6, <2>1
<1> QED BY <1>8, <1>9, GrownChange DEF d, q

\* A FIN that comes again was received before.
LEMMA FinSeen ==
  ASSUME NEW a, PlayedList(a), NEW x, NEW n, ConnInv(a, x, n), NEW p \in Peers, n[p] # <<>>, Plain(Head(n[p])),
         Known(x[p]), "FIN" \in Head(n[p]).flags, x[p].recv # Head(n[p]).seq
  PROVE  "FIN" \in x[p].flags
<1> DEFINE q == Other(p)  s == Head(n[p])  c == x[p]  tq == First(q) + Total(a, q)
<1>1. /\ q \in Peers /\ Other(q) = p /\ First(q) \in Nat
      /\ CtxOK(a, p, c) /\ "SYN" \in c.flags /\ s \in Segs(n[p]) /\ SegPlain(a, q, s) /\ s.seq \in Int
  BY HeadIs
<1>2. c.recv \in Int /\ Total(a, q) \in Nat /\ Before(a, q)[c.act] \in Nat
  BY <1>1, ContextIs
<1>3. Pair(a, q, x[q], c, n[q], n[p])
  BY <1>1 DEF ConnInv
<1>4. c.recv >= tq
  BY <1>1, <1>3 DEF Pair, FinGot, Has
<1>5. s.seq = tq
  BY <1>1 DEF SegPlain
<1>6. c.recv > tq
  <2> HIDE DEF c, s, tq
  <2>1. tq \in Int
    BY <1>1, <1>2 DEF tq
  <2> QED BY <1>2, <1>4, <1>5, <2>1 DEF c, s
<1> HIDE DEF c
<1>7. c.act = Len(a)
  BY <1>1, <1>4, <1>6, LastReached
<1>8. c.recv - First(q) = Total(a, q) + Fin(c.flags)
  BY <1>1, <1>7 DEF CtxOK, CtxKnown, Played, Total
<1>9. Fin(c.flags) # 0
  BY <1>1, <1>2, <1>6, <1>8
<1> QED BY <1>9 DEF Fin, c

\* Data that comes in order is of an action before the last.
LEMMA NotLast ==
  ASSUME NEW a, PlayedList(a), NEW x, NEW n, ConnInv(a, x, n), NEW p \in Peers, n[p] # <<>>, Plain(Head(n[p])),
         Known(x[p]), x[p].recv = Head(n[p]).seq, Head(n[p]).len > 0
  PROVE  x[p].act \in 1 .. Len(a) - 1
<1> DEFINE q == Other(p)  s == Head(n[p])  c == x[p]  d == x[q]  i == c.act  b == Before(a, q)[i]  l == a[i].len
           f == First(q)  t == Total(a, q)
<1>1. /\ q \in Peers /\ Other(q) = p /\ q # p /\ First(p) \in Nat /\ f \in Nat
      /\ CtxOK(a, p, c) /\ "SYN" \in c.flags /\ c.st # "CLOSED" /\ c.st # "SYN_SENT"
      /\ s \in Segs(n[p]) /\ SegPlain(a, q, s)
      /\ s.seq \in Int /\ s.ack \in Int /\ s.pos \in Int /\ s.len \in Nat /\ s.from = q
      /\ (Sending(d) => s.seq + s.len + Fin(s.flags) <= HighSent(d))
  BY HeadIs
<1>2. /\ i \in 1 .. Len(a) /\ c.next \in Int /\ c.ackd \in Int /\ c.recv \in Int /\ c.ackable \in Int
      /\ c.flags \in SUBSET CtxFlags /\ c.st \in States(p) /\ t \in Nat
      /\ b \in Nat /\ l \in Nat /\ Len(a) \in Nat /\ Before(a, p)[i] \in Nat
  BY <1>1, ContextIs
<1>3. c.ofirst = f /\ Played(a, p, c)
  BY <1>1 DEF CtxOK, CtxKnown
<1>4. c.recv = s.seq /\ s.len > 0
  OBVIOUS
<1> HIDE DEF q, s, c, d, i, b, l, f, t
<1>7. s.seq = f + s.pos /\ s.pos + s.len <= t
  BY <1>1, <1>4 DEF SegPlain, f, t
<1>8. i # Len(a)
  <2> SUFFICES ASSUME i = Len(a) PROVE FALSE
    OBVIOUS
  <2>1. c.recv - f >= t
    <3>1. b = t
      BY DEF b, t, Total, i
    <3>2. b <= c.recv - f
      BY <1>3 DEF Played, b, f, q, i
    <3> QED BY <1>1, <1>2, <3>1, <3>2
  <2> QED BY <1>1, <1>2, <1>4, <1>7, <2>1
<1> QED BY <1>2, <1>8 DEF i, c

\* The next data of the action, or the last of it.
LEMMA DataReceived ==
  ASSUME NEW a, PlayedList(a), NEW x, NEW n, ConnInv(a, x, n), NEW p \in Peers, n[p] # <<>>, Plain(Head(n[p])),
         Known(x[p]), x[p].recv = Head(n[p]).seq,
         LET c == x[p]  s == Head(n[p])  at == c.recv - c.ofirst IN
         /\ s.len > 0 /\ a[c.act].peer = s.from /\ s.len <= a[c.act].beg + a[c.act].len - at,
         NEW e \in CtxType(a, p), Grown(x[p], e), e.recv = x[p].recv + Head(n[p]).len,
         e.first = x[p].first, e.ofirst = x[p].ofirst, "FIN" \in e.flags <=> "FIN" \in x[p].flags,
         e.act = IF e.recv - x[p].ofirst = a[x[p].act].beg + a[x[p].act].len THEN x[p].act + 1 ELSE x[p].act
  PROVE  ConnInv(a, Put(x, p, e), n)
<1> DEFINE q == Other(p)  s == Head(n[p])  c == x[p]  d == x[q]  i == c.act  b == Before(a, q)[i]  l == a[i].len
           f == First(q)  t == Total(a, q)
<1>1. /\ q \in Peers /\ Other(q) = p /\ q # p /\ First(p) \in Nat /\ f \in Nat
      /\ CtxOK(a, p, c) /\ "SYN" \in c.flags /\ c.st # "CLOSED" /\ c.st # "SYN_SENT"
      /\ s \in Segs(n[p]) /\ SegPlain(a, q, s)
      /\ s.seq \in Int /\ s.ack \in Int /\ s.pos \in Int /\ s.len \in Nat /\ s.from = q
      /\ (Sending(d) => s.seq + s.len + Fin(s.flags) <= HighSent(d))
  BY HeadIs
<1>2. /\ i \in 1 .. Len(a) /\ c.next \in Int /\ c.ackd \in Int /\ c.recv \in Int /\ c.ackable \in Int
      /\ c.flags \in SUBSET CtxFlags /\ c.st \in States(p) /\ t \in Nat
      /\ b \in Nat /\ l \in Nat /\ Len(a) \in Nat /\ Before(a, p)[i] \in Nat
  BY <1>1, ContextIs
<1>3. c.ofirst = f /\ Played(a, p, c)
  BY <1>1 DEF CtxOK, CtxKnown
<1>4. c.recv = s.seq /\ s.len > 0 /\ a[i].peer = q /\ s.len <= a[i].beg + l - (c.recv - f)
  BY <1>1, <1>3
<1>5. e.recv = c.recv + s.len /\ e.act = IF e.recv - f = a[i].beg + l THEN i + 1 ELSE i
  BY <1>3
<1>6. /\ e.st = c.st /\ e.ackd = c.ackd /\ e.next = c.next /\ e.ackable = c.ackable
      /\ e.first = c.first /\ e.ofirst = c.ofirst /\ ("FIN" \in e.flags <=> "FIN" \in c.flags) /\ "SYN" \in e.flags
  BY <1>1 DEF Grown
<1> HIDE DEF q, s, c, d, i, b, l, f, t
<1>7. s.seq = f + s.pos /\ s.pos + s.len <= t
  BY <1>1, <1>4 DEF SegPlain, f, t
<1>8. i \in 1 .. Len(a) - 1 /\ i # Len(a)
  <2>1. i \in 1 .. Len(a) - 1
    BY NotLast DEF i, c
  <2> QED BY <1>2, <2>1
<1>9. i \in 1 .. Len(a) - 1
  BY <1>2, <1>8
<1>10. /\ Before(a, q)[i + 1] = b + l /\ Before(a, p)[i + 1] = Before(a, p)[i] /\ a[i].beg = b
  <2>1. \A r \in Peers : Before(a, r)[i + 1] = Before(a, r)[i] + (IF a[i].peer = r THEN a[i].len ELSE 0)
    BY <1>9, BytesOf
  <2>2. a[i].beg = Before(a, a[i].peer)[i]
    BY <1>1, <1>9, BytesOf
  <2>3. Before(a, q)[i + 1] = b + l
    BY <1>1, <1>4, <2>1 DEF b, l
  <2>4. Before(a, p)[i + 1] = Before(a, p)[i]
    BY <1>1, <1>2, <1>4, <2>1
  <2> QED BY <1>4, <2>2, <2>3, <2>4 DEF b
<1>11. /\ "FIN" \notin c.flags /\ b <= c.recv - f /\ c.recv - f < b + l
  <2>1. "FIN" \notin c.flags /\ b <= c.recv - f /\ (a[i].peer = q => c.recv - f < b + l)
    BY <1>3, <1>8 DEF Played, b, f, q, i, l
  <2> QED BY <1>4, <2>1
<1>12. e.recv \in Int /\ e.recv - f <= b + l /\ e.recv > c.recv
  <2> DEFINE r == c.recv  k == s.len  h == e.recv
  <2>1. k <= b + l - (r - f) /\ k > 0 /\ h = r + k
    BY <1>4, <1>5, <1>10
  <2>2. r \in Int /\ k \in Nat /\ b \in Nat /\ l \in Nat /\ f \in Nat
    BY <1>1, <1>2
  <2> HIDE DEF r, k, h
  <2>3. h \in Int /\ h - f <= b + l /\ h > r
    BY <2>1, <2>2
  <2> QED BY <2>3 DEF r, h
<1>13. Played(a, p, e) /\ Before(a, p)[e.act] = Before(a, p)[i] /\ e.act \in {i, i + 1}
  <2>1. CASE e.recv - f = b + l
    <3>1. e.act = i + 1
      BY <1>5, <1>10, <2>1
    <3>2. e.recv - First(Other(p)) = Before(a, Other(p))[i + 1]
      BY <1>10, <2>1 DEF f, q
    <3>3. Played(a, p, e)
      BY <1>6, <1>9, <1>11, <1>12, <3>1, <3>2, NextPlayed DEF i
    <3> QED BY <1>10, <3>1, <3>3
  <2>2. CASE e.recv - f # b + l
    <3>1. e.act = i
      BY <1>5, <1>10, <2>2
    <3>2. e.recv - f < b + l /\ b <= e.recv - f
      <4> DEFINE r == c.recv  h == e.recv
      <4>1. h - f # b + l /\ h - f <= b + l /\ h > r /\ b <= r - f /\ h \in Int /\ r \in Int /\ b \in Nat /\ l \in Nat /\ f \in Nat
        BY <1>1, <1>2, <1>11, <1>12, <2>2
      <4> HIDE DEF r, h
      <4>2. h - f < b + l /\ b <= h - f
        BY <4>1
      <4> QED BY <4>2 DEF h
    <3>3. a[i].peer # p
      BY <1>1, <1>4
    <3> QED BY <1>6, <1>8, <1>11, <3>1, <3>2, <3>3 DEF Played, b, f, q, l
  <2> QED BY <2>1, <2>2
<1>14. CtxOK(a, p, e)
  <2>1. CtxKnown(a, p, e)
    <3>1. e.recv >= First(q)
      <4>1. c.recv >= f
        BY <1>1, <1>2, <1>11
      <4> QED BY SMTT(60), <1>1, <1>2, <1>12, <4>1 DEF f
    <3> QED BY <1>3, <1>6, <1>13, <3>1 DEF CtxKnown, q, f
  <2>2. CtxSynSent(e)
    BY <1>1, <1>6 DEF CtxSynSent
  <2>3. CtxListen(a, p, e)
    BY <1>1, <1>6, <1>13 DEF CtxOK, CtxListen, i
  <2>4. CtxEstablished(a, p, e)
    <3> SUFFICES ASSUME e.st = "ESTABLISHED" PROVE CtxEstablished(a, p, e)
      BY DEF CtxEstablished
    <3>1. CtxEstablished(a, p, c) /\ c.st = "ESTABLISHED"
      BY <1>1, <1>6 DEF CtxOK
    <3>2. c.ackable = 0
      BY <1>1, <1>4, <3>1 DEF CtxEstablished, i
    <3>3. Base(a, p, e) = Base(a, p, c)
      BY <1>13 DEF Base, i
    <3> QED BY <1>6, <3>1, <3>2, <3>3 DEF CtxEstablished
  <2>5. CtxClosing(a, p, e)
    BY <1>1, <1>6, <1>8 DEF CtxOK, CtxClosing, i
  <2>6. (OpenC(e) => e.first = First(p)) /\ (e.st # "ESTABLISHED" => e.ackable = 0)
    BY <1>1, <1>6 DEF CtxOK, OpenC
  <2> QED BY <1>1, <1>6, <2>1, <2>2, <2>3, <2>4, <2>5, <2>6 DEF CtxOK
<1>15. Sending(d) => e.recv <= HighSent(d)
  <2> SUFFICES ASSUME Sending(d) PROVE e.recv <= HighSent(d)
    OBVIOUS
  <2>1. s.seq + s.len + Fin(s.flags) <= HighSent(d)
    BY <1>1
  <2>2. Fin(s.flags) \in {0, 1}
    BY DEF Fin
  <2>3. HighSent(d) \in Int
    <3>1. d.st # "GONE" /\ q \in Peers
      BY <1>1 DEF Sending, OpenC
    <3>2. CtxOK(a, q, d)
      BY <3>1 DEF ConnInv, d
    <3>3. d.next \in Int /\ d.ackable \in Int
      BY <3>1, <3>2, ContextIs
    <3> QED BY <3>3 DEF HighSent
  <2> QED BY <1>1, <1>4, <1>5, <2>1, <2>2, <2>3
<1> QED BY <1>14, <1>15, GrownChange DEF d, q

\* A SYN that comes again.
LEMMA SynReceived ==
  ASSUME NEW a, NEW x, NEW n, ConnInv(a, x, n), NEW p \in Peers, n[p] # <<>>, "SYN" \in Head(n[p]).flags, Known(x[p])
  PROVE  /\ x[p].recv = Head(n[p]).seq + 1 /\ x[p].ofirst = Head(n[p]).seq + 1
         /\ "FIN" \notin Head(n[p]).flags /\ x[p].st # "CLOSED"
<1> DEFINE q == Other(p)  s == Head(n[p])  c == x[p]
<1>1. q \in Peers /\ n[p] \in Seq(Segment_(a, q)) /\ CtxOK(a, p, c) /\ "SYN" \in c.flags
  BY TwoPeers DEF ConnInv, Known
<1>2. s \in Segs(n[p])
  BY <1>1, SegsTail
<1>3. SegSyn(q, s)
  BY <1>2, SegmentIs DEF SegPlain, Plain
<1>4. Has(n[p], "SYN")
  BY <1>2 DEF Has
<1>5. c.ofirst = First(q) /\ c.st # "CLOSED"
  BY <1>1 DEF CtxOK, CtxKnown
<1>6. CASE p = "client"
  <2>1. q = "server"
    BY <1>6 DEF Other
  <2>2. s.seq = 200 /\ "FIN" \notin s.flags /\ First(q) = 201
    BY <1>3, <2>1 DEF SegSyn, First
  <2>3. c.recv = 201
    BY <1>4, <1>6 DEF ConnInv, SynAgain, Nothing
  <2> QED BY <1>5, <2>2, <2>3
<1>7. CASE p = "server"
  <2>1. q = "client"
    BY <1>7 DEF Other
  <2>2. s.seq = 99 /\ "FIN" \notin s.flags /\ First(q) = 100
    BY <1>3, <2>1 DEF SegSyn, First
  <2>3. c.recv = 100
    <3>1. Early(x, n) /\ c.st # "GONE"
      BY <1>4, <1>7 DEF Early, Known
    <3> QED BY <1>7, <3>1 DEF ConnInv, EarlyOK, ServerEarly
  <2> QED BY <1>5, <2>2, <2>3
<1> QED BY <1>6, <1>7 DEF Peers

\* The context after a packet, apart from what the packet itself brought.
LEMMA InIs ==
  ASSUME NEW a, NEW p, NEW c, NEW s, s.flags \in SUBSET {"SYN", "ACK", "FIN", "RST"},
         NEW r \in CtxType(a, p), r = SegmentReceived(Acked(c, s), s)
  PROVE  LET e == tcp_in(c, s) IN
         /\ e \in CtxType(a, p) /\ e.st = r.st /\ e.act = r.act /\ e.next = r.next /\ e.ackd = r.ackd /\ e.recv = r.recv
         /\ e.ackable = r.ackable /\ e.first = r.first /\ e.ofirst = r.ofirst
         /\ "SYN" \in e.flags <=> "SYN" \in r.flags \/ "SYN" \in s.flags
         /\ "FIN" \in e.flags <=> "FIN" \in r.flags \/ "FIN" \in s.flags
<1> DEFINE e == tcp_in(c, s)
           progress == r.ackd # c.ackd \/ r.recv # c.recv \/ "SYN" \in s.flags
           k == IF progress THEN 0 ELSE r.same
           g == (IF progress THEN r.flags \cup {"PROGRESS"} ELSE r.flags \ {"PROGRESS"}) \cup (s.flags \cap {"SYN", "FIN"})
<1>1. e = [r EXCEPT !.same = k, !.flags = g]
  BY DEF tcp_in
<1>2. k \in Nat
  BY DEF CtxType
<1>3. r.flags \in SUBSET CtxFlags
  BY DEF CtxType
<1>4. /\ g \in SUBSET CtxFlags
      /\ "SYN" \in g <=> "SYN" \in r.flags \/ "SYN" \in s.flags
      /\ "FIN" \in g <=> "FIN" \in r.flags \/ "FIN" \in s.flags
  BY <1>3 DEF CtxFlags
<1> HIDE DEF e, k, g, progress
<1>5. e \in CtxType(a, p) /\ e.st = r.st /\ e.act = r.act /\ e.next = r.next /\ e.ackd = r.ackd /\ e.recv = r.recv
      /\ e.ackable = r.ackable /\ e.first = r.first /\ e.ofirst = r.ofirst /\ e.flags = g
  <2> DEFINE A == 1 .. Len(a)  S == States(p)  F == SUBSET CtxFlags
  <2>1. r \in [st : S, act : A, next : Int, ackd : Int, recv : Int, ackable : Int,
               first : Int, ofirst : Int, same : Nat, flags : F] /\ g \in F
    BY <1>4 DEF CtxType
  <2> HIDE DEF A, S, F
  <2>2. e \in [st : S, act : A, next : Int, ackd : Int, recv : Int, ackable : Int,
               first : Int, ofirst : Int, same : Nat, flags : F]
    BY ONLY <1>1, <1>2, <2>1
  <2>3. e.st = r.st /\ e.act = r.act /\ e.next = r.next /\ e.ackd = r.ackd /\ e.recv = r.recv
        /\ e.ackable = r.ackable /\ e.first = r.first /\ e.ofirst = r.ofirst /\ e.flags = g
    BY ONLY <1>1, <2>1
  <2> QED BY <2>2, <2>3 DEF A, S, F, CtxType
<1> QED BY <1>4, <1>5 DEF e

\* What a packet brings.
LEMMA ReceivedIs ==
  ASSUME NEW p, NEW b \in CtxType(Actions, p), NEW s, s.seq \in Int, s.len \in Nat,
         s.len > 0 /\ b.recv = s.seq /\ "SYN" \notin s.flags => b.act + 1 \in 1 .. Len(Actions)
  PROVE  LET r == SegmentReceived(b, s) IN
         /\ r \in CtxType(Actions, p) /\ r.st = b.st /\ r.next = b.next /\ r.ackd = b.ackd
         /\ r.ackable = b.ackable /\ r.first = b.first
         /\ "SYN" \in r.flags <=> "SYN" \in b.flags
         /\ "FIN" \in r.flags <=> "FIN" \in b.flags
         /\ \/ "SYN" \in s.flags /\ r.recv = s.seq + 1 /\ r.ofirst = s.seq + 1 /\ r.act = b.act
            \/ "SYN" \notin s.flags /\ b.recv # s.seq /\ r = b
            \/ /\ "SYN" \notin s.flags /\ b.recv = s.seq /\ "FIN" \in s.flags
               /\ r.recv = s.seq + 1 /\ r.ofirst = b.ofirst /\ r.act = b.act
            \/ "SYN" \notin s.flags /\ b.recv = s.seq /\ "FIN" \notin s.flags /\ r = b
            \/ /\ "SYN" \notin s.flags /\ b.recv = s.seq /\ "FIN" \notin s.flags /\ Expected(b, s)
               /\ r.recv = b.recv + s.len /\ r.ofirst = b.ofirst
               /\ r.act = IF r.recv - b.ofirst = Act(b).beg + Act(b).len THEN b.act + 1 ELSE b.act
<1> DEFINE r == SegmentReceived(b, s)
           A == 1 .. Len(Actions)  S == States(p)  F == SUBSET CtxFlags
           T == [st : S, act : A, next : Int, ackd : Int, recv : Int, ackable : Int,
                 first : Int, ofirst : Int, same : Nat, flags : F]
           v == s.seq + 1
<1>0. T = CtxType(Actions, p)
  BY DEF CtxType
<1>1. b \in T /\ v \in Int
  BY DEF CtxType
<1>2. CASE "SYN" \in s.flags
  <2>1. r = [b EXCEPT !.recv = v, !.ofirst = v]
    BY <1>2 DEF SegmentReceived
  <2> HIDE DEF r, A, S, F, v
  <2>2. /\ r \in T /\ r.st = b.st /\ r.next = b.next /\ r.ackd = b.ackd /\ r.ackable = b.ackable /\ r.first = b.first
        /\ r.flags = b.flags /\ r.recv = v /\ r.ofirst = v /\ r.act = b.act
    BY ONLY <1>1, <2>1
  <2>3. r \in CtxType(Actions, p)
    BY <1>0, <2>2
  <2> QED BY <1>2, <2>2, <2>3 DEF r, v
<1>3. CASE "SYN" \notin s.flags /\ b.recv # s.seq
  <2>1. r = b
    BY <1>3 DEF SegmentReceived
  <2> QED BY <1>3, <2>1
<1>4. CASE "SYN" \notin s.flags /\ b.recv = s.seq /\ "FIN" \in s.flags
  <2>1. r = [b EXCEPT !.recv = v]
    BY <1>4 DEF SegmentReceived
  <2> HIDE DEF r, A, S, F, v
  <2>2. /\ r \in T /\ r.st = b.st /\ r.next = b.next /\ r.ackd = b.ackd /\ r.ackable = b.ackable /\ r.first = b.first
        /\ r.flags = b.flags /\ r.recv = v /\ r.ofirst = b.ofirst /\ r.act = b.act
    BY ONLY <1>1, <2>1
  <2>3. r \in CtxType(Actions, p)
    BY <1>0, <2>2
  <2> QED BY <1>4, <2>2, <2>3 DEF r, v
<1>5. CASE "SYN" \notin s.flags /\ b.recv = s.seq /\ "FIN" \notin s.flags /\ ~ Expected(b, s)
  <2>1. r = b
    BY <1>5 DEF SegmentReceived
  <2> QED BY <1>5, <2>1
<1>6. CASE "SYN" \notin s.flags /\ b.recv = s.seq /\ "FIN" \notin s.flags /\ Expected(b, s)
  <2> DEFINE u == b.recv + s.len
             k == IF b.recv - b.ofirst + s.len = Act(b).beg + Act(b).len THEN b.act + 1 ELSE b.act
             g == b.flags \cup {"NEW_DATA"}
  <2>0. b.recv \in Int /\ b.ofirst \in Int /\ b.act \in A /\ b.flags \in F
    BY <1>1
  <2>1. r = [b EXCEPT !.recv = u, !.flags = g, !.act = k]
    BY <1>6 DEF SegmentReceived, Consumed
  <2>2. u \in Int /\ k \in A /\ g \in F
    <3>1. s.len > 0
      BY <1>6 DEF Expected
    <3>2. k \in A
      BY <1>6, <2>0, <3>1
    <3> QED BY <2>0, <3>2 DEF CtxFlags
  <2>3. k = IF u - b.ofirst = Act(b).beg + Act(b).len THEN b.act + 1 ELSE b.act
    <3>1. b.recv - b.ofirst + s.len = u - b.ofirst
      BY <2>0
    <3> QED BY <3>1
  <2>4. ("SYN" \in g <=> "SYN" \in b.flags) /\ ("FIN" \in g <=> "FIN" \in b.flags)
    OBVIOUS
  <2> HIDE DEF r, A, S, F, u, k, g
  <2>5. /\ r \in T /\ r.st = b.st /\ r.next = b.next /\ r.ackd = b.ackd /\ r.ackable = b.ackable /\ r.first = b.first
        /\ r.flags = g /\ r.recv = u /\ r.ofirst = b.ofirst /\ r.act = k
    BY ONLY <1>1, <2>1, <2>2
  <2>6. r \in CtxType(Actions, p)
    BY <1>0, <2>5
  <2>7. r.act = IF r.recv - b.ofirst = Act(b).beg + Act(b).len THEN b.act + 1 ELSE b.act
    BY <2>3, <2>5
  <2> QED BY <1>6, <2>4, <2>5, <2>6, <2>7 DEF r, u
<1> QED BY <1>2, <1>3, <1>4, <1>5, <1>6

\* The last change of a context counts.
LEMMA PutTwice ==
  ASSUME NEW x, NEW p \in Peers, NEW b, NEW e
  PROVE  Put(Put(x, p, b), p, e) = Put(x, p, e)
  BY DEF Put

\* The whole of stream_tcp_proc_in, for a peer that knows the other's numbers.
LEMMA KnownIn ==
  ASSUME PlayedList(Actions), NEW x, NEW n, ConnInv(Actions, x, n), NEW p \in Peers, n[p] # <<>>,
         "RST" \notin Head(n[p]).flags, Known(x[p])
  PROVE  LET s == Head(n[p])  e == tcp_in(x[p], s) IN
         /\ ConnInv(Actions, Put(x, p, e), n) /\ e.st = x[p].st
         /\ "FIN" \in e.flags => "FIN" \in x[p].flags \/ "FIN" \in s.flags
<1> DEFINE a == Actions
           q == Other(p)  s == Head(n[p])  c == x[p]
           b == Acked(c, s)
           y == Put(x, p, b)
           r == SegmentReceived(b, s)
           e == tcp_in(c, s)
<1>1. q \in Peers /\ Other(q) = p /\ n[p] \in Seq(Segment_(a, q)) /\ CtxOK(a, p, c) /\ "SYN" \in c.flags /\ c.st # "GONE"
      /\ c \in CtxType(a, p)
  BY TwoPeers DEF ConnInv, Known, CtxOK
<1>2. s \in Segs(n[p])
  BY <1>1, SegsTail
<1>3. /\ s.seq \in Int /\ s.ack \in Int /\ s.pos \in Int /\ s.len \in Nat /\ s.from = q
      /\ s.flags \in SUBSET {"SYN", "ACK", "FIN", "RST"} /\ (SegSyn(q, s) \/ SegPlain(a, q, s))
  BY <1>2, SegmentIs
<1>c. c.st # "CLOSED"
  BY <1>1 DEF CtxOK
<1>4. /\ ConnInv(a, y, n) /\ Known(b) /\ b.st = c.st /\ ("ACK" \in s.flags => s.ack <= b.ackd)
      /\ ("FIN" \in b.flags <=> "FIN" \in c.flags)
  <2>1. CASE "ACK" \in s.flags
    BY <2>1, AckedChange
  <2>2. CASE "ACK" \notin s.flags
    <3>1. b = c
      BY <2>2 DEF Acked
    <3>2. Alike(c, c)
      BY <1>1 DEF Alike, Calm
    <3>3. ConnInv(a, Put(x, p, c), n)
      BY <1>1, <1>c, <3>2, AlikeChange
    <3> QED BY <2>2, <3>1, <3>3
  <2> QED BY <2>1, <2>2
<1>5. y[p] = b
  <2> HIDE DEF b
  <2> QED BY DEF Put
<1>6. CtxOK(a, p, b) /\ b \in CtxType(a, p) /\ b.st # "CLOSED" /\ b.st # "GONE" /\ "SYN" \in b.flags
  <2>1. b.st # "GONE" /\ "SYN" \in b.flags
    BY <1>4 DEF Known
  <2>2. CtxOK(a, p, b)
    BY <1>4, <1>5, <2>1 DEF ConnInv
  <2> QED BY <2>1, <2>2 DEF CtxOK
<1>7. SegPlain(a, q, s) <=> "SYN" \notin s.flags
  BY <1>3 DEF SegPlain, SegSyn, Plain
<1> HIDE DEF y, b, a
<1>8. s.len > 0 /\ b.recv = s.seq /\ "SYN" \notin s.flags => b.act + 1 \in 1 .. Len(a)
  <2> SUFFICES ASSUME s.len > 0, b.recv = s.seq, "SYN" \notin s.flags PROVE b.act + 1 \in 1 .. Len(a)
    OBVIOUS
  <2>1. Plain(s)
    BY <1>7 DEF SegPlain
  <2>2. b.act \in 1 .. Len(a) - 1
    BY <1>4, <1>5, <2>1, NotLast DEF a
  <2>3. Len(a) \in Nat
    BY BeforeIs DEF a
  <2> QED BY <2>2, <2>3
<1>9. /\ r \in CtxType(a, p) /\ r.st = b.st /\ r.next = b.next /\ r.ackd = b.ackd
      /\ r.ackable = b.ackable /\ r.first = b.first
      /\ ("SYN" \in r.flags <=> "SYN" \in b.flags)
      /\ ("FIN" \in r.flags <=> "FIN" \in b.flags)
      /\ \/ "SYN" \in s.flags /\ r.recv = s.seq + 1 /\ r.ofirst = s.seq + 1 /\ r.act = b.act
         \/ "SYN" \notin s.flags /\ b.recv # s.seq /\ r = b
         \/ /\ "SYN" \notin s.flags /\ b.recv = s.seq /\ "FIN" \in s.flags
            /\ r.recv = s.seq + 1 /\ r.ofirst = b.ofirst /\ r.act = b.act
         \/ "SYN" \notin s.flags /\ b.recv = s.seq /\ "FIN" \notin s.flags /\ r = b
         \/ /\ "SYN" \notin s.flags /\ b.recv = s.seq /\ "FIN" \notin s.flags /\ Expected(b, s)
            /\ r.recv = b.recv + s.len /\ r.ofirst = b.ofirst
            /\ r.act = IF r.recv - b.ofirst = Act(b).beg + Act(b).len THEN b.act + 1 ELSE b.act
  <2> HIDE DEF s
  <2> QED BY <1>3, <1>6, <1>8, ReceivedIs DEF a
<1>10. /\ e \in CtxType(a, p) /\ e.st = r.st /\ e.act = r.act /\ e.next = r.next /\ e.ackd = r.ackd /\ e.recv = r.recv
       /\ e.ackable = r.ackable /\ e.first = r.first /\ e.ofirst = r.ofirst
       /\ ("SYN" \in e.flags <=> "SYN" \in r.flags \/ "SYN" \in s.flags)
       /\ ("FIN" \in e.flags <=> "FIN" \in r.flags \/ "FIN" \in s.flags)
  BY <1>3, <1>9, InIs DEF b
<1> HIDE DEF s, c, e, r
<1>11. ConnInv(a, Put(y, p, e), n)
  <2>1. CASE "SYN" \in s.flags
    <3>1. r.recv = s.seq + 1 /\ r.ofirst = s.seq + 1 /\ r.act = b.act
      BY <1>9, <2>1
    <3>2. b.recv = s.seq + 1 /\ b.ofirst = s.seq + 1 /\ "FIN" \notin s.flags
      BY <1>4, <1>5, <2>1, SynReceived DEF s
    <3>3. Alike(b, e)
      BY <1>6, <1>9, <1>10, <3>1, <3>2 DEF Alike, Calm
    <3> QED BY <1>4, <1>5, <1>6, <1>10, <3>3, AlikeChange
  <2>2. CASE "SYN" \notin s.flags /\ r = b /\ ("FIN" \in s.flags => b.recv # s.seq)
    <3>1. Plain(s)
      BY <1>7, <2>2 DEF SegPlain
    <3>2. "FIN" \in s.flags => "FIN" \in b.flags
      BY <1>4, <1>5, <2>2, <3>1, FinSeen DEF s, a
    <3>3. Alike(b, e)
      BY <1>6, <1>10, <2>2, <3>2 DEF Alike, Calm
    <3> QED BY <1>4, <1>5, <1>6, <1>10, <3>3, AlikeChange
  <2>3. CASE /\ "SYN" \notin s.flags /\ b.recv = s.seq /\ "FIN" \in s.flags
             /\ r.recv = s.seq + 1 /\ r.ofirst = b.ofirst /\ r.act = b.act
    <3>1. Plain(s)
      BY <1>7, <2>3 DEF SegPlain
    <3>2. e.act = b.act /\ e.recv = b.recv + 1 /\ e.first = b.first /\ e.ofirst = b.ofirst /\ "FIN" \in e.flags
      BY <1>9, <1>10, <2>3
    <3>3. Grown(b, e)
      <4>1. b.recv \in Int
        BY <1>6 DEF CtxType
      <4>2. e.recv >= b.recv
        BY <3>2, <4>1
      <4> QED BY <1>6, <1>9, <1>10, <4>2 DEF Grown
    <3>4. s.ack <= b.ackd
      BY <1>4, <3>1 DEF Plain
    <3> QED BY <1>4, <1>5, <1>10, <2>3, <3>1, <3>2, <3>3, <3>4, FinReceived DEF s, a
  <2>4. CASE /\ "SYN" \notin s.flags /\ b.recv = s.seq /\ "FIN" \notin s.flags /\ Expected(b, s)
             /\ r.recv = b.recv + s.len /\ r.ofirst = b.ofirst
             /\ r.act = IF r.recv - b.ofirst = Act(b).beg + Act(b).len THEN b.act + 1 ELSE b.act
    <3>1. Plain(s)
      BY <1>7, <2>4 DEF SegPlain
    <3>2. /\ e.recv = b.recv + s.len /\ e.first = b.first /\ e.ofirst = b.ofirst /\ ("FIN" \in e.flags <=> "FIN" \in b.flags)
          /\ e.act = IF e.recv - b.ofirst = a[b.act].beg + a[b.act].len THEN b.act + 1 ELSE b.act
      BY <1>9, <1>10, <2>4 DEF Act, a
    <3>3. Grown(b, e)
      <4>1. b.recv \in Int
        BY <1>6 DEF CtxType
      <4>2. e.recv >= b.recv
        BY <1>3, <3>2, <4>1
      <4> QED BY <1>6, <1>9, <1>10, <4>2 DEF Grown
    <3>4. s.len > 0 /\ a[b.act].peer = s.from /\ s.len <= a[b.act].beg + a[b.act].len - (b.recv - b.ofirst)
      BY <2>4 DEF Expected, Act, a
    <3> QED BY <1>4, <1>5, <1>10, <2>4, <3>1, <3>2, <3>3, <3>4, DataReceived DEF s, a
  <2> QED BY <1>9, <2>1, <2>2, <2>3, <2>4
<1>12. Put(y, p, e) = Put(x, p, e)
  BY PutTwice DEF y
<1> QED BY <1>4, <1>9, <1>10, <1>11, <1>12 DEF a, e, s, c

\* Nothing before the first sequence number counts as sent.
LEMMA HighFirst ==
  ASSUME NEW a, PlayedList(a), NEW p \in Peers, NEW c, CtxOK(a, p, c), Sending(c)
  PROVE  HighSent(c) \in Int /\ HighSent(c) >= First(p)
<1>1. /\ c.act \in 1 .. Len(a) /\ c.next \in Int /\ c.ackable \in Int /\ c.st \in States(p) /\ a[c.act].len \in Nat
      /\ Before(a, p)[c.act] \in Nat /\ First(p) \in Nat /\ Total(a, p) \in Nat /\ Base(a, p, c) \in Int
  BY ContextIs
<1>2. c.st = "SYN_SENT" \/ c.st = "SYN_RECEIVED" \/ c.st = "ESTABLISHED" \/ c.st \in Closing
  BY <1>1 DEF Sending, OpenC, States, Closing
<1>3. Base(a, p, c) >= First(p)
  BY <1>1 DEF Base
<1>4. CASE c.st = "SYN_SENT"
  <2>1. p = "client"
    BY <1>1, <1>4 DEF States
  <2> QED BY <1>4, <2>1 DEF CtxOK, CtxSynSent, HighSent, First
<1>5. CASE c.st = "SYN_RECEIVED"
  <2>1. c.next = 201 /\ c.ackable = 0
    BY <1>5 DEF CtxOK, CtxListen
  <2> QED BY <2>1 DEF HighSent, First
<1>6. CASE c.st = "ESTABLISHED"
  <2>1. CtxEstablished(a, p, c)
    BY DEF CtxOK
  <2>2. CASE c.ackable = 0
    BY <1>1, <1>3, <1>6, <2>1, <2>2 DEF CtxEstablished, HighSent
  <2>3. CASE c.ackable # 0
    <3>1. c.ackable = Base(a, p, c) + a[c.act].len
      BY <1>6, <2>1, <2>3 DEF CtxEstablished
    <3> QED BY <1>1, <1>3, <2>3, <3>1 DEF HighSent
  <2> QED BY <2>2, <2>3
<1>7. CASE c.st \in Closing
  <2>1. c.next = First(p) + Total(a, p) + 1 /\ c.ackable = 0
    BY <1>7 DEF CtxOK, CtxClosing, Closing
  <2> QED BY <1>1, <2>1 DEF HighSent
<1> QED BY <1>2, <1>4, <1>5, <1>6, <1>7

\* Nothing was received yet but the SYN.
LEMMA PlayedStart ==
  ASSUME NEW a, PlayedList(a), NEW p \in Peers, NEW e, e.act = 1, "FIN" \notin e.flags, e.recv = First(Other(p))
  PROVE  Played(a, p, e) /\ 1 \in 1 .. Len(a) /\ Before(a, p)[1] = 0
<1>1. Len(a) \in Nat \ {0} /\ a[1].len \in Nat /\ Other(p) \in Peers
  BY BeforeIs, TwoPeers
<1>2. Before(a, Other(p))[1] = 0 /\ Before(a, p)[1] = 0
  BY <1>1, BytesOf
<1>3. 1 # Len(a) => a[1].len > 0
  <2>1. 1 # Len(a) => 1 \in 1 .. Len(a) - 1
    <3> DEFINE k == Len(a)
    <3>1. k \in Nat \ {0}
      BY <1>1
    <3> HIDE DEF k
    <3>2. 1 # k => 1 \in 1 .. k - 1
      BY <3>1
    <3> QED BY <3>2 DEF k
  <2> QED BY <1>1, <2>1, BytesOf
<1>4. First(Other(p)) - First(Other(p)) = 0
  BY DEF First
<1>5. Fin(e.flags) = 0
  BY DEF Fin
<1> QED BY <1>1, <1>2, <1>3, <1>4, <1>5 DEF Played

\* stream_ctx_init gives a right context.
LEMMA InitIs ==
  ASSUME NEW a, PlayedList(a), NEW p \in Peers
  PROVE  /\ InitCtx(p) \in CtxType(a, p) /\ CtxOK(a, p, InitCtx(p)) /\ InitCtx(p).flags = {} /\ InitCtx(p).recv = 0
         /\ InitCtx(p).act = 1 /\ InitCtx(p).ackable = 0 /\ InitCtx(p).st = IF p = "client" THEN "CLOSED" ELSE "LISTEN"
<1> DEFINE c == InitCtx(p)
           A == 1 .. Len(a)  S == States(p)  F == SUBSET CtxFlags
           t == IF p = "client" THEN "CLOSED" ELSE "LISTEN"
<1>1. 1 \in A /\ t \in S /\ {} \in F /\ Before(a, p)[1] = 0
  <2>1. Len(a) \in Nat \ {0}
    BY BeforeIs
  <2> QED BY <2>1, BytesOf DEF States
<1>2. c = [st |-> t, act |-> 1, next |-> 0, ackd |-> 0, recv |-> 0, ackable |-> 0, first |-> 0, ofirst |-> 0,
           same |-> 0, flags |-> {}]
  BY DEF InitCtx
<1>3. t \in {"CLOSED", "LISTEN"}
  OBVIOUS
<1> HIDE DEF c, A, S, F
<1>4. c \in [st : S, act : A, next : Int, ackd : Int, recv : Int, ackable : Int,
             first : Int, ofirst : Int, same : Nat, flags : F]
  BY ONLY <1>1, <1>2
<1>5. c.st = t /\ c.act = 1 /\ c.flags = {} /\ c.recv = 0 /\ c.ackable = 0
  BY <1>2
<1>6. c \in CtxType(a, p)
  BY <1>4 DEF CtxType, A, S, F
<1> HIDE DEF t
<1>7. CtxOK(a, p, c)
  BY <1>1, <1>3, <1>5, <1>6 DEF CtxOK, CtxKnown, OpenC, CtxSynSent, CtxListen, CtxEstablished, CtxClosing, Closing
<1> QED BY <1>5, <1>6, <1>7 DEF c, t

\* A SYN opens the connection at the server.
LEMMA SynOpens ==
  ASSUME PlayedList(Actions), NEW x, NEW n, ConnInv(Actions, x, n), n["server"] # <<>>,
         "SYN" \in Head(n["server"]).flags, x["server"].st = "GONE"
  PROVE  LET s == Head(n["server"])  e == tcp_in(InitCtx("server"), s) IN
         ConnInv(Actions, Put(x, "server", e), n) /\ e.st = "LISTEN" /\ "FIN" \notin e.flags
<1> DEFINE a == Actions  p == "server"
           s == Head(n[p])  c == InitCtx(p)  r == SegmentReceived(Acked(c, s), s)  e == tcp_in(c, s)
           d == x["client"]
           y == Put(x, p, e)
<1>1. p \in Peers /\ "client" \in Peers /\ Other(p) = "client" /\ Other("client") = p /\ n[p] \in Seq(Segment_(a, "client"))
  <2>1. p \in Peers /\ "client" \in Peers /\ Other(p) = "client" /\ Other("client") = p
    BY DEF Peers, Other
  <2> QED BY <2>1 DEF ConnInv
<1>2. s \in Segs(n[p])
  BY <1>1, SegsTail
<1>3. /\ s.seq \in Int /\ s.len \in Nat /\ s.flags \in SUBSET {"SYN", "ACK", "FIN", "RST"} /\ SegSyn("client", s)
  BY <1>1, <1>2, SegmentIs DEF SegPlain, Plain
<1>4. "ACK" \notin s.flags /\ "FIN" \notin s.flags /\ s.seq = 99 /\ s.len = 0
  BY <1>3 DEF SegSyn
<1>5. c \in CtxType(a, p) /\ c.flags = {} /\ c.act = 1 /\ c.ackable = 0 /\ c.st = "LISTEN"
  BY <1>1, InitIs
<1>6. Acked(c, s) = c
  BY <1>4 DEF Acked
<1> HIDE DEF s, c
<1>7. /\ r \in CtxType(a, p) /\ r.st = "LISTEN" /\ r.ackable = 0 /\ r.recv = 100 /\ r.ofirst = 100 /\ r.act = 1
      /\ "SYN" \notin r.flags /\ "FIN" \notin r.flags /\ r.ackd = c.ackd
  <2>1. "SYN" \in s.flags
    BY DEF s
  <2> QED BY <1>3, <1>4, <1>5, <1>6, <2>1, ReceivedIs
<1>8. /\ e \in CtxType(a, p) /\ e.st = "LISTEN" /\ e.ackable = 0 /\ e.recv = 100 /\ e.ofirst = 100 /\ e.act = 1
      /\ "SYN" \in e.flags /\ "FIN" \notin e.flags /\ e.ackd = c.ackd
  <2>1. "SYN" \in s.flags
    BY DEF s
  <2> HIDE DEF r, e
  <2>2. r = SegmentReceived(Acked(c, s), s) /\ e = tcp_in(c, s)
    BY DEF r, e
  <2> QED BY <1>3, <1>4, <1>7, <2>1, <2>2, InIs
<1>9. e.ackd = 0
  BY <1>8 DEF c, InitCtx
<1> HIDE DEF e, r
<1>10. Known(e) /\ ~ OpenC(e) /\ ~ Sending(e)
  BY <1>8 DEF Known, OpenC, Sending
<1>11. First("client") = 100 /\ Has(n[p], "SYN")
  BY <1>2 DEF First, Has, s
<1>12. EarlyOK(x, n) /\ FreshOK(x, n) /\ SynAgain(x, n) /\ ClosedOK(x, n) /\ Early(x, n) /\ Fresh(x, n)
  BY <1>11 DEF ConnInv, Early, Fresh
<1>13. CtxOK(a, p, e)
  <2>1. Played(a, p, e) /\ Before(a, p)[1] = 0
    BY <1>1, <1>8, <1>11, PlayedStart
  <2>2. CtxKnown(a, p, e)
    BY <1>1, <1>8, <1>11, <2>1 DEF CtxKnown
  <2> QED BY <1>8, <1>10, <2>1, <2>2 DEF CtxOK, CtxSynSent, CtxListen, CtxEstablished, CtxClosing, Closing
<1>14. (d.st # "GONE" => CtxOK(a, "client", d)) /\ n["client"] \in Seq(Segment_(a, p))
  BY <1>1 DEF ConnInv
<1>15. AckedGot(d, e)
  BY <1>8, <1>12 DEF EarlyOK, AckedGot
<1>16. AcksGot(n["client"], e)
  BY <1>8, <1>12 DEF EarlyOK, AcksGot
<1>17. GotSent(d, e)
  <2> SUFFICES ASSUME Sending(d) PROVE e.recv <= HighSent(d)
    BY DEF GotSent
  <2>1. d.st # "GONE"
    BY DEF Sending, OpenC
  <2> QED BY <1>1, <1>8, <1>11, <1>14, <2>1, HighFirst
<1>18. FinGot(a, "client", e, n[p])
  <2> SUFFICES ASSUME NEW t \in Segs(n[p]), "FIN" \in t.flags PROVE e.recv >= First("client") + Total(a, "client")
    BY DEF FinGot, Has
  <2>1. t.pos = 0
    BY <1>12 DEF EarlyOK
  <2>2. SegPlain(a, "client", t)
    BY <1>1, SegmentIs DEF SegSyn
  <2>3. Total(a, "client") = 0
    BY <2>1, <2>2 DEF SegPlain
  <2> QED BY <1>8, <1>11, <2>3
<1>19. y["server"] = e /\ y["client"] = d
  BY <1>1 DEF Put
<1>20. EarlyOK(y, n) /\ FreshOK(y, n) /\ SynAgain(y, n) /\ ClosedOK(y, n)
  <2>1. ServerEarly(e)
    BY <1>8, <1>9, <1>10 DEF ServerEarly
  <2>2. EarlyOK(y, n)
    BY <1>12, <1>19, <2>1 DEF EarlyOK
  <2>3. FreshOK(y, n)
    BY <1>12, <1>19 DEF FreshOK
  <2>4. SynAgain(y, n)
    BY <1>12, <1>19 DEF SynAgain
  <2>5. ClosedOK(y, n)
    BY <1>12, <1>19 DEF ClosedOK
  <2> QED BY <2>2, <2>3, <2>4, <2>5
<1>21. ChangeOK(a, x, n, p, e)
  BY <1>1, <1>10, <1>13, <1>15, <1>16, <1>17, <1>18, <1>20
     DEF ChangeOK, AckedGot, GotSent, AcksSent, DataSent
<1>22. ConnInv(a, Put(x, p, e), n)
  BY <1>1, <1>21, ContextChanges
<1> QED BY <1>8, <1>22 DEF e, s, c

\* Any other segment leaves a server without numbers as it was: it will answer with a RST.
LEMMA StrayArrives ==
  ASSUME PlayedList(Actions), NEW x, NEW n, ConnInv(Actions, x, n), n["server"] # <<>>,
         "SYN" \notin Head(n["server"]).flags, "RST" \notin Head(n["server"]).flags, ~ Known(x["server"])
  PROVE  LET s == Head(n["server"])
             c == IF x["server"].st # "GONE" THEN x["server"] ELSE InitCtx("server")
             e == tcp_in(c, s) IN
         /\ ConnInv(Actions, Put(x, "server", e), n) /\ e.st = "LISTEN"
         /\ "FIN" \in e.flags => "FIN" \in c.flags \/ "FIN" \in s.flags
<1> DEFINE a == Actions  p == "server"
           s == Head(n[p])
           c == IF x[p].st # "GONE" THEN x[p] ELSE InitCtx(p)
           b == Acked(c, s)
           r == SegmentReceived(b, s)  e == tcp_in(c, s)
           y == Put(x, p, e)
<1>1. p \in Peers /\ "client" \in Peers /\ Other(p) = "client" /\ Other("client") = p /\ n[p] \in Seq(Segment_(a, "client"))
  <2>1. p \in Peers /\ "client" \in Peers /\ Other(p) = "client" /\ Other("client") = p
    BY DEF Peers, Other
  <2> QED BY <2>1 DEF ConnInv
<1>2. s \in Segs(n[p])
  BY <1>1, SegsTail
<1>3. /\ s.seq \in Int /\ s.ack \in Int /\ s.len \in Nat /\ s.flags \in SUBSET {"SYN", "ACK", "FIN", "RST"}
      /\ SegPlain(a, "client", s)
  BY <1>1, <1>2, SegmentIs DEF SegSyn
<1>4. "ACK" \in s.flags /\ Plain(s) /\ s.seq > 0 /\ s.ack > 0
  <2>1. s.pos >= 0 /\ s.pos \in Int
    BY <1>1, <1>2, <1>3, SegmentIs DEF SegPlain
  <2> QED BY <1>1, <1>3, <2>1 DEF SegPlain, Plain, First
<1>5. c \in CtxType(a, p) /\ "SYN" \notin c.flags /\ c.act = 1 /\ c.recv = 0 /\ c.ackable = 0 /\ c.st = "LISTEN"
  <2>1. CASE x[p].st = "GONE"
    BY <1>1, <2>1, InitIs
  <2>2. CASE x[p].st # "GONE"
    <3>1. CtxOK(a, p, x[p]) /\ c = x[p]
      BY <1>1, <2>2 DEF ConnInv
    <3>2. "SYN" \notin x[p].flags
      BY <2>2 DEF Known
    <3>3. ~ OpenC(x[p]) /\ x[p].st \in States(p)
      BY <3>1, <3>2 DEF CtxOK, CtxType
    <3>4. x[p].st = "LISTEN"
      BY <3>3 DEF OpenC, States
    <3> QED BY <3>1, <3>2, <3>4 DEF CtxOK, CtxKnown
  <2> QED BY <2>1, <2>2
<1>6. /\ b \in CtxType(a, p) /\ b.flags = c.flags /\ b.act = 1 /\ b.recv = 0 /\ b.ackable = 0 /\ b.st = "LISTEN"
  <2> HIDE DEF c, s
  <2>1. c.ackd \in Int
    BY <1>5 DEF CtxType
  <2>2. b = c \/ b = [c EXCEPT !.ackd = s.ack]
    <3>1. "ACK" \in s.flags /\ s.ack \in Int /\ c.ackd \in Int /\ c.ackable # s.ack
      BY <1>3, <1>4, <1>5, <2>1
    <3> QED BY ONLY <3>1, AckedIs
  <2> HIDE DEF b
  <2> QED BY <1>3, <1>5, <2>2 DEF CtxType
<1> HIDE DEF s, c, b
<1>7. "SYN" \notin s.flags
  BY DEF s
<1>8. r = b
  BY <1>4, <1>6, <1>7 DEF SegmentReceived
<1>9. /\ e \in CtxType(a, p) /\ e.st = "LISTEN" /\ e.act = 1 /\ e.recv = 0 /\ e.ackable = 0 /\ "SYN" \notin e.flags
      /\ ("FIN" \in e.flags => "FIN" \in c.flags \/ "FIN" \in s.flags)
  <2> HIDE DEF r, e
  <2>1. r = SegmentReceived(Acked(c, s), s) /\ e = tcp_in(c, s) /\ r \in CtxType(a, p)
    BY <1>6, <1>8 DEF r, e, b
  <2> QED BY <1>3, <1>5, <1>6, <1>7, <1>8, <2>1, InIs
<1> HIDE DEF e, r
<1>10. ~ Known(e) /\ ~ OpenC(e) /\ ~ Sending(e) /\ e.st # "GONE"
  BY <1>9 DEF Known, OpenC, Sending
<1>11. CtxOK(a, p, e)
  <2>1. Before(a, p)[1] = 0
    BY <1>1, BytesOf
  <2> QED BY <1>9, <1>10, <2>1 DEF CtxOK, CtxKnown, CtxSynSent, CtxListen, CtxEstablished, CtxClosing, Closing
<1>12. EarlyOK(x, n) /\ FreshOK(x, n) /\ SynAgain(x, n) /\ ClosedOK(x, n)
  BY DEF ConnInv
<1>13. ~ Early(x, n)
  BY <1>1, <1>4, HeadPlain DEF s
<1>14. y["server"] = e /\ y["client"] = x["client"]
  BY <1>1 DEF Put
<1>15. ~ Early(y, n) /\ ~ Fresh(y, n)
  BY <1>9, <1>10, <1>13, <1>14 DEF Early, Fresh
<1>16. EarlyOK(y, n) /\ FreshOK(y, n) /\ SynAgain(y, n) /\ ClosedOK(y, n)
  BY <1>12, <1>13, <1>14, <1>15 DEF EarlyOK, FreshOK, SynAgain, ClosedOK, Early
<1>17. ChangeOK(a, x, n, p, e)
  BY <1>1, <1>10, <1>11, <1>16 DEF ChangeOK, AckedGot, GotSent, AcksSent, DataSent, AcksGot, FinGot
<1>18. ConnInv(a, y, n)
  BY <1>1, <1>17, ContextChanges
<1> QED BY <1>9, <1>18 DEF e, s, c

\* The SYN/ACK tells the client the server's numbers.
LEMMA SynAckArrives ==
  ASSUME PlayedList(Actions), NEW x, NEW n, ConnInv(Actions, x, n), n["client"] # <<>>,
         "RST" \notin Head(n["client"]).flags, ~ Known(x["client"]), x["client"].st # "GONE"
  PROVE  LET s == Head(n["client"])  e == tcp_in(x["client"], s) IN
         ConnInv(Actions, Put(x, "client", e), n) /\ e.st = x["client"].st /\ "FIN" \notin e.flags
<1> DEFINE a == Actions  p == "client"
           s == Head(n[p])
           c == x[p]
           b == Acked(c, s)
           r == SegmentReceived(b, s)  e == tcp_in(c, s)
           y == Put(x, p, e)
           d == x["server"]
<1>1. p \in Peers /\ "server" \in Peers /\ Other(p) = "server" /\ Other("server") = p /\ n[p] \in Seq(Segment_(a, "server"))
  <2>1. p \in Peers /\ "server" \in Peers /\ Other(p) = "server" /\ Other("server") = p
    BY DEF Peers, Other
  <2> QED BY <2>1 DEF ConnInv
<1>2. s \in Segs(n[p])
  BY <1>1, SegsTail
<1>3. EarlyOK(x, n) /\ FreshOK(x, n) /\ SynAgain(x, n) /\ ClosedOK(x, n) /\ Pair(a, p, c, d, n[p], n["server"])
  BY <1>1 DEF ConnInv
<1>4. /\ CtxOK(a, p, c) /\ c \in CtxType(a, p) /\ "SYN" \notin c.flags /\ c.act = 1 /\ c.recv = 0 /\ c.ackable = 0 /\ c.st = "SYN_SENT"
      /\ c.next = 100 /\ c.first = 100 /\ c.ackd = 99 /\ "FIN" \notin c.flags
  <2>1. CtxOK(a, p, c)
    BY <1>1 DEF ConnInv
  <2>2. "SYN" \notin c.flags
    BY DEF Known
  <2>3. ~ OpenC(c) /\ c.st \in States(p) /\ c.st # "CLOSED"
    BY <1>3, <2>1, <2>2 DEF CtxOK, CtxType, ClosedOK
  <2>4. c.st = "SYN_SENT"
    BY <2>3 DEF OpenC, States
  <2> QED BY <2>1, <2>2, <2>4 DEF CtxOK, CtxKnown, CtxSynSent
<1>5. Early(x, n) /\ Fresh(x, n)
  BY <1>4 DEF Early, Fresh
<1>6. /\ s.seq = 200 /\ s.ack = 100 /\ s.len = 0 /\ s.flags \in SUBSET {"SYN", "ACK", "FIN", "RST"}
      /\ "SYN" \in s.flags /\ "ACK" \in s.flags /\ "FIN" \notin s.flags /\ s.seq \in Int /\ s.len \in Nat
  <2>1. ~ Plain(s)
    BY <1>2, <1>3, <1>5 DEF FreshOK
  <2>2. SegSyn("server", s) /\ s.flags \in SUBSET {"SYN", "ACK", "FIN", "RST"} /\ s.seq \in Int /\ s.len \in Nat
    BY <1>1, <1>2, <2>1, SegmentIs DEF SegPlain
  <2> QED BY <1>2, <1>3, <1>5, <2>2 DEF SegSyn, EarlyOK
<1>7. /\ b \in CtxType(a, p) /\ b.flags = c.flags /\ b.act = 1 /\ b.recv = 0 /\ b.ackable = 0 /\ b.st = "SYN_SENT"
      /\ b.ackd = 100 /\ b.next = 100 /\ b.first = 100
  <2>1. b = [c EXCEPT !.ackd = 100]
    <3> HIDE DEF s, c
    <3> QED BY <1>4, <1>6 DEF Acked, AllAcked
  <2> HIDE DEF b, c, s
  <2> QED BY <1>4, <2>1 DEF CtxType
<1> HIDE DEF s, c, b
<1>8. /\ r \in CtxType(a, p) /\ r.st = "SYN_SENT" /\ r.ackable = 0 /\ r.recv = 201 /\ r.ofirst = 201 /\ r.act = 1
      /\ "SYN" \notin r.flags /\ "FIN" \notin r.flags /\ r.ackd = 100 /\ r.next = 100 /\ r.first = 100
  BY <1>4, <1>6, <1>7, ReceivedIs
<1>9. /\ e \in CtxType(a, p) /\ e.st = "SYN_SENT" /\ e.ackable = 0 /\ e.recv = 201 /\ e.ofirst = 201 /\ e.act = 1
      /\ "SYN" \in e.flags /\ "FIN" \notin e.flags /\ e.ackd = 100 /\ e.next = 100 /\ e.first = 100
  <2> HIDE DEF r, e
  <2>1. r = SegmentReceived(Acked(c, s), s) /\ e = tcp_in(c, s)
    BY DEF r, e, b
  <2> QED BY <1>6, <1>8, <2>1, InIs
<1> HIDE DEF e, r
<1>10. Known(e) /\ ~ OpenC(e) /\ Sending(e) /\ HighSent(e) = 100 /\ HighSent(c) = 100 /\ Sending(c)
  BY <1>4, <1>9 DEF Known, OpenC, Sending, HighSent
<1>11. First("server") = 201
  BY DEF First
<1>12. CtxOK(a, p, e)
  <2>1. Played(a, p, e)
    BY <1>1, <1>9, <1>11, PlayedStart
  <2>2. CtxKnown(a, p, e)
    BY <1>1, <1>9, <1>11, <2>1 DEF CtxKnown
  <2> QED BY <1>9, <1>10, <2>2 DEF CtxOK, CtxSynSent, CtxListen, CtxEstablished, CtxClosing, Closing
<1>13. d.st # "GONE" => CtxOK(a, "server", d)
  BY <1>1 DEF ConnInv
<1>14. GotSent(e, d) /\ AcksSent(e, n[p]) /\ DataSent(e, n["server"]) /\ AckedGot(e, d)
  BY <1>3, <1>10 DEF Pair, GotSent, AcksSent, DataSent, AckedGot
<1>15. AckedGot(d, e)
  <2> SUFFICES ASSUME OpenC(d) PROVE d.ackd <= e.recv
    BY DEF AckedGot
  <2>1. d.st = "SYN_RECEIVED" /\ d.ackd # 201
    BY <1>3, <1>5 DEF EarlyOK, ServerEarly, OpenC
  <2>2. d.ackd = 200
    BY <1>13, <2>1 DEF CtxOK, CtxListen
  <2> QED BY <1>9, <2>2
<1>16. AcksGot(n["server"], e)
  BY <1>3, <1>5, <1>9 DEF FreshOK, AcksGot
<1>17. GotSent(d, e)
  <2> SUFFICES ASSUME Sending(d) PROVE e.recv <= HighSent(d)
    BY DEF GotSent
  <2>1. d.st # "GONE"
    BY DEF Sending, OpenC
  <2> QED BY <1>1, <1>9, <1>11, <1>13, <2>1, HighFirst
<1>18. FinGot(a, "server", e, n[p])
  <2> SUFFICES ASSUME NEW t \in Segs(n[p]), "FIN" \in t.flags PROVE FALSE
    BY DEF FinGot, Has
  <2>1. Plain(t)
    BY <1>1, SegmentIs DEF SegSyn, SegPlain
  <2> QED BY <1>3, <1>5, <2>1 DEF FreshOK
<1>19. y["client"] = e /\ y["server"] = d
  BY <1>1 DEF Put
<1>20. EarlyOK(y, n) /\ FreshOK(y, n) /\ SynAgain(y, n) /\ ClosedOK(y, n)
  <2>1. Nothing(e)
    BY <1>9 DEF Nothing
  <2>2. EarlyOK(y, n)
    BY <1>3, <1>4, <1>5, <1>10, <1>19 DEF EarlyOK, c
  <2>3. FreshOK(y, n)
    BY <1>3, <1>5, <1>19, <2>1 DEF FreshOK
  <2>4. SynAgain(y, n)
    BY <1>19, <2>1 DEF SynAgain
  <2>5. ClosedOK(y, n)
    BY <1>9, <1>19 DEF ClosedOK
  <2> QED BY <2>2, <2>3, <2>4, <2>5
<1>21. ChangeOK(a, x, n, p, e)
  BY <1>1, <1>12, <1>14, <1>15, <1>16, <1>17, <1>18, <1>20 DEF ChangeOK
<1>22. ConnInv(a, y, n)
  BY <1>1, <1>21, ContextChanges
<1> QED BY <1>4, <1>9, <1>22 DEF e, s, c

\* The whole of stream_tcp_proc_in.
LEMMA TcpIn ==
  ASSUME PlayedList(Actions), NEW x, NEW n, ConnInv(Actions, x, n), NEW p \in Peers, n[p] # <<>>,
         "RST" \notin Head(n[p]).flags, x[p].st # "GONE" \/ p = "server"
  PROVE  LET s == Head(n[p])
             e == tcp_in(IF x[p].st # "GONE" THEN x[p] ELSE InitCtx(p), s) IN
         /\ ConnInv(Actions, Put(x, p, e), n) /\ e.st # "GONE"
         /\ "FIN" \in e.flags => (x[p].st # "GONE" /\ "FIN" \in x[p].flags) \/ "FIN" \in s.flags
<1> DEFINE s == Head(n[p])
           e == tcp_in(IF x[p].st # "GONE" THEN x[p] ELSE InitCtx(p), s)
<1>1. CASE Known(x[p])
  <2>1. x[p].st # "GONE" /\ e = tcp_in(x[p], s)
    BY <1>1 DEF Known
  <2> HIDE DEF e
  <2>2. ConnInv(Actions, Put(x, p, e), n) /\ e.st = x[p].st /\ ("FIN" \in e.flags => "FIN" \in x[p].flags \/ "FIN" \in s.flags)
    BY <1>1, <2>1, KnownIn
  <2> QED BY <2>1, <2>2 DEF e
<1>2. CASE ~ Known(x[p]) /\ p = "client"
  <2>1. x[p].st # "GONE" /\ e = tcp_in(x[p], s)
    BY <1>2
  <2> HIDE DEF e
  <2>2. ConnInv(Actions, Put(x, p, e), n) /\ e.st = x[p].st /\ "FIN" \notin e.flags
    BY <1>2, <2>1, SynAckArrives
  <2> QED BY <2>1, <2>2 DEF e
<1>3. CASE ~ Known(x[p]) /\ p = "server" /\ "SYN" \notin s.flags
  <2>1. ConnInv(Actions, Put(x, p, e), n) /\ e.st = "LISTEN"
        /\ ("FIN" \in e.flags => "FIN" \in (IF x[p].st # "GONE" THEN x[p] ELSE InitCtx(p)).flags \/ "FIN" \in s.flags)
    BY <1>3, StrayArrives
  <2>2. InitCtx(p).flags = {}
    BY InitIs
  <2> HIDE DEF e
  <2> QED BY <2>1, <2>2 DEF e
<1>4. CASE ~ Known(x[p]) /\ p = "server" /\ "SYN" \in s.flags
  <2>1. x[p].st = "GONE"
    <3>1. s \in Segs(n[p])
      BY SegsTail DEF ConnInv
    <3>2. Early(x, n)
      BY <1>4, <3>1 DEF Early, Has
    <3> QED BY <1>4, <3>2 DEF ConnInv, EarlyOK, ServerEarly
  <2>2. e = tcp_in(InitCtx("server"), s)
    BY <1>4, <2>1
  <2> HIDE DEF e
  <2>3. ConnInv(Actions, Put(x, p, e), n) /\ e.st = "LISTEN" /\ "FIN" \notin e.flags
    BY <1>4, <2>1, <2>2, SynOpens
  <2> QED BY <2>1, <2>3 DEF e
<1> QED BY <1>1, <1>2, <1>3, <1>4 DEF Peers

\* An acknowledgement, with data, with the FIN or alone.
LEMMA PlainSent ==
  ASSUME NEW a, PlayedList(a), NEW x, NEW n, ConnInv(a, x, n), NEW p \in Peers, NEW s \in SegType, s.from = p, Plain(s),
         "RST" \notin s.flags, OpenC(x[p]), x[p].st # "SYN_RECEIVED", s.ack = x[p].recv, s.seq = First(p) + s.pos, s.pos >= 0,
         s.seq + s.len + Fin(s.flags) <= HighSent(x[p]), s.len > 0 => s.pos + s.len <= Total(a, p),
         "FIN" \in s.flags => s.len = 0 /\ s.pos = Total(a, p) /\ x[p].act = Len(a) /\ x[p].ackd >= First(p) + Total(a, p)
  PROVE  SendOK(a, x, n, p, s)
<1> DEFINE q == Other(p)  c == x[p]  d == x[q]
<1>1. q \in Peers /\ Other(q) = p /\ q # p /\ First(p) \in Nat /\ First(q) \in Nat
  BY TwoPeers DEF First
<1>2. c.st # "GONE" /\ CtxOK(a, p, c) /\ (d.st # "GONE" => CtxOK(a, q, d))
  BY <1>1 DEF OpenC, ConnInv
<1>3. "SYN" \in c.flags /\ Known(c) /\ Sending(c)
  BY <1>2 DEF CtxOK, OpenC, Known, Sending
<1>4. c.recv \in Int /\ c.ackd \in Int /\ Total(a, p) \in Nat /\ Total(a, q) \in Nat
  BY <1>2, ContextIs
<1>5. Pair(a, p, c, d, n[p], n[q]) /\ Pair(a, q, d, c, n[q], n[p]) /\ EarlyOK(x, n) /\ FreshOK(x, n) /\ ClosedOK(x, n)
  BY <1>1 DEF ConnInv
<1>6. c.recv >= First(q) /\ Played(a, p, c)
  BY <1>2, <1>3 DEF CtxOK, CtxKnown
<1>7. "FIN" \in s.flags => c.recv >= First(q) + Total(a, q)
  <2> SUFFICES ASSUME "FIN" \in s.flags PROVE c.recv >= First(q) + Total(a, q)
    OBVIOUS
  <2>1. Total(a, q) <= c.recv - First(q)
    BY <1>6 DEF Played, Total
  <2> HIDE DEF c
  <2> QED BY <1>1, <1>4, <2>1
<1>8. p = "server" => ~ Early(x, n) /\ ~ Fresh(x, n)
  BY <1>5 DEF EarlyOK, ServerEarly, OpenC, Fresh
<1>9. "SYN" \notin s.flags /\ "ACK" \in s.flags
  BY DEF Plain
<1>10. s \in Segment_(a, p)
  BY <1>6, <1>7 DEF Segment_, SegPlain
<1>11. Sending(d) => s.ack <= HighSent(d)
  BY <1>3, <1>5 DEF Pair, GotSent
<1>12. Known(d) /\ "FIN" \in s.flags => d.recv >= First(p) + Total(a, p)
  <2> SUFFICES ASSUME Known(d), "FIN" \in s.flags PROVE d.recv >= First(p) + Total(a, p)
    OBVIOUS
  <2>1. c.ackd <= d.recv
    BY <1>5 DEF Pair, AckedGot
  <2>2. d.recv \in Int
    <3>1. d.st # "GONE"
      BY DEF Known
    <3> QED BY <1>1, <1>2, <3>1, ContextIs
  <2> HIDE DEF c, d
  <2>3. c.ackd >= First(p) + Total(a, p)
    BY DEF c
  <2> QED BY <1>1, <1>4, <2>1, <2>2, <2>3
<1>13. c.st # "CLOSED" /\ d.st # "CLOSED" /\ c.st # "SYN_SENT"
  <2>1. c.st # "CLOSED" /\ c.st # "SYN_SENT"
    BY DEF OpenC
  <2>2. d.st = "CLOSED" => q = "client"
    BY <1>1, <1>2 DEF CtxOK, CtxType, States
  <2>3. q = "client" => p = "server"
    BY <1>1 DEF Peers
  <2> QED BY <1>2, <1>5, <2>1, <2>2, <2>3 DEF ClosedOK
<1>14. p = "client" /\ Fresh(x, n) => s.ack <= 201
  BY <1>3, <1>5 DEF FreshOK, Nothing
<1>15. p = "client" /\ "FIN" \in s.flags /\ Early(x, n) => s.pos = 0
  <2> SUFFICES ASSUME p = "client", "FIN" \in s.flags, Early(x, n) PROVE s.pos = 0
    OBVIOUS
  <2>1. c.ackd <= 100 /\ First(p) = 100 /\ s.pos = Total(a, p) /\ c.ackd >= First(p) + Total(a, p)
    BY <1>5 DEF EarlyOK, First
  <2> QED BY <1>4, <2>1
<1> HIDE DEF q, c, d
<1> QED
  <2>1. /\ Known(x[p]) /\ "ACK" \in s.flags => s.ack <= x[p].recv
        /\ Sending(x[Other(p)]) /\ "ACK" \in s.flags => s.ack <= HighSent(x[Other(p)])
        /\ Sending(x[p]) /\ Plain(s) => s.seq + s.len + Fin(s.flags) <= HighSent(x[p])
        /\ Known(x[Other(p)]) /\ "FIN" \in s.flags => x[Other(p)].recv >= First(p) + Total(a, p)
    BY <1>4, <1>11, <1>12 DEF q, c, d
  <2>2. /\ "SYN" \in s.flags => \A t \in Segs(n[Other(p)]) : ~ Plain(t)
        /\ x[p].st # "CLOSED" /\ x[Other(p)].st # "CLOSED"
        /\ p = "client" /\ "SYN" \in s.flags => Early(x, n)
        /\ p = "client" /\ x[p].st = "SYN_SENT" => "SYN" \in s.flags
        /\ p = "client" /\ "FIN" \in s.flags /\ Early(x, n) => s.pos = 0
        /\ p = "client" /\ "ACK" \in s.flags /\ Fresh(x, n) => s.ack <= 201
    BY <1>9, <1>13, <1>14, <1>15 DEF q, c, d
  <2>3. /\ p = "server" /\ "ACK" \in s.flags /\ Early(x, n) => s.ack = 100
        /\ p = "server" /\ Fresh(x, n) => ~ Plain(s)
        /\ p = "server" /\ "SYN" \in s.flags => Nothing(x[Other(p)])
    BY <1>8, <1>9
  <2> QED BY <1>10, <2>1, <2>2, <2>3 DEF SendOK

\* The answer to the SYN.
LEMMA SynAckSent ==
  ASSUME NEW a, PlayedList(a), NEW x, NEW n, ConnInv(a, x, n), x["server"].st = "SYN_RECEIVED", NEW s \in SegType,
         s.from = "server", s.flags = {"SYN", "ACK"}, s.len = 0, s.seq = 200, s.ack = x["server"].recv
  PROVE  SendOK(a, x, n, "server", s)
<1> DEFINE p == "server"  q == "client"  c == x[p]  d == x[q]
<1>1. p \in Peers /\ q \in Peers /\ Other(p) = q /\ Other(q) = p /\ First(q) = 100
  BY DEF Peers, Other, First
<1>2. CtxOK(a, p, c) /\ (d.st # "GONE" => CtxOK(a, q, d)) /\ EarlyOK(x, n) /\ FreshOK(x, n) /\ ClosedOK(x, n)
      /\ Pair(a, q, d, c, n[q], n[p]) /\ Fresh(x, n)
  BY <1>1 DEF ConnInv, Fresh
<1>3. "SYN" \in c.flags /\ Known(c)
  BY <1>2 DEF CtxOK, OpenC, Known
<1>4. c.recv >= 100 /\ c.recv \in Int
  BY <1>1, <1>2, <1>3, ContextIs DEF CtxOK, CtxKnown
<1>5. s \in Segment_(a, p)
  BY <1>4 DEF Segment_, SegSyn
<1>6. Sending(d) => s.ack <= HighSent(d)
  BY <1>2, <1>3 DEF Pair, GotSent
<1>7. d.st # "CLOSED" /\ Nothing(d) /\ \A t \in Segs(n[q]) : ~ Plain(t)
  BY <1>2 DEF ClosedOK, FreshOK
<1>8. Early(x, n) => s.ack = 100
  BY <1>2 DEF EarlyOK, ServerEarly
<1>9. ~ Plain(s) /\ "FIN" \notin s.flags
  BY DEF Plain
<1> HIDE DEF q, c, d
<1> QED
  <2>1. /\ Known(x[p]) /\ "ACK" \in s.flags => s.ack <= x[p].recv
        /\ Sending(x[Other(p)]) /\ "ACK" \in s.flags => s.ack <= HighSent(x[Other(p)])
        /\ Sending(x[p]) /\ Plain(s) => s.seq + s.len + Fin(s.flags) <= HighSent(x[p])
        /\ Known(x[Other(p)]) /\ "FIN" \in s.flags => x[Other(p)].recv >= First(p) + Total(a, p)
    BY <1>1, <1>3, <1>4, <1>6, <1>9 DEF p, q, c, d
  <2>2. /\ "SYN" \in s.flags => \A t \in Segs(n[Other(p)]) : ~ Plain(t)
        /\ x[p].st # "CLOSED" /\ x[Other(p)].st # "CLOSED"
        /\ p = "client" /\ "SYN" \in s.flags => Early(x, n)
        /\ p = "client" /\ x[p].st = "SYN_SENT" => "SYN" \in s.flags
        /\ p = "client" /\ "FIN" \in s.flags /\ Early(x, n) => s.pos = 0
        /\ p = "client" /\ "ACK" \in s.flags /\ Fresh(x, n) => s.ack <= 201
    BY <1>1, <1>7, <1>9 DEF p, q, c, d
  <2>3. /\ p = "server" /\ "ACK" \in s.flags /\ Early(x, n) => s.ack = 100
        /\ p = "server" /\ Fresh(x, n) => ~ Plain(s)
        /\ p = "server" /\ "SYN" \in s.flags => Nothing(x[Other(p)])
    BY <1>1, <1>7, <1>8, <1>9 DEF p, q, c, d
  <2> QED BY <1>5, <2>1, <2>2, <2>3 DEF SendOK

\* The RST of one who has no connection.
LEMMA ResetSent ==
  ASSUME NEW a, NEW x, NEW n, ConnInv(a, x, n), NEW p \in Peers, x[p].st = "GONE", x[Other(p)].st # "CLOSED",
         NEW s \in SegType, s.from = p, s.flags = {"RST"}
  PROVE  SendOK(a, x, n, p, s)
  BY DEF SendOK, Segment_, Plain

-----------------------------------------------------------------------------
(***************************************************************************)
(* stream_tcp_proc_out: what each state sends and becomes.                 *)
(***************************************************************************)

\* The fields of a context.
CtxIs(a, p, e, st, act, next, ackd, recv, ackable, first, ofirst, same, flags) ==
  /\ e \in CtxType(a, p)
  /\ e.st = st /\ e.act = act /\ e.next = next /\ e.ackd = ackd /\ e.recv = recv /\ e.ackable = ackable
  /\ e.first = first /\ e.ofirst = ofirst /\ e.same = same /\ e.flags = flags

\* The contexts that stream_tcp_proc_out makes of one.
LEMMA ContextsMade ==
  ASSUME NEW a, NEW p, NEW c \in CtxType(a, p), NEW t \in States(p), NEW m \in Int, NEW k \in Int, NEW h \in Nat,
         NEW g \in SUBSET CtxFlags
  PROVE  /\ CtxIs(a, p, c, c.st, c.act, c.next, c.ackd, c.recv, c.ackable, c.first, c.ofirst, c.same, c.flags)
         /\ CtxIs(a, p, [c EXCEPT !.st = t, !.next = m, !.ackd = k], t, c.act, m, k, c.recv, c.ackable, c.first, c.ofirst, c.same, c.flags)
         /\ CtxIs(a, p, [c EXCEPT !.same = h, !.st = t], t, c.act, c.next, c.ackd, c.recv, c.ackable, c.first, c.ofirst, h, c.flags)
         /\ CtxIs(a, p, [c EXCEPT !.st = t, !.same = h], t, c.act, c.next, c.ackd, c.recv, c.ackable, c.first, c.ofirst, h, c.flags)
         /\ CtxIs(a, p, [c EXCEPT !.st = t], t, c.act, c.next, c.ackd, c.recv, c.ackable, c.first, c.ofirst, c.same, c.flags)
         /\ CtxIs(a, p, [c EXCEPT !.same = h, !.next = m], c.st, c.act, m, c.ackd, c.recv, c.ackable, c.first, c.ofirst, h, c.flags)
         /\ CtxIs(a, p, [c EXCEPT !.same = h], c.st, c.act, c.next, c.ackd, c.recv, c.ackable, c.first, c.ofirst, h, c.flags)
         /\ CtxIs(a, p, [c EXCEPT !.flags = g], c.st, c.act, c.next, c.ackd, c.recv, c.ackable, c.first, c.ofirst, c.same, g)
         /\ CtxIs(a, p, [c EXCEPT !.ackable = k], c.st, c.act, c.next, c.ackd, c.recv, k, c.first, c.ofirst, c.same, c.flags)
         /\ CtxIs(a, p, [c EXCEPT !.next = m, !.first = k], c.st, c.act, m, c.ackd, c.recv, c.ackable, k, c.ofirst, c.same, c.flags)
<1> DEFINE A == 1 .. Len(a)  S == States(p)  F == SUBSET CtxFlags
           T == [st : S, act : A, next : Int, ackd : Int, recv : Int, ackable : Int,
                 first : Int, ofirst : Int, same : Nat, flags : F]
<1>1. T = CtxType(a, p) /\ c \in T /\ t \in S /\ g \in F
  BY DEF CtxType
<1> HIDE DEF A, S, F
<1>2. ASSUME NEW e \in T PROVE e \in CtxType(a, p)
  BY <1>1
<1> USE DEF CtxIs
<1>a. c \in T /\ t \in S /\ g \in F /\ m \in Int /\ k \in Int /\ h \in Nat
  BY <1>1
<1>3. [c EXCEPT !.st = t, !.next = m, !.ackd = k] \in T
  BY ONLY <1>a
<1>4. [c EXCEPT !.same = h, !.st = t] \in T /\ [c EXCEPT !.st = t, !.same = h] \in T /\ [c EXCEPT !.st = t] \in T
  BY ONLY <1>a
<1>5. [c EXCEPT !.same = h, !.next = m] \in T /\ [c EXCEPT !.same = h] \in T /\ [c EXCEPT !.flags = g] \in T
  BY ONLY <1>a
<1>6. [c EXCEPT !.ackable = k] \in T /\ [c EXCEPT !.next = m, !.first = k] \in T
  BY ONLY <1>a
<1>7. CtxIs(a, p, c, c.st, c.act, c.next, c.ackd, c.recv, c.ackable, c.first, c.ofirst, c.same, c.flags)
  BY <1>1
<1>8. CtxIs(a, p, [c EXCEPT !.st = t, !.next = m, !.ackd = k], t, c.act, m, k, c.recv, c.ackable, c.first, c.ofirst, c.same, c.flags)
  BY <1>1, <1>3
<1>9. /\ CtxIs(a, p, [c EXCEPT !.same = h, !.st = t], t, c.act, c.next, c.ackd, c.recv, c.ackable, c.first, c.ofirst, h, c.flags)
      /\ CtxIs(a, p, [c EXCEPT !.st = t, !.same = h], t, c.act, c.next, c.ackd, c.recv, c.ackable, c.first, c.ofirst, h, c.flags)
      /\ CtxIs(a, p, [c EXCEPT !.st = t], t, c.act, c.next, c.ackd, c.recv, c.ackable, c.first, c.ofirst, c.same, c.flags)
  BY <1>1, <1>4
<1>10. /\ CtxIs(a, p, [c EXCEPT !.same = h, !.next = m], c.st, c.act, m, c.ackd, c.recv, c.ackable, c.first, c.ofirst, h, c.flags)
       /\ CtxIs(a, p, [c EXCEPT !.same = h], c.st, c.act, c.next, c.ackd, c.recv, c.ackable, c.first, c.ofirst, h, c.flags)
       /\ CtxIs(a, p, [c EXCEPT !.flags = g], c.st, c.act, c.next, c.ackd, c.recv, c.ackable, c.first, c.ofirst, c.same, g)
  BY <1>1, <1>5
<1>11. /\ CtxIs(a, p, [c EXCEPT !.ackable = k], c.st, c.act, c.next, c.ackd, c.recv, k, c.first, c.ofirst, c.same, c.flags)
       /\ CtxIs(a, p, [c EXCEPT !.next = m, !.first = k], c.st, c.act, m, c.ackd, c.recv, c.ackable, k, c.ofirst, c.same, c.flags)
  BY <1>1, <1>6
<1> QED BY ONLY <1>7, <1>8, <1>9, <1>10, <1>11

\* The segment, and the context after it.
LEMMA Emitted ==
  ASSUME NEW a, NEW p \in Peers, NEW d \in CtxType(a, p), NEW flags \in SUBSET {"SYN", "ACK", "FIN", "RST"}, NEW len \in Nat
  PROVE  LET e == Advanced(d, flags, len)  s == Segment(p, d, flags, len) IN
         /\ CtxIs(a, p, e, d.st, d.act, d.next + (IF flags \cap {"SYN", "FIN", "RST"} # {} THEN 1 ELSE len), d.ackd, d.recv,
                  d.ackable, IF "SYN" \in flags THEN d.ackd + 1 ELSE d.first, d.ofirst, d.same, d.flags)
         /\ s \in SegType /\ s.from = p /\ s.flags = flags /\ s.seq = d.next /\ s.pos = d.next - d.first /\ s.len = len
         /\ "ACK" \in flags => s.ack = d.recv
<1> DEFINE e == Advanced(d, flags, len)  s == Segment(p, d, flags, len)
           m == d.next + (IF flags \cap {"SYN", "FIN", "RST"} # {} THEN 1 ELSE len)
           k == IF "SYN" \in flags THEN d.ackd + 1 ELSE d.first
<1>1. d.next \in Int /\ d.ackd \in Int /\ d.first \in Int /\ d.recv \in Int /\ d.st \in States(p) /\ d.flags \in SUBSET CtxFlags
  BY DEF CtxType
<1>2. m \in Int /\ k \in Int
  BY <1>1
<1>3. e = [d EXCEPT !.next = m, !.first = k]
  BY DEF Advanced
<1>4. s \in SegType /\ s.from = p /\ s.flags = flags /\ s.seq = d.next /\ s.pos = d.next - d.first /\ s.len = len
      /\ ("ACK" \in flags => s.ack = d.recv)
  BY SMTT(60), <1>1 DEF Segment, SegType
<1> HIDE DEF e, s, m, k
<1>5. CtxIs(a, p, e, d.st, d.act, m, d.ackd, d.recv, d.ackable, k, d.ofirst, d.same, d.flags)
  <2>1. 0 \in Nat
    OBVIOUS
  <2> QED BY ONLY <1>1, <1>2, <1>3, <2>1, ContextsMade
<1> QED BY <1>4, <1>5 DEF e, s, m, k
\* Without and with the FIN.
LEMMA EmittedAck ==
  ASSUME NEW a, NEW p \in Peers, NEW d \in CtxType(a, p), NEW len \in Nat
  PROVE  LET e == Advanced(d, {"ACK"}, len)  s == Segment(p, d, {"ACK"}, len) IN
         /\ CtxIs(a, p, e, d.st, d.act, d.next + len, d.ackd, d.recv, d.ackable, d.first, d.ofirst, d.same, d.flags)
         /\ s \in SegType /\ s.from = p /\ s.flags = {"ACK"} /\ s.seq = d.next /\ s.pos = d.next - d.first /\ s.len = len
         /\ s.ack = d.recv
<1> DEFINE f == {"ACK"}
<1>1. f \in SUBSET {"SYN", "ACK", "FIN", "RST"} /\ f \cap {"SYN", "FIN", "RST"} = {} /\ "SYN" \notin f /\ "ACK" \in f
  OBVIOUS
<1> HIDE DEF f
<1>2. LET e == Advanced(d, f, len)  s == Segment(p, d, f, len) IN
      /\ CtxIs(a, p, e, d.st, d.act, d.next + len, d.ackd, d.recv, d.ackable, d.first, d.ofirst, d.same, d.flags)
      /\ s \in SegType /\ s.from = p /\ s.flags = f /\ s.seq = d.next /\ s.pos = d.next - d.first /\ s.len = len
      /\ s.ack = d.recv
  BY <1>1, Emitted DEF CtxIs
<1> QED BY <1>2 DEF f

\* create_tcp_pkt for the FIN.
LEMMA EmittedFin ==
  ASSUME NEW a, NEW p \in Peers, NEW d \in CtxType(a, p)
  PROVE  LET e == Advanced(d, {"FIN", "ACK"}, 0)  s == Segment(p, d, {"FIN", "ACK"}, 0) IN
         /\ CtxIs(a, p, e, d.st, d.act, d.next + 1, d.ackd, d.recv, d.ackable, d.first, d.ofirst, d.same, d.flags)
         /\ s \in SegType /\ s.from = p /\ s.flags = {"FIN", "ACK"} /\ s.seq = d.next /\ s.pos = d.next - d.first /\ s.len = 0
         /\ s.ack = d.recv
<1> DEFINE f == {"FIN", "ACK"}
<1>1. f \in SUBSET {"SYN", "ACK", "FIN", "RST"} /\ f \cap {"SYN", "FIN", "RST"} # {} /\ "SYN" \notin f /\ "ACK" \in f /\ 0 \in Nat
  OBVIOUS
<1> HIDE DEF f
<1>2. LET e == Advanced(d, f, 0)  s == Segment(p, d, f, 0) IN
      /\ CtxIs(a, p, e, d.st, d.act, d.next + 1, d.ackd, d.recv, d.ackable, d.first, d.ofirst, d.same, d.flags)
      /\ s \in SegType /\ s.from = p /\ s.flags = f /\ s.seq = d.next /\ s.pos = d.next - d.first /\ s.len = 0
      /\ s.ack = d.recv
  BY <1>1, Emitted DEF CtxIs
<1> QED BY <1>2 DEF f

\* create_tcp_pkt for the SYN.
LEMMA EmittedSyn ==
  ASSUME NEW a, NEW p \in Peers, NEW d \in CtxType(a, p)
  PROVE  LET e == Advanced(d, {"SYN"}, 0)  s == Segment(p, d, {"SYN"}, 0) IN
         /\ CtxIs(a, p, e, d.st, d.act, d.next + 1, d.ackd, d.recv, d.ackable, d.ackd + 1, d.ofirst, d.same, d.flags)
         /\ s \in SegType /\ s.from = p /\ s.flags = {"SYN"} /\ s.seq = d.next /\ s.len = 0
<1> DEFINE f == {"SYN"}
<1>1. f \in SUBSET {"SYN", "ACK", "FIN", "RST"} /\ f \cap {"SYN", "FIN", "RST"} # {} /\ "SYN" \in f /\ 0 \in Nat
  OBVIOUS
<1> HIDE DEF f
<1> DEFINE e == Advanced(d, f, 0)
           s == Segment(p, d, f, 0)
           m == d.next + (IF f \cap {"SYN", "FIN", "RST"} # {} THEN 1 ELSE 0)
           k == IF "SYN" \in f THEN d.ackd + 1 ELSE d.first
<1>2. /\ CtxIs(a, p, e, d.st, d.act, m, d.ackd, d.recv, d.ackable, k, d.ofirst, d.same, d.flags)
      /\ s \in SegType /\ s.from = p /\ s.flags = f /\ s.seq = d.next /\ s.pos = d.next - d.first /\ s.len = 0
      /\ "ACK" \in f => s.ack = d.recv
  <2>1. f \in SUBSET {"SYN", "ACK", "FIN", "RST"}
    BY <1>1
  <2>2. 0 \in Nat
    OBVIOUS
  <2> QED BY ONLY <2>1, <2>2, p \in Peers, d \in CtxType(a, p), Emitted
<1>3. m = d.next + 1 /\ k = d.ackd + 1
  BY <1>1, Zenon
<1> HIDE DEF e, s, m, k
<1>4. /\ CtxIs(a, p, e, d.st, d.act, d.next + 1, d.ackd, d.recv, d.ackable, d.ackd + 1, d.ofirst, d.same, d.flags)
      /\ s \in SegType /\ s.from = p /\ s.flags = f /\ s.seq = d.next /\ s.len = 0
  BY ONLY <1>2, <1>3, Zenon
<1> QED BY <1>4, Zenon DEF f, e, s

\* What a call of stream_tcp_proc_out must leave behind.
OutOK(a, x, n, p, e, out) ==
  /\ ConnInv(a, Put(x, p, e), n) /\ e.st # "GONE"
  /\ \/ out = <<>>
     \/ \E s : out = <<s>> /\ SendOK(a, Put(x, p, e), n, p, s) /\ ("FIN" \in s.flags => e.act = Len(a))
  /\ "FIN" \in e.flags => "FIN" \in x[p].flags
EndOK(a, x, n, p, how, out) ==
  /\ how = "finished" => "FIN" \in x[p].flags
  /\ out = <<>> \/ \E s : out = <<s>> /\ SendOK(a, Put(x, p, Gone), n, p, s) /\ "FIN" \notin s.flags
Kept(a, x, n, p) ==
  \/ \E e, out : Done(p, e, n[p], out) /\ OutOK(a, x, n, p, e, out)
  \/ \E how, out : End(p, how, n[p], out) /\ EndOK(a, x, n, p, how, out)

\* stream_tcp_proc_out that sends nothing and only changes flags.
LEMMA QuietKept ==
  ASSUME NEW a, NEW x, NEW n, ConnInv(a, x, n), NEW p \in Peers, NEW e, Alike(x[p], e), e \in CtxType(a, p),
         x[p].st # "CLOSED", Done(p, e, n[p], <<>>)
  PROVE  Kept(a, x, n, p)
<1>1. ConnInv(a, Put(x, p, e), n)
  BY AlikeChange
<1>2. e.st # "GONE" /\ ("FIN" \in e.flags => "FIN" \in x[p].flags)
  BY DEF Alike, Calm
<1>3. OutOK(a, x, n, p, e, <<>>)
  BY <1>1, <1>2 DEF OutOK
<1> QED BY <1>3 DEF Kept

\* stream_tcp_proc_out that sends a segment.
LEMMA EmitKept ==
  ASSUME NEW a, NEW x, NEW n, NEW p \in Peers, NEW d, NEW flags, NEW len, Emit(p, d, n[p], flags, len),
         LET e == Advanced(d, flags, len)  s == Segment(p, d, flags, len) IN
         /\ ConnInv(a, Put(x, p, e), n) /\ e.st # "GONE" /\ SendOK(a, Put(x, p, e), n, p, s)
         /\ "FIN" \in s.flags => e.act = Len(a)
         /\ "FIN" \in e.flags => "FIN" \in x[p].flags
  PROVE  Kept(a, x, n, p)
<1> DEFINE e == Advanced(d, flags, len)  s == Segment(p, d, flags, len)
<1>1. Done(p, e, n[p], <<s>>)
  BY DEF Emit
<1>2. OutOK(a, x, n, p, e, <<s>>)
  <2> HIDE DEF e, s
  <2>1. /\ ConnInv(a, Put(x, p, e), n) /\ e.st # "GONE" /\ SendOK(a, Put(x, p, e), n, p, s)
        /\ ("FIN" \in s.flags => e.act = Len(a)) /\ ("FIN" \in e.flags => "FIN" \in x[p].flags)
    BY DEF e, s
  <2> QED BY <2>1 DEF OutOK
<1> HIDE DEF e, s
<1> QED BY <1>1, <1>2 DEF Kept

\* stream_tcp_proc_out that ends the stream.
LEMMA EndKept ==
  ASSUME NEW a, NEW x, NEW n, NEW p \in Peers, NEW how, End(p, how, n[p], <<>>), how = "finished" => "FIN" \in x[p].flags
  PROVE  Kept(a, x, n, p)
<1>1. EndOK(a, x, n, p, how, <<>>)
  BY DEF EndOK
<1> QED BY <1>1 DEF Kept

\* CLOSED: the SYN.
LEMMA ClosedKept ==
  ASSUME NEW a, PlayedList(a), NEW x, NEW n, ConnInv(a, x, n), NEW p \in Peers, x[p].st = "CLOSED", out_closed(p, x[p], n[p])
  PROVE  Kept(a, x, n, p)
<1> DEFINE c == x[p]
           d == [c EXCEPT !.st = "SYN_SENT", !.next = 99, !.ackd = 99]
           e == Advanced(d, {"SYN"}, 0)
           s == Segment(p, d, {"SYN"}, 0)
           y == Put(x, p, e)
<1>1. CtxOK(a, p, c) /\ c \in CtxType(a, p)
  BY DEF ConnInv, CtxOK
<1>2. p = "client" /\ Other(p) = "server" /\ "server" \in Peers /\ Other("server") = p
  <2>1. c.st \in States(p)
    BY <1>1 DEF CtxType
  <2> QED BY <2>1 DEF States, Peers, Other
<1>3. x["server"].st = "GONE" /\ n["client"] = <<>> /\ n["server"] = <<>> /\ Segs(<<>>) = {}
  <2>1. Segs(<<>>) = {}
    BY EmptySeq DEF Segs
  <2> QED BY <1>2, <2>1 DEF ConnInv, ClosedOK
<1>4. c.flags = {} /\ c.ackable = 0 /\ c.recv = 0 /\ c.act = 1
  BY <1>1 DEF CtxOK, CtxKnown
<1> HIDE DEF c
<1>5. CtxIs(a, p, d, "SYN_SENT", c.act, 99, 99, c.recv, c.ackable, c.first, c.ofirst, c.same, c.flags)
  <2>1. "SYN_SENT" \in States(p) /\ 99 \in Int /\ 0 \in Nat /\ {} \in SUBSET CtxFlags
    BY <1>2 DEF States
  <2> QED BY ONLY ZenonT(60), <1>1, <2>1, ContextsMade
<1> HIDE DEF d
<1>6. /\ e \in CtxType(a, p) /\ e.st = "SYN_SENT" /\ e.act = 1 /\ e.next = 100 /\ e.ackd = 99 /\ e.recv = 0 /\ e.ackable = 0
      /\ e.first = 100 /\ e.flags = {}
      /\ s \in SegType /\ s.from = p /\ s.flags = {"SYN"} /\ s.seq = 99 /\ s.len = 0
  <2>1. d \in CtxType(a, p) /\ d.st = "SYN_SENT" /\ d.act = 1 /\ d.next = 99 /\ d.ackd = 99 /\ d.recv = 0 /\ d.ackable = 0
        /\ d.flags = {}
    BY <1>4, <1>5 DEF CtxIs
  <2>2. /\ CtxIs(a, p, e, d.st, d.act, d.next + 1, d.ackd, d.recv, d.ackable, d.ackd + 1, d.ofirst, d.same, d.flags)
        /\ s \in SegType /\ s.from = p /\ s.flags = {"SYN"} /\ s.seq = d.next /\ s.len = 0
    <3>1. d \in CtxType(a, p)
      BY <2>1
    <3> QED BY <3>1, EmittedSyn DEF CtxIs
  <2> HIDE DEF e, s
  <2>3. 99 + 1 = 100
    OBVIOUS
  <2> QED BY <2>1, <2>2, <2>3 DEF CtxIs
<1> HIDE DEF e, s
<1>7. ~ OpenC(e) /\ ~ Known(x["server"]) /\ ~ Known(e)
  BY <1>3, <1>6 DEF OpenC, Known
<1>8. CtxOK(a, p, e)
  BY <1>6, <1>7 DEF CtxOK, CtxKnown, CtxSynSent, CtxListen, CtxEstablished, CtxClosing, Closing
<1>9. ConnInv(a, y, n)
  <2>1. Calm(c, e)
    BY <1>4, <1>6 DEF Calm, c
  <2>2. PhaseOK(x, n, p, c, e)
    BY <1>2, <1>6, <1>7 DEF PhaseOK, c
  <2>3. AckedGot(e, x[Other(p)]) /\ GotSent(e, x[Other(p)]) /\ AcksSent(e, n[p]) /\ DataSent(e, n[Other(p)])
    BY <1>2, <1>3, <1>7 DEF AckedGot, GotSent, AcksSent, DataSent
  <2> QED BY <1>8, <2>1, <2>2, <2>3, CalmChange DEF c
<1>10. y["client"] = e /\ y["server"] = x["server"]
  BY <1>2 DEF Put
<1>11. SendOK(a, y, n, p, s)
  <2>1. ~ Plain(s) /\ s \in Segment_(a, p)
    BY <1>2, <1>6 DEF Plain, Segment_, SegSyn
  <2>2. Early(y, n)
    BY <1>6, <1>10 DEF Early
  <2> QED BY <1>2, <1>3, <1>6, <1>10, <2>1, <2>2 DEF SendOK
<1>12. Emit(p, d, n[p], {"SYN"}, 0)
  BY DEF out_closed, d, c
<1> QED BY <1>6, <1>9, <1>11, <1>12, EmitKept DEF e, s

\* SYN_SENT, no answer yet: the SYN again.
LEMMA SynAgainKept ==
  ASSUME NEW a, PlayedList(a), NEW x, NEW n, ConnInv(a, x, n), NEW p \in Peers, x[p].st = "SYN_SENT",
         x[p].ackd < x[p].next \/ "SYN" \notin x[p].flags, out_closed(p, [x[p] EXCEPT !.same = @ + 1], n[p])
  PROVE  Kept(a, x, n, p)
<1> DEFINE c == x[p]
           h == c.same + 1
           b == [c EXCEPT !.same = h]
           d == [b EXCEPT !.st = "SYN_SENT", !.next = 99, !.ackd = 99]
           e == Advanced(d, {"SYN"}, 0)
           s == Segment(p, d, {"SYN"}, 0)
           y == Put(x, p, e)
<1>1. CtxOK(a, p, c) /\ c \in CtxType(a, p)
  BY DEF ConnInv, CtxOK
<1>2. p = "client" /\ Other(p) = "server" /\ "server" \in Peers /\ Other("server") = p
  <2>1. c.st \in States(p)
    BY <1>1 DEF CtxType
  <2> QED BY <2>1 DEF States, Peers, Other
<1>3. "SYN" \notin c.flags /\ c.next = 100 /\ c.first = 100 /\ c.ackd = 99
  BY <1>1 DEF CtxOK, CtxSynSent
<1>4. h \in Nat
  BY <1>1 DEF CtxType
<1>12. Emit(p, d, n[p], {"SYN"}, 0)
  BY DEF out_closed
<1> HIDE DEF c, h
<1>p. "SYN_SENT" \in States(p) /\ 99 \in Int /\ {} \in SUBSET CtxFlags /\ c.st = "SYN_SENT"
  BY <1>2 DEF States, c
<1>5. CtxIs(a, p, b, c.st, c.act, c.next, c.ackd, c.recv, c.ackable, c.first, c.ofirst, h, c.flags)
  BY ONLY ZenonT(60), <1>1, <1>4, <1>p, ContextsMade
<1> HIDE DEF b
<1>6. CtxIs(a, p, d, c.st, c.act, 99, 99, c.recv, c.ackable, c.first, c.ofirst, h, c.flags)
  <2>1. CtxIs(a, p, d, "SYN_SENT", b.act, 99, 99, b.recv, b.ackable, b.first, b.ofirst, b.same, b.flags)
    <3>1. b \in CtxType(a, p)
      BY <1>5 DEF CtxIs
    <3> QED BY ONLY ZenonT(60), <1>4, <1>p, <3>1, ContextsMade
  <2> QED BY <1>5, <1>p, <2>1 DEF CtxIs
<1> HIDE DEF d
<1>7. /\ e \in CtxType(a, p) /\ e.st = c.st /\ e.act = c.act /\ e.next = 100 /\ e.ackd = 99 /\ e.recv = c.recv /\ e.ackable = c.ackable
      /\ e.first = 100 /\ e.ofirst = c.ofirst /\ e.flags = c.flags
      /\ s \in SegType /\ s.from = p /\ s.flags = {"SYN"} /\ s.seq = 99 /\ s.len = 0
  <2>1. d \in CtxType(a, p) /\ d.st = c.st /\ d.act = c.act /\ d.next = 99 /\ d.ackd = 99 /\ d.recv = c.recv
        /\ d.ackable = c.ackable /\ d.ofirst = c.ofirst /\ d.flags = c.flags
    BY <1>6 DEF CtxIs
  <2>2. /\ CtxIs(a, p, e, d.st, d.act, d.next + 1, d.ackd, d.recv, d.ackable, d.ackd + 1, d.ofirst, d.same, d.flags)
        /\ s \in SegType /\ s.from = p /\ s.flags = {"SYN"} /\ s.seq = d.next /\ s.len = 0
    <3>1. d \in CtxType(a, p)
      BY <2>1
    <3> QED BY <3>1, EmittedSyn DEF CtxIs
  <2> HIDE DEF e, s
  <2>3. 99 + 1 = 100
    OBVIOUS
  <2> QED BY <2>1, <2>2, <2>3 DEF CtxIs
<1> HIDE DEF e, s
<1>8. Alike(c, e)
  BY <1>3, <1>7, <1>p DEF Alike, Calm
<1>9. ConnInv(a, y, n)
  BY <1>7, <1>8, <1>p, AlikeChange DEF c
<1>10. y["client"] = e /\ y["server"] = x["server"]
  BY <1>2 DEF Put
<1>11. SendOK(a, y, n, p, s)
  <2>1. ~ Plain(s) /\ s \in Segment_(a, p)
    BY <1>2, <1>7 DEF Plain, Segment_, SegSyn
  <2>2. Early(x, n) /\ EarlyOK(x, n) /\ x["client"].st = "SYN_SENT"
    BY <1>2, <1>p DEF Early, ConnInv, c
  <2>3. \A t \in Segs(n["server"]) : ~ Plain(t)
    BY <2>2 DEF EarlyOK, Plain
  <2>4. Early(y, n) /\ y["client"].st # "CLOSED" /\ y["server"].st # "CLOSED"
    <3>1. Early(y, n)
      BY <1>7, <1>10, <1>p DEF Early
    <3>2. x["server"].st # "CLOSED"
      BY <2>2 DEF EarlyOK, ServerEarly
    <3> QED BY <1>7, <1>10, <1>p, <3>1, <3>2
  <2> QED BY <1>2, <1>7, <1>10, <2>1, <2>3, <2>4 DEF SendOK
<1> QED BY <1>7, <1>9, <1>11, <1>12, <1>p, EmitKept DEF e, s, c

\* An acknowledgement alone.
LEMMA AckSent ==
  ASSUME NEW a, PlayedList(a), NEW x, NEW n, NEW p \in Peers, NEW d \in CtxType(a, p),
         LET e == Advanced(d, {"ACK"}, 0) IN
         /\ ConnInv(a, Put(x, p, e), n) /\ OpenC(e) /\ e.st # "SYN_RECEIVED"
         /\ d.first = First(p) /\ First(p) <= d.next /\ d.next <= HighSent(e)
  PROVE  LET e == Advanced(d, {"ACK"}, 0)  s == Segment(p, d, {"ACK"}, 0) IN
         SendOK(a, Put(x, p, e), n, p, s) /\ "FIN" \notin s.flags
<1> DEFINE e == Advanced(d, {"ACK"}, 0)  s == Segment(p, d, {"ACK"}, 0)
           y == Put(x, p, e)
<1>1. /\ e.recv = d.recv
      /\ s \in SegType /\ s.from = p /\ s.flags = {"ACK"} /\ s.seq = d.next /\ s.pos = d.next - d.first /\ s.len = 0
      /\ s.ack = d.recv
  <2>1. 0 \in Nat
    OBVIOUS
  <2> QED BY <2>1, EmittedAck DEF CtxIs
<1>2. d.next \in Int /\ First(p) \in Nat
  BY DEF CtxType, First
<1> HIDE DEF e, s
<1>3. y[p] = e
  BY DEF Put
<1>4. ConnInv(a, y, n) /\ OpenC(y[p]) /\ y[p].st # "SYN_RECEIVED" /\ d.first = First(p) /\ First(p) <= d.next /\ d.next <= HighSent(y[p])
  BY <1>3 DEF e
<1> HIDE DEF y
<1>5. /\ s \in SegType /\ s.from = p /\ Plain(s) /\ "RST" \notin s.flags /\ s.ack = y[p].recv /\ s.seq = First(p) + s.pos /\ s.pos >= 0
      /\ s.seq + s.len + Fin(s.flags) <= HighSent(y[p]) /\ "FIN" \notin s.flags
      /\ ~ (s.len > 0)
  BY <1>1, <1>2, <1>3, <1>4 DEF Plain, Fin
<1>6. SendOK(a, y, n, p, s)
  <2>1. PlayedList(a) /\ p \in Peers
    OBVIOUS
  <2> QED BY ONLY <1>4, <1>5, <2>1, PlainSent
<1> QED BY <1>5, <1>6 DEF y, e, s

\* What an open context tells about the phases of opening.
LEMMA ServerNotEarly ==
  ASSUME NEW a, NEW x, NEW n, ConnInv(a, x, n), NEW p \in Peers, OpenC(x[p])
  PROVE  /\ p = "client" => (Early(x, n) => x[p].ackd <= 100)
         /\ p = "server" => (Early(x, n) => x[p].st = "SYN_RECEIVED" /\ x[p].ackd # 201)
  BY DEF ConnInv, EarlyOK, ServerEarly, OpenC

\* ESTABLISHED, for the client or for the server.
LEMMA Established ==
  ASSUME NEW a, PlayedList(a), NEW x, NEW n, ConnInv(a, x, n), NEW p \in Peers, x[p].st \in {"SYN_SENT", "SYN_RECEIVED"},
         "SYN" \in x[p].flags, x[p].ackd = x[p].next, NEW e,
         CtxIs(a, p, e, "ESTABLISHED", x[p].act, x[p].next, x[p].ackd, x[p].recv, x[p].ackable, x[p].first, x[p].ofirst, 0, x[p].flags)
  PROVE  ConnInv(a, Put(x, p, e), n) /\ HighSent(e) = First(p) /\ e.first = First(p) /\ e.next = First(p)
<1> DEFINE c == x[p]  q == Other(p)  d == x[q]
<1>1. CtxOK(a, p, c) /\ c \in CtxType(a, p) /\ c.st # "GONE"
  BY DEF ConnInv, CtxOK
<1>2. q \in Peers /\ Other(q) = p /\ First(p) \in Nat
  BY TwoPeers DEF First
<1>3. c.next = First(p) /\ c.ackd = First(p) /\ c.first = First(p) /\ Before(a, p)[c.act] = 0 /\ c.ackable = 0
  <2>1. CASE c.st = "SYN_SENT"
    <3>1. p = "client"
      BY <1>1, <2>1 DEF CtxType, States
    <3>2. Before(a, p)[1] = 0
      BY BytesOf
    <3> QED BY <1>1, <2>1, <3>1, <3>2 DEF CtxOK, CtxSynSent, First
  <2>2. CASE c.st = "SYN_RECEIVED"
    <3>1. p = "server"
      BY <1>1, <2>2 DEF CtxType, States, Peers
    <3> QED BY <1>1, <2>2, <3>1 DEF CtxOK, CtxListen, OpenC, First
  <2> QED BY <2>1, <2>2
<1>4. /\ e \in CtxType(a, p) /\ e.st = "ESTABLISHED" /\ e.act = c.act /\ e.next = First(p) /\ e.ackd = First(p) /\ e.recv = c.recv
      /\ e.ackable = 0 /\ e.first = First(p) /\ e.ofirst = c.ofirst /\ e.flags = c.flags
  BY <1>3 DEF CtxIs
<1> HIDE DEF c, q, d
<1>5. "SYN" \in c.flags /\ c.st \in {"SYN_SENT", "SYN_RECEIVED"}
  BY DEF c
<1>6. Sending(c) /\ HighSent(c) = First(p) /\ HighSent(e) = First(p) /\ OpenC(e)
  BY <1>3, <1>4, <1>5 DEF Sending, OpenC, HighSent
<1>7. CtxOK(a, p, e)
  <2>1. CtxKnown(a, p, e)
    BY <1>1, <1>4, <1>5 DEF CtxOK, CtxKnown, Played
  <2>2. CtxEstablished(a, p, e)
    BY <1>2, <1>3, <1>4 DEF CtxEstablished, Base
  <2> QED BY <1>4, <1>5, <2>1, <2>2 DEF CtxOK, CtxSynSent, CtxListen, CtxClosing, Closing
<1>8. GotSent(e, d) /\ AcksSent(e, n[p]) /\ DataSent(e, n[q])
  <2>1. HighSent(e) >= HighSent(x[p]) /\ HighSent(e) \in Int /\ HighSent(x[p]) \in Int /\ Sending(x[p])
    BY <1>2, <1>6 DEF c
  <2> QED BY <2>1, SideKept DEF d, q
<1>9. AckedGot(e, d)
  <2>1. Known(d) => First(p) <= d.recv
    <3> SUFFICES ASSUME Known(d) PROVE First(p) <= d.recv
      OBVIOUS
    <3>1. CtxOK(a, q, d) /\ "SYN" \in d.flags
      BY <1>2 DEF ConnInv, Known, d
    <3>2. d.recv >= First(p)
      BY <1>2, <3>1 DEF CtxOK, CtxKnown
    <3>3. d.recv \in Int
      BY <1>2, <3>1, ContextIs
    <3> QED BY <1>2, <3>2, <3>3
  <2> QED BY <1>4, <2>1 DEF AckedGot
<1>10. PhaseOK(x, n, p, c, e)
  <2>1. p = "client" => e.ackd <= 100
    BY <1>4 DEF First
  <2>2. p = "server" => ~ Early(x, n)
    <3>1. c.st = "SYN_SENT" => p = "client"
      BY <1>1 DEF CtxType, States
    <3>2. p = "server" => OpenC(x[p]) /\ x[p].ackd = 201
      BY <1>3, <1>5, <3>1 DEF OpenC, First, c
    <3> QED BY <3>2, ServerNotEarly
  <2> QED BY <1>4, <2>1, <2>2 DEF PhaseOK
<1>11. Calm(c, e)
  BY <1>1, <1>4 DEF Calm
<1> QED BY <1>4, <1>6, <1>7, <1>8, <1>9, <1>10, <1>11, CalmChange DEF c, d, q

\* The call by which a peer becomes ESTABLISHED, with an ACK or without.
LEMMA EstablishKept ==
  ASSUME PlayedList(Actions), NEW x, NEW n, ConnInv(Actions, x, n), NEW p \in Peers, x[p].st \in {"SYN_SENT", "SYN_RECEIVED"},
         "SYN" \in x[p].flags, x[p].ackd = x[p].next,
         LET est == [x[p] EXCEPT !.same = 0, !.st = "ESTABLISHED"] IN
         \/ Done(p, est, n[p], <<>>)
         \/ Emit(p, est, n[p], {"ACK"}, 0)
  PROVE  Kept(Actions, x, n, p)
<1> DEFINE a == Actions
           c == x[p]
           d == [x[p] EXCEPT !.same = 0, !.st = "ESTABLISHED"]
           e == Advanced(d, {"ACK"}, 0)
           s == Segment(p, d, {"ACK"}, 0)
<1>1. c \in CtxType(a, p)
  BY SMTT(60) DEF ConnInv, CtxOK
<1>2. CtxIs(a, p, d, "ESTABLISHED", c.act, c.next, c.ackd, c.recv, c.ackable, c.first, c.ofirst, 0, c.flags)
  <2> HIDE DEF c
  <2>1. d = [c EXCEPT !.same = 0, !.st = "ESTABLISHED"]
    BY DEF c
  <2>2. "ESTABLISHED" \in States(p) /\ 0 \in Int /\ 0 \in Nat /\ {} \in SUBSET CtxFlags
    BY DEF States
  <2> HIDE DEF d, a
  <2> QED BY ONLY <1>1, <2>1, <2>2, ContextsMade
<1>3. Done(p, d, n[p], <<>>) \/ Emit(p, d, n[p], {"ACK"}, 0)
  OBVIOUS
<1> HIDE DEF d, a
<1>4. ConnInv(a, Put(x, p, d), n) /\ d.first = First(p) /\ d.next = First(p)
  BY <1>2, Established DEF a
<1>5. d \in CtxType(a, p) /\ d.flags = c.flags /\ d.st = "ESTABLISHED"
  BY <1>2 DEF CtxIs
<1>6. CASE Done(p, d, n[p], <<>>)
  <2>1. OutOK(a, x, n, p, d, <<>>)
    BY <1>4, <1>5 DEF OutOK
  <2> QED BY <1>6, <2>1 DEF Kept, a
<1>7. CASE Emit(p, d, n[p], {"ACK"}, 0)
  <2>1. CtxIs(a, p, e, "ESTABLISHED", c.act, c.next, c.ackd, c.recv, c.ackable, c.first, c.ofirst, 0, c.flags)
    <3>1. CtxIs(a, p, e, d.st, d.act, d.next + 0, d.ackd, d.recv, d.ackable, d.first, d.ofirst, d.same, d.flags)
      <4>1. 0 \in Nat
        OBVIOUS
      <4> QED BY ONLY <1>5, <4>1, EmittedAck DEF e
    <3>2. d.next + 0 = c.next
      BY <1>2, <1>5 DEF CtxIs, CtxType
    <3> QED BY <1>2, <3>1, <3>2 DEF CtxIs
  <2>2. ConnInv(a, Put(x, p, e), n) /\ HighSent(e) = First(p)
    <3> HIDE DEF e
    <3> QED BY <2>1, Established DEF a
  <2>3. e.st = "ESTABLISHED" /\ OpenC(e) /\ e.flags = c.flags
    BY <2>1 DEF CtxIs, OpenC
  <2>4. SendOK(a, Put(x, p, e), n, p, s) /\ "FIN" \notin s.flags
    <3>1. First(p) \in Nat
      BY DEF First
    <3>2. First(p) <= d.next /\ d.next <= HighSent(e)
      BY <1>4, <2>2, <3>1
    <3> QED BY <1>4, <1>5, <2>2, <2>3, <3>2, AckSent DEF a
  <2> HIDE DEF e, s, c
  <2> QED BY <1>7, <2>2, <2>3, <2>4, EmitKept DEF a, e, s, c
<1> QED BY <1>3, <1>6, <1>7

\* SYN_SENT.
LEMMA SynSentKept ==
  ASSUME PlayedList(Actions), NEW x, NEW n, ConnInv(Actions, x, n), NEW p \in Peers, x[p].st = "SYN_SENT",
         out_syn_sent(p, x[p], n[p])
  PROVE  Kept(Actions, x, n, p)
<1>1. CASE x[p].ackd < x[p].next \/ "SYN" \notin x[p].flags
  <2>1. out_closed(p, [x[p] EXCEPT !.same = @ + 1], n[p])
    BY <1>1 DEF out_syn_sent
  <2> QED BY <1>1, <2>1, SynAgainKept
<1>2. CASE ~ (x[p].ackd < x[p].next) /\ "SYN" \in x[p].flags
  <2>1. x[p].ackd = x[p].next
    BY <1>2 DEF ConnInv, CtxOK, CtxSynSent
  <2>2. LET est == [x[p] EXCEPT !.same = 0, !.st = "ESTABLISHED"] IN
        Done(p, est, n[p], <<>>) \/ Emit(p, est, n[p], {"ACK"}, 0)
    BY <1>2 DEF out_syn_sent
  <2> QED BY <1>2, <2>1, <2>2, EstablishKept
<1> QED BY <1>1, <1>2

\* create_tcp_pkt for the SYN/ACK.
LEMMA EmittedSynAck ==
  ASSUME NEW a, NEW p \in Peers, NEW d \in CtxType(a, p)
  PROVE  LET e == Advanced(d, {"SYN", "ACK"}, 0)  s == Segment(p, d, {"SYN", "ACK"}, 0) IN
         /\ CtxIs(a, p, e, d.st, d.act, d.next + 1, d.ackd, d.recv, d.ackable, d.ackd + 1, d.ofirst, d.same, d.flags)
         /\ s \in SegType /\ s.from = p /\ s.flags = {"SYN", "ACK"} /\ s.seq = d.next /\ s.len = 0 /\ s.ack = d.recv
<1> DEFINE f == {"SYN", "ACK"}
<1>1. f \in SUBSET {"SYN", "ACK", "FIN", "RST"} /\ f \cap {"SYN", "FIN", "RST"} # {} /\ "SYN" \in f /\ "ACK" \in f /\ 0 \in Nat
  OBVIOUS
<1> HIDE DEF f
<1>2. LET e == Advanced(d, f, 0)  s == Segment(p, d, f, 0) IN
      /\ CtxIs(a, p, e, d.st, d.act, d.next + 1, d.ackd, d.recv, d.ackable, d.ackd + 1, d.ofirst, d.same, d.flags)
      /\ s \in SegType /\ s.from = p /\ s.flags = f /\ s.seq = d.next /\ s.len = 0 /\ s.ack = d.recv
  BY <1>1, Emitted DEF CtxIs
<1> QED BY <1>2 DEF f

\* create_tcp_pkt for a RST.
LEMMA ResetIs ==
  ASSUME NEW a, NEW p \in Peers, NEW d \in CtxType(a, p)
  PROVE  LET s == Segment(p, d, {"RST"}, 0) IN s \in SegType /\ s.from = p /\ s.flags = {"RST"}
<1>1. d.next \in Int /\ d.first \in Int /\ d.next - d.first \in Int
  BY DEF CtxType
<1>2. Segment(p, d, {"RST"}, 0) = [from |-> p, flags |-> {"RST"}, seq |-> d.next, ack |-> 0, pos |-> d.next - d.first, len |-> 0]
  BY DEF Segment
<1> QED BY <1>1, <1>2 DEF SegType

\* The SYN/ACK from a context that becomes, or is, SYN_RECEIVED.
LEMMA SynAckKept ==
  ASSUME NEW a, PlayedList(a), NEW x, NEW n, ConnInv(a, x, n), NEW d \in CtxType(a, "server"), d.st = "SYN_RECEIVED", d.next = 200,
         d.recv = x["server"].recv, "FIN" \in d.flags => "FIN" \in x["server"].flags,
         Emit("server", d, n["server"], {"SYN", "ACK"}, 0),
         ConnInv(a, Put(x, "server", Advanced(d, {"SYN", "ACK"}, 0)), n)
  PROVE  Kept(a, x, n, "server")
<1> DEFINE p == "server"
           e == Advanced(d, {"SYN", "ACK"}, 0)  s == Segment(p, d, {"SYN", "ACK"}, 0)
           y == Put(x, p, e)
<1>1. /\ e.st = "SYN_RECEIVED" /\ e.recv = d.recv /\ e.flags = d.flags
      /\ s \in SegType /\ s.from = p /\ s.flags = {"SYN", "ACK"} /\ s.seq = 200 /\ s.len = 0 /\ s.ack = d.recv
  BY EmittedSynAck DEF CtxIs, Peers
<1>2. ConnInv(a, y, n) /\ Emit(p, d, n[p], {"SYN", "ACK"}, 0) /\ p \in Peers
  BY DEF Peers
<1>3. y[p] = e
  <2> HIDE DEF e
  <2> QED BY <1>2 DEF Put
<1> HIDE DEF e, s, y
<1>4. SendOK(a, y, n, p, s)
  <2>1. y["server"].st = "SYN_RECEIVED" /\ s.ack = y["server"].recv
    BY <1>1, <1>3
  <2> QED BY <1>1, <1>2, <2>1, SynAckSent
<1>5. "FIN" \notin s.flags /\ e.st # "GONE" /\ ("FIN" \in e.flags => "FIN" \in x[p].flags)
  BY <1>1
<1> QED BY <1>2, <1>4, <1>5, EmitKept DEF y, e, s

\* LISTEN: the SYN/ACK, or a RST.
LEMMA ListenKept ==
  ASSUME NEW a, PlayedList(a), NEW x, NEW n, ConnInv(a, x, n), NEW p \in Peers, x[p].st = "LISTEN", out_listen(p, x[p], n[p])
  PROVE  Kept(a, x, n, p)
<1> DEFINE c == x[p]
<1>1. CtxOK(a, p, c) /\ c \in CtxType(a, p)
  BY DEF ConnInv, CtxOK
<1>2. p = "server" /\ Other(p) = "client" /\ "client" \in Peers /\ Other("client") = p
  <2>1. c.st \in States(p)
    BY <1>1 DEF CtxType
  <2> QED BY <2>1 DEF States, Peers, Other
<1>3. EarlyOK(x, n) /\ FreshOK(x, n) /\ SynAgain(x, n) /\ ClosedOK(x, n)
  BY DEF ConnInv
<1>4. CASE "SYN" \in c.flags
  <2> DEFINE d == [c EXCEPT !.st = "SYN_RECEIVED", !.next = 200, !.ackd = 200]
             e == Advanced(d, {"SYN", "ACK"}, 0)
             o == x["client"]
  <2>1. Emit(p, d, n[p], {"SYN", "ACK"}, 0)
    BY SMTT(60), <1>4 DEF out_listen
  <2> HIDE DEF c
  <2>2. CtxIs(a, p, d, "SYN_RECEIVED", c.act, 200, 200, c.recv, c.ackable, c.first, c.ofirst, c.same, c.flags)
    <3>1. "SYN_RECEIVED" \in States(p) /\ 200 \in Int /\ 0 \in Nat /\ {} \in SUBSET CtxFlags
      BY <1>2 DEF States
    <3> QED BY ONLY ZenonT(60), <1>1, <3>1, ContextsMade
  <2> HIDE DEF d
  <2>3. /\ e \in CtxType(a, p) /\ e.st = "SYN_RECEIVED" /\ e.act = c.act /\ e.next = 201 /\ e.ackd = 200 /\ e.recv = c.recv
        /\ e.ackable = c.ackable /\ e.first = 201 /\ e.ofirst = c.ofirst /\ e.flags = c.flags
    BY <2>2, EmittedSynAck DEF CtxIs
  <2> HIDE DEF e
  <2>4. c.st = "LISTEN" /\ Known(c) /\ Fresh(x, n)
    <3>1. c.st = "LISTEN" /\ Known(c)
      BY <1>4 DEF Known, c
    <3> QED BY <1>2, <3>1 DEF Fresh, c
  <2>5. OpenC(e) /\ Sending(e) /\ HighSent(e) = 201 /\ Known(e) /\ c.ackable = 0
    BY <1>1, <1>4, <2>3, <2>4 DEF CtxOK, OpenC, Sending, HighSent, Known
  <2>6. CtxOK(a, p, e)
    <3>1. CtxKnown(a, p, e)
      BY <1>1, <1>4, <2>3 DEF CtxOK, CtxKnown, Played
    <3>2. CtxListen(a, p, e)
      BY <1>1, <2>3, <2>4 DEF CtxOK, CtxListen
    <3> QED BY <1>2, <1>4, <2>3, <2>5, <3>1, <3>2 DEF CtxOK, CtxSynSent, CtxEstablished, CtxClosing, Closing, First
  <2>7. Calm(c, e)
    BY <2>3, <2>4 DEF Calm
  <2>8. Nothing(o) /\ (\A s \in Segs(n["server"]) : "ACK" \in s.flags => s.ack <= 201) /\ (\A s \in Segs(n["client"]) : ~ Plain(s))
    BY <1>3, <2>4 DEF FreshOK
  <2>9. AckedGot(e, o) /\ GotSent(e, o)
    BY <2>3, <2>5, <2>8 DEF AckedGot, GotSent, Nothing
  <2>10. AcksSent(e, n["server"]) /\ DataSent(e, n["client"])
    BY <2>5, <2>8 DEF AcksSent, DataSent
  <2>11. PhaseOK(x, n, p, c, e)
    <3>1. Early(x, n) => ServerEarly(e)
      BY <1>2, <1>3, <2>3, <2>4, <2>5 DEF EarlyOK, ServerEarly, c
    <3> QED BY <1>2, <2>3, <2>4, <3>1 DEF PhaseOK
  <2>12. ConnInv(a, Put(x, p, e), n)
    BY <1>2, <2>6, <2>7, <2>9, <2>10, <2>11, CalmChange DEF c, o
  <2>13. d \in CtxType(a, "server") /\ d.st = "SYN_RECEIVED" /\ d.next = 200 /\ d.recv = c.recv /\ d.flags = c.flags
    BY <1>2, <2>2 DEF CtxIs
  <2> QED BY <1>2, <2>1, <2>12, <2>13, SynAckKept DEF c, e
<1>5. CASE "SYN" \notin c.flags
  <2> DEFINE s == Segment(p, c, {"RST"}, 0)
             y == Put(x, p, Gone)
  <2>1. End(p, "reset", n[p], <<s>>)
    BY <1>5 DEF out_listen
  <2>2. s \in SegType /\ s.from = p /\ s.flags = {"RST"}
    BY <1>1, ResetIs
  <2>3. ConnInv(a, y, n)
    BY ContextFreed
  <2>4. y[p].st = "GONE" /\ y[Other(p)].st # "CLOSED"
    <3>1. y[p].st = "GONE" /\ y[Other(p)] = x["client"]
      BY <1>2 DEF Put, Gone
    <3> QED BY <1>2, <1>3, <3>1 DEF ClosedOK
  <2> HIDE DEF s
  <2>5. SendOK(a, y, n, p, s)
    BY <2>2, <2>3, <2>4, ResetSent
  <2>6. EndOK(a, x, n, p, "reset", <<s>>)
    BY <2>2, <2>5 DEF EndOK
  <2> QED BY <2>1, <2>6 DEF Kept
<1> QED BY <1>4, <1>5

\* SYN_RECEIVED.
LEMMA SynRecvKept ==
  ASSUME PlayedList(Actions), NEW x, NEW n, ConnInv(Actions, x, n), NEW p \in Peers, x[p].st = "SYN_RECEIVED",
         out_syn_recv(p, x[p], n[p])
  PROVE  Kept(Actions, x, n, p)
<1> DEFINE a == Actions
           c == x[p]
<1>1. CtxOK(a, p, c) /\ c \in CtxType(a, p)
  BY DEF ConnInv, CtxOK
<1>2. p = "server" /\ "SYN" \in c.flags /\ c.first = 201 /\ c.next = 201 /\ c.ackd \in {200, 201}
  <2>1. c.st \in States(p)
    BY <1>1 DEF CtxType
  <2>2. p = "server"
    BY <2>1 DEF States, Peers
  <2> QED BY <1>1, <2>2 DEF CtxOK, OpenC, CtxListen, First
<1>3. CASE c.ackd = c.next
  <2>1. LET est == [x[p] EXCEPT !.same = 0, !.st = "ESTABLISHED"] IN
        Done(p, est, n[p], <<>>) \/ Emit(p, est, n[p], {"ACK"}, 0)
    BY <1>3 DEF out_syn_recv
  <2> QED BY <1>2, <1>3, <2>1, EstablishKept
<1>4. CASE c.ackd # c.next
  <2> DEFINE d == Again(c)
             e == Advanced(d, {"SYN", "ACK"}, 0)
             h == c.same + 1
             m == c.ackd
  <2>1. Emit(p, d, n[p], {"SYN", "ACK"}, 0)
    BY <1>4 DEF out_syn_recv
  <2>2. m = 200
    BY <1>2, <1>4
  <2>3. d = [c EXCEPT !.same = h, !.next = m]
    BY DEF Again
  <2>4. h \in Nat /\ m \in Int /\ c.st = "SYN_RECEIVED"
    BY <1>1, <2>2 DEF CtxType
  <2> HIDE DEF c, h, m, d, a
  <2>5. CtxIs(a, p, d, c.st, c.act, m, c.ackd, c.recv, c.ackable, c.first, c.ofirst, h, c.flags)
    <3>1. c.st \in States(p) /\ {} \in SUBSET CtxFlags
      BY <1>1 DEF CtxType
    <3> QED BY ONLY <1>1, <2>3, <2>4, <3>1, ContextsMade
  <2>6. CtxIs(a, p, e, c.st, c.act, 201, c.ackd, c.recv, c.ackable, 201, c.ofirst, h, c.flags)
    <3>1. CtxIs(a, p, e, d.st, d.act, d.next + 1, d.ackd, d.recv, d.ackable, d.ackd + 1, d.ofirst, d.same, d.flags)
      BY <2>5, EmittedSynAck DEF CtxIs
    <3>2. d.next = 200 /\ d.ackd = 200
      BY <2>2, <2>5 DEF CtxIs, m
    <3>3. d.next + 1 = 201 /\ d.ackd + 1 = 201
      BY <3>2
    <3> QED BY <2>5, <3>1, <3>3 DEF CtxIs
  <2> HIDE DEF e
  <2>7. Alike(c, e)
    BY <1>2, <2>4, <2>6 DEF Alike, Calm, CtxIs
  <2>8. ConnInv(a, Put(x, p, e), n)
    BY <2>4, <2>6, <2>7, AlikeChange DEF CtxIs, c, a
  <2>9. d \in CtxType(a, "server") /\ d.st = "SYN_RECEIVED" /\ d.next = 200 /\ d.recv = c.recv /\ d.flags = c.flags
    BY <1>2, <2>2, <2>4, <2>5 DEF CtxIs
  <2> QED BY <1>2, <2>1, <2>8, <2>9, SynAckKept DEF c, e, a
<1> QED BY <1>3, <1>4

\* A step from a context that was changed first.
LEMMA KeptAgain ==
  ASSUME NEW a, NEW x, NEW n, NEW p \in Peers, NEW b, Kept(a, Put(x, p, b), n, p), "FIN" \in b.flags => "FIN" \in x[p].flags
  PROVE  Kept(a, x, n, p)
<1> DEFINE y == Put(x, p, b)
<1>1. y[p] = b
  BY DEF Put
<1>2. \A e : Put(y, p, e) = Put(x, p, e)
  BY PutTwice
<1> HIDE DEF y
<1>3. \A e, out : OutOK(a, y, n, p, e, out) => OutOK(a, x, n, p, e, out)
  <2> SUFFICES ASSUME NEW e, NEW out, OutOK(a, y, n, p, e, out) PROVE OutOK(a, x, n, p, e, out)
    OBVIOUS
  <2>1. Put(y, p, e) = Put(x, p, e)
    BY <1>2
  <2> QED BY <1>1, <2>1 DEF OutOK
<1>4. \A how, out : EndOK(a, y, n, p, how, out) => EndOK(a, x, n, p, how, out)
  <2> SUFFICES ASSUME NEW how, NEW out, EndOK(a, y, n, p, how, out) PROVE EndOK(a, x, n, p, how, out)
    OBVIOUS
  <2>1. Put(y, p, Gone) = Put(x, p, Gone)
    BY <1>2
  <2> QED BY <1>1, <2>1 DEF EndOK
<1>5. Kept(a, y, n, p)
  BY DEF y
<1> QED BY <1>3, <1>4, <1>5 DEF Kept

\* A context that goes on sending: CalmChange with SideKept.
LEMMA OpenChange ==
  ASSUME NEW a, PlayedList(a), NEW x, NEW n, ConnInv(a, x, n), NEW p \in Peers, OpenC(x[p]), x[p].st # "SYN_RECEIVED",
         NEW e, CtxOK(a, p, e), OpenC(e), e.st # "SYN_RECEIVED",
         e.recv = x[p].recv, e.ackd = x[p].ackd, "FIN" \in e.flags <=> "FIN" \in x[p].flags, HighSent(e) >= HighSent(x[p])
  PROVE  ConnInv(a, Put(x, p, e), n)
<1> DEFINE c == x[p]  d == x[Other(p)]
<1>1. c.st # "GONE" /\ e.st # "GONE"
  BY DEF OpenC
<1>2. CtxOK(a, p, c)
  BY <1>1 DEF ConnInv
<1>3. "SYN" \in c.flags /\ "SYN" \in e.flags
  BY <1>2 DEF CtxOK
<1>4. Sending(c) /\ Sending(e)
  BY DEF Sending
<1>5. HighSent(c) \in Int /\ HighSent(e) \in Int
  <2> HIDE DEF c
  <2> QED BY <1>2, <1>4, HighFirst
<1>6. Calm(c, e)
  BY <1>1, <1>3 DEF Calm
<1>7. PhaseOK(x, n, p, c, e)
  <2>1. e.st # "CLOSED" /\ e.st # "SYN_SENT" /\ e.st # "LISTEN"
    BY DEF OpenC
  <2> QED BY <2>1, ServerNotEarly DEF PhaseOK
<1>8. AckedGot(e, d)
  <2>1. AckedGot(c, d)
    BY DEF ConnInv, Pair
  <2> QED BY <2>1 DEF AckedGot
<1>9. GotSent(e, d) /\ AcksSent(e, n[p]) /\ DataSent(e, n[Other(p)])
  BY <1>4, <1>5, SideKept
<1> HIDE DEF c, d
<1> QED BY <1>6, <1>7, <1>8, <1>9, CalmChange DEF c, d

\* The FIN, sent or sent again.
LEMMA FinSentKept ==
  ASSUME NEW a, PlayedList(a), NEW x, NEW n, NEW p \in Peers, NEW d \in CtxType(a, p), Emit(p, d, n[p], {"FIN", "ACK"}, 0),
         ConnInv(a, Put(x, p, Advanced(d, {"FIN", "ACK"}, 0)), n), d.st \in Closing, d.first = First(p), d.ackable = 0,
         d.next = First(p) + Total(a, p), d.act = Len(a), d.ackd >= First(p) + Total(a, p),
         "FIN" \in d.flags => "FIN" \in x[p].flags
  PROVE  Kept(a, x, n, p)
<1> DEFINE e == Advanced(d, {"FIN", "ACK"}, 0)  s == Segment(p, d, {"FIN", "ACK"}, 0)
           y == Put(x, p, e)
<1>1. /\ CtxIs(a, p, e, d.st, d.act, d.next + 1, d.ackd, d.recv, d.ackable, d.first, d.ofirst, d.same, d.flags)
      /\ s \in SegType /\ s.from = p /\ s.flags = {"FIN", "ACK"} /\ s.seq = d.next /\ s.pos = d.next - d.first /\ s.len = 0
      /\ s.ack = d.recv
  BY EmittedFin
<1>2. First(p) \in Nat /\ Total(a, p) \in Nat
  <2>1. Len(a) \in 1 .. Len(a) /\ \A i \in 1 .. Len(a) : Before(a, p)[i] \in Nat
    BY BeforeIs
  <2> QED BY <2>1 DEF First, Total
<1> HIDE DEF e, s
<1>3. y[p] = e
  BY DEF Put
<1>4. e.st \in Closing /\ e.ackable = 0 /\ e.next = d.next + 1 /\ e.recv = d.recv /\ e.act = Len(a) /\ e.ackd = d.ackd /\ e.flags = d.flags
  BY <1>1 DEF CtxIs
<1>5. OpenC(e) /\ e.st # "SYN_RECEIVED" /\ e.st # "GONE" /\ HighSent(e) = d.next + 1
  BY <1>4 DEF OpenC, Closing, HighSent
<1>6. ConnInv(a, y, n)
  BY DEF e
<1> HIDE DEF y
<1>7. /\ s \in SegType /\ s.from = p /\ Plain(s) /\ "RST" \notin s.flags /\ s.ack = y[p].recv /\ s.seq = First(p) + s.pos /\ s.pos >= 0
      /\ s.seq + s.len + Fin(s.flags) <= HighSent(y[p]) /\ ~ (s.len > 0)
      /\ s.len = 0 /\ s.pos = Total(a, p) /\ y[p].act = Len(a) /\ y[p].ackd >= First(p) + Total(a, p)
  <2>1. s.pos = Total(a, p) /\ s.seq = First(p) + Total(a, p) /\ Fin(s.flags) = 1
    BY <1>1, <1>2 DEF Fin
  <2>2. s.seq + s.len + Fin(s.flags) <= HighSent(y[p])
    BY <1>1, <1>2, <1>3, <1>5, <2>1
  <2> QED BY <1>1, <1>2, <1>3, <1>4, <2>1, <2>2 DEF Plain
<1>8. SendOK(a, y, n, p, s)
  <2>1. PlayedList(a) /\ p \in Peers /\ OpenC(y[p]) /\ y[p].st # "SYN_RECEIVED"
    BY <1>3, <1>5
  <2> QED BY ONLY <1>6, <1>7, <2>1, PlainSent
<1> QED BY <1>4, <1>5, <1>6, <1>8, EmitKept DEF y, e, s

\* ESTABLISHED, the last action: the FIN.
LEMMA CloseKept ==
  ASSUME NEW a, PlayedList(a), NEW x, NEW n, ConnInv(a, x, n), NEW p \in Peers, x[p].st = "ESTABLISHED", x[p].act = Len(a),
         NEW h, NEW t \in {"FIN_WAIT", "LAST_ACK"}, t = "LAST_ACK" <=> a[Len(a)].peer # p, t = "LAST_ACK" => "FIN" \in x[p].flags,
         NEW d, LET c == x[p] IN
                CtxIs(a, p, d, t, c.act, c.next, c.ackd, c.recv, c.ackable, c.first, c.ofirst, h, c.flags),
         Emit(p, d, n[p], {"FIN", "ACK"}, 0)
  PROVE  Kept(a, x, n, p)
<1> DEFINE c == x[p]
           e == Advanced(d, {"FIN", "ACK"}, 0)
<1>1. CtxOK(a, p, c) /\ c \in CtxType(a, p) /\ OpenC(c) /\ Total(a, p) \in Nat /\ First(p) \in Nat
      /\ a[Len(a)].len = 0
  <2>1. CtxOK(a, p, c)
    BY DEF ConnInv
  <2>2. Total(a, p) \in Nat /\ First(p) \in Nat
    <3> HIDE DEF c
    <3> QED BY <2>1, ContextIs
  <2> QED BY <2>1, <2>2, BytesOf DEF CtxOK, OpenC
<1>2. c.ackable = 0 /\ c.ackd = First(p) + Total(a, p) /\ c.next = First(p) + Total(a, p) /\ c.first = First(p) /\ "SYN" \in c.flags
  <2>1. c.ackable = 0
    BY <1>1 DEF CtxOK, CtxEstablished
  <2> QED BY <1>1, <2>1 DEF CtxOK, CtxEstablished, Base, Total
<1>3. CtxIs(a, p, d, t, c.act, c.next, c.ackd, c.recv, c.ackable, c.first, c.ofirst, h, c.flags) /\ c.act = Len(a)
      /\ (t = "LAST_ACK" => "FIN" \in c.flags) /\ c.st = "ESTABLISHED"
  OBVIOUS
<1> HIDE DEF c
<1>4. d \in CtxType(a, p)
  BY <1>3 DEF CtxIs
<1>5. CtxIs(a, p, e, d.st, d.act, d.next + 1, d.ackd, d.recv, d.ackable, d.first, d.ofirst, d.same, d.flags)
  BY <1>4, EmittedFin
<1> HIDE DEF e
<1>6. /\ e \in CtxType(a, p) /\ e.st = t /\ e.act = Len(a) /\ e.next = First(p) + Total(a, p) + 1 /\ e.ackd = First(p) + Total(a, p)
      /\ e.recv = c.recv /\ e.ackable = 0 /\ e.first = First(p) /\ e.ofirst = c.ofirst /\ e.flags = c.flags
  BY <1>2, <1>3, <1>5 DEF CtxIs
<1>7. t \in Closing /\ OpenC(e) /\ e.st # "SYN_RECEIVED"
  BY <1>6 DEF OpenC, Closing
<1>8. CtxOK(a, p, e)
  <2>1. CtxKnown(a, p, e)
    BY <1>1, <1>2, <1>3, <1>6 DEF CtxOK, CtxKnown, Played
  <2>2. CtxClosing(a, p, e)
    <3>1. e.ackd \in {e.next - 1, e.next}
      BY <1>1, <1>6
    <3> QED BY <1>3, <1>6, <3>1 DEF CtxClosing, Closer
  <2> QED BY <1>2, <1>6, <2>1, <2>2 DEF CtxOK, CtxSynSent, CtxListen, CtxEstablished
<1>9. ConnInv(a, Put(x, p, e), n)
  <2>1. HighSent(e) >= HighSent(c)
    BY <1>1, <1>2, <1>6 DEF HighSent
  <2>2. /\ OpenC(x[p]) /\ x[p].st # "SYN_RECEIVED" /\ e.recv = x[p].recv /\ e.ackd = x[p].ackd /\ HighSent(e) >= HighSent(x[p])
        /\ ("FIN" \in e.flags <=> "FIN" \in x[p].flags)
    BY <1>1, <1>2, <1>6, <2>1 DEF c
  <2> QED BY <1>7, <1>8, <2>2, OpenChange
<1>10. /\ d.st \in Closing /\ d.first = First(p) /\ d.ackable = 0 /\ d.next = First(p) + Total(a, p) /\ d.act = Len(a)
       /\ d.ackd >= First(p) + Total(a, p) /\ ("FIN" \in d.flags => "FIN" \in x[p].flags)
  BY <1>1, <1>2, <1>3, <1>7 DEF CtxIs, c
<1> QED BY <1>4, <1>9, <1>10, FinSentKept DEF e

\* A flag of the scheduler is cleared.
LEMMA FlagCleared ==
  ASSUME NEW a, NEW p, NEW c \in CtxType(a, p), c.st # "GONE", NEW f \in {"NEW_DATA", "MORE_DATA", "PROGRESS"}
  PROVE  LET e == [c EXCEPT !.flags = @ \ {f}] IN Alike(c, e) /\ e \in CtxType(a, p)
<1> DEFINE g == c.flags \ {f}
           e == [c EXCEPT !.flags = @ \ {f}]
<1>1. c.st \in States(p) /\ 0 \in Int /\ 0 \in Nat
  BY DEF CtxType
<1>2. g \in SUBSET CtxFlags /\ ("SYN" \in g <=> "SYN" \in c.flags) /\ ("FIN" \in g <=> "FIN" \in c.flags)
  BY SMTT(60) DEF CtxType
<1>3. e = [c EXCEPT !.flags = g]
  OBVIOUS
<1> HIDE DEF g, e
<1>4. CtxIs(a, p, e, c.st, c.act, c.next, c.ackd, c.recv, c.ackable, c.first, c.ofirst, c.same, g)
  BY ONLY <1>1, <1>2, <1>3, ContextsMade
<1>5. Alike(c, e) /\ e \in CtxType(a, p)
  BY <1>2, <1>4 DEF CtxIs, Alike, Calm
<1> QED BY <1>5 DEF e

\* A context whose FIN was sent.
LEMMA ClosingIs ==
  ASSUME NEW a, PlayedList(a), NEW x, NEW n, ConnInv(a, x, n), NEW p \in Peers, x[p].st \in Closing
  PROVE  LET c == x[p]  t == First(p) + Total(a, p) IN
         /\ CtxOK(a, p, c) /\ c \in CtxType(a, p) /\ OpenC(c) /\ c.st # "GONE" /\ c.st # "CLOSED" /\ c.st # "SYN_RECEIVED"
         /\ t \in Nat /\ c.act = Len(a) /\ c.next = t + 1 /\ (c.ackd # c.next => c.ackd = t) /\ c.ackd >= t
         /\ c.first = First(p) /\ c.ackable = 0 /\ (c.st # "FIN_WAIT" => "FIN" \in c.flags)
         /\ (c.st = "LAST_ACK" <=> Closer(a) # p) /\ First(p) \in Nat
<1> DEFINE c == x[p]  t == First(p) + Total(a, p)
<1>1. OpenC(c) /\ c.st # "GONE" /\ c.st # "CLOSED" /\ c.st # "SYN_RECEIVED" /\ c.st # "ESTABLISHED"
  BY DEF Closing, OpenC
<1>2. CtxOK(a, p, c) /\ c \in CtxType(a, p)
  BY <1>1 DEF ConnInv, CtxOK
<1>3. t \in Nat /\ First(p) \in Nat
  <2>1. Total(a, p) \in Nat /\ First(p) \in Nat
    <3> HIDE DEF c
    <3> QED BY <1>2, ContextIs
  <2> QED BY <2>1
<1>4. /\ c.act = Len(a) /\ c.next = t + 1 /\ c.ackd \in {c.next - 1, c.next}
      /\ (c.st = "LAST_ACK" <=> Closer(a) # p) /\ (c.st # "FIN_WAIT" => "FIN" \in c.flags)
  BY <1>2 DEF CtxOK, CtxClosing
<1>5. c.first = First(p) /\ c.ackable = 0
  BY <1>1, <1>2 DEF CtxOK
<1> HIDE DEF c, t
<1>6. (c.ackd # c.next => c.ackd = t) /\ c.ackd >= t
  BY <1>3, <1>4
<1> QED BY <1>1, <1>2, <1>3, <1>4, <1>5, <1>6 DEF c, t

\* The FIN again.
LEMMA FinAgainKept ==
  ASSUME NEW a, PlayedList(a), NEW x, NEW n, ConnInv(a, x, n), NEW p \in Peers, x[p].st \in Closing, x[p].ackd # x[p].next,
         FinAgain(p, x[p], n[p])
  PROVE  Kept(a, x, n, p)
<1> DEFINE c == x[p]  t == First(p) + Total(a, p)
<1>1. /\ CtxOK(a, p, c) /\ c \in CtxType(a, p) /\ OpenC(c) /\ c.st # "GONE" /\ c.st # "CLOSED"
      /\ t \in Nat /\ c.act = Len(a) /\ c.next = t + 1 /\ (c.ackd # c.next => c.ackd = t) /\ c.ackd >= t
      /\ c.first = First(p) /\ c.ackable = 0
  BY ClosingIs
<1>2. CASE "PROGRESS" \in c.flags
  <2> DEFINE e == [c EXCEPT !.flags = @ \ {"PROGRESS"}]
  <2>1. Done(p, e, n[p], <<>>)
    BY <1>2 DEF FinAgain
  <2>2. Alike(c, e) /\ e \in CtxType(a, p)
    BY <1>1, FlagCleared
  <2> HIDE DEF e
  <2> QED BY <1>1, <2>1, <2>2, QuietKept
<1>3. CASE "PROGRESS" \notin c.flags
  <2> DEFINE d == Again(c)
             e == Advanced(d, {"FIN", "ACK"}, 0)
             h == c.same + 1
             m == c.ackd
  <2>1. Emit(p, d, n[p], {"FIN", "ACK"}, 0)
    BY <1>3 DEF FinAgain
  <2>2. m = t
    BY <1>1
  <2>3. d = [c EXCEPT !.same = h, !.next = m]
    BY DEF Again
  <2>4. h \in Nat /\ m \in Int /\ c.st \in States(p) /\ {} \in SUBSET CtxFlags
    BY SMTT(60), <1>1, <2>2 DEF CtxType
  <2>0. c.st \in Closing /\ c \in CtxType(a, p)
    BY <1>1
  <2> HIDE DEF c, h, m, d, t
  <2>5. CtxIs(a, p, d, c.st, c.act, m, c.ackd, c.recv, c.ackable, c.first, c.ofirst, h, c.flags)
    BY ONLY <2>0, <2>3, <2>4, ContextsMade
  <2>6. CtxIs(a, p, e, c.st, c.act, c.next, c.ackd, c.recv, c.ackable, c.first, c.ofirst, h, c.flags)
    <3>1. CtxIs(a, p, e, d.st, d.act, d.next + 1, d.ackd, d.recv, d.ackable, d.first, d.ofirst, d.same, d.flags)
      <4>1. d \in CtxType(a, p)
        BY <2>5 DEF CtxIs
      <4> QED BY <4>1, EmittedFin
    <3>2. d.next + 1 = c.next
      BY <1>1, <2>2, <2>5 DEF CtxIs
    <3> QED BY <2>5, <3>1, <3>2 DEF CtxIs
  <2> HIDE DEF e
  <2>7. Alike(c, e)
    BY <1>1, <2>6 DEF Alike, Calm, CtxIs
  <2>8. ConnInv(a, Put(x, p, e), n)
    BY <1>1, <2>6, <2>7, AlikeChange DEF CtxIs, c
  <2>9. /\ d \in CtxType(a, p) /\ d.st \in Closing /\ d.first = First(p) /\ d.ackable = 0 /\ d.next = First(p) + Total(a, p)
        /\ d.act = Len(a) /\ d.ackd >= First(p) + Total(a, p) /\ ("FIN" \in d.flags => "FIN" \in x[p].flags)
    BY <1>1, <2>0, <2>2, <2>5 DEF CtxIs, c, t
  <2> QED BY <2>1, <2>8, <2>9, FinSentKept DEF e
<1> QED BY <1>2, <1>3

\* LAST_ACK.
LEMMA LastAckKept ==
  ASSUME NEW a, PlayedList(a), NEW x, NEW n, ConnInv(a, x, n), NEW p \in Peers, x[p].st = "LAST_ACK", out_last_ack(p, x[p], n[p])
  PROVE  Kept(a, x, n, p)
<1>1. x[p].st \in Closing
  BY DEF Closing
<1>2. CASE x[p].ackd = x[p].next
  <2>1. End(p, "finished", n[p], <<>>)
    BY <1>2 DEF out_last_ack
  <2>2. "FIN" \in x[p].flags
    BY <1>1, ClosingIs
  <2> QED BY <2>1, <2>2, EndKept
<1>3. CASE x[p].ackd # x[p].next
  <2>1. FinAgain(p, x[p], n[p])
    BY <1>3 DEF out_last_ack
  <2> QED BY <1>1, <1>3, <2>1, FinAgainKept
<1> QED BY <1>2, <1>3

\* An ACK from a context that otherwise stays.
LEMMA AckAgainKept ==
  ASSUME NEW a, PlayedList(a), NEW x, NEW n, ConnInv(a, x, n), NEW p \in Peers, OpenC(x[p]), x[p].st # "SYN_RECEIVED",
         NEW d \in CtxType(a, p), Alike(x[p], d), Emit(p, d, n[p], {"ACK"}, 0),
         First(p) <= x[p].next, x[p].next <= HighSent(x[p])
  PROVE  Kept(a, x, n, p)
<1> DEFINE c == x[p]
           e == Advanced(d, {"ACK"}, 0)
           s == Segment(p, d, {"ACK"}, 0)
<1>1. CtxIs(a, p, e, d.st, d.act, d.next + 0, d.ackd, d.recv, d.ackable, d.first, d.ofirst, d.same, d.flags)
  <2>1. 0 \in Nat
    OBVIOUS
  <2> QED BY <2>1, EmittedAck
<1> HIDE DEF e, s
<1>2. d.next + 0 = d.next
  BY DEF CtxType
<1>3. Alike(c, e) /\ e \in CtxType(a, p) /\ e.st = c.st /\ HighSent(e) = HighSent(c)
  BY <1>1, <1>2 DEF CtxIs, Alike, Calm, HighSent
<1>4. c.st # "CLOSED" /\ OpenC(e) /\ e.st # "SYN_RECEIVED" /\ e.st # "GONE" /\ ("FIN" \in e.flags => "FIN" \in c.flags)
  BY <1>3 DEF OpenC, Alike, Calm
<1>5. ConnInv(a, Put(x, p, e), n)
  BY <1>3, <1>4, AlikeChange
<1>6. d.first = First(p) /\ First(p) <= d.next /\ d.next <= HighSent(e)
  <2>1. c.first = First(p)
    <3>1. c.st # "GONE"
      BY DEF OpenC
    <3> QED BY <3>1 DEF ConnInv, CtxOK
  <2> QED BY <1>3, <2>1 DEF Alike
<1>7. SendOK(a, Put(x, p, e), n, p, s) /\ "FIN" \notin s.flags
  BY <1>4, <1>5, <1>6, AckSent DEF e, s
<1> QED BY <1>4, <1>5, <1>7, EmitKept DEF e, s

\* TIME_WAIT.
LEMMA TimeWaitKept ==
  ASSUME NEW a, PlayedList(a), NEW x, NEW n, ConnInv(a, x, n), NEW p \in Peers, x[p].st = "TIME_WAIT", out_time_wait(p, x[p], n[p])
  PROVE  Kept(a, x, n, p)
<1> DEFINE c == x[p]
<1>1. c.st \in Closing
  BY DEF Closing
<1>2. /\ c \in CtxType(a, p) /\ OpenC(c) /\ c.st # "SYN_RECEIVED" /\ c.first = First(p) /\ c.ackable = 0
      /\ "FIN" \in c.flags /\ First(p) <= c.next /\ c.next <= HighSent(c)
  <2>1. /\ c \in CtxType(a, p) /\ OpenC(c) /\ c.st # "SYN_RECEIVED" /\ c.first = First(p) /\ c.ackable = 0
        /\ "FIN" \in c.flags /\ c.next = First(p) + Total(a, p) + 1 /\ First(p) + Total(a, p) \in Nat /\ First(p) \in Nat
    BY <1>1, ClosingIs
  <2>2. Total(a, p) \in Nat
    <3>1. Len(a) \in 1 .. Len(a) /\ \A i \in 1 .. Len(a) : Before(a, p)[i] \in Nat
      BY BeforeIs
    <3> QED BY <3>1 DEF Total
  <2>3. First(p) <= c.next /\ c.next <= HighSent(c)
    BY <2>1, <2>2 DEF HighSent
  <2> QED BY <2>1, <2>3
<1>3. CASE End(p, "finished", n[p], <<>>)
  BY <1>2, <1>3, EndKept
<1>4. CASE Emit(p, c, n[p], {"ACK"}, 0)
  <2>1. Alike(c, c)
    BY <1>2 DEF Alike, Calm, OpenC
  <2> QED BY <1>2, <1>4, <2>1, AckAgainKept
<1> QED BY <1>3, <1>4 DEF out_time_wait

\* FIN_WAIT.
LEMMA FinWaitKept ==
  ASSUME NEW a, PlayedList(a), NEW x, NEW n, ConnInv(a, x, n), NEW p \in Peers, x[p].st = "FIN_WAIT", out_fin_wait(p, x[p], n[p])
  PROVE  Kept(a, x, n, p)
<1> DEFINE c == x[p]  t == First(p) + Total(a, p)
<1>1. c.st \in Closing
  BY DEF Closing
<1>2. /\ CtxOK(a, p, c) /\ c \in CtxType(a, p) /\ OpenC(c) /\ c.st # "GONE" /\ c.st # "CLOSED" /\ c.st # "SYN_RECEIVED"
      /\ t \in Nat /\ c.act = Len(a) /\ c.next = t + 1 /\ c.ackd >= t
      /\ c.first = First(p) /\ c.ackable = 0 /\ (c.st = "LAST_ACK" <=> Closer(a) # p) /\ First(p) \in Nat
  BY <1>1, ClosingIs
<1>3. CASE c.ackd # c.next
  <2>1. FinAgain(p, c, n[p])
    BY <1>3 DEF out_fin_wait
  <2> QED BY <1>1, <1>3, <2>1, FinAgainKept
<1>4. CASE c.ackd = c.next /\ "FIN" \in c.flags
  <2> DEFINE d == [c EXCEPT !.same = 0, !.st = "TIME_WAIT"]
             e == Advanced(d, {"ACK"}, 0)
             s == Segment(p, d, {"ACK"}, 0)
  <2>1. Emit(p, d, n[p], {"ACK"}, 0)
    BY <1>4 DEF out_fin_wait
  <2>2. "TIME_WAIT" \in States(p) /\ 0 \in Nat /\ 0 \in Int /\ {} \in SUBSET CtxFlags
    BY DEF States
  <2>x. c.st = "FIN_WAIT" /\ c \in CtxType(a, p)
    BY SMTT(60), <1>2
  <2> HIDE DEF c
  <2>3. CtxIs(a, p, d, "TIME_WAIT", c.act, c.next, c.ackd, c.recv, c.ackable, c.first, c.ofirst, 0, c.flags)
    BY ONLY <2>x, <2>2, ContextsMade
  <2> HIDE DEF d
  <2>4. CtxIs(a, p, e, "TIME_WAIT", c.act, c.next, c.ackd, c.recv, c.ackable, c.first, c.ofirst, 0, c.flags)
    <3>1. CtxIs(a, p, e, d.st, d.act, d.next + 0, d.ackd, d.recv, d.ackable, d.first, d.ofirst, d.same, d.flags)
      <4>1. 0 \in Nat /\ d \in CtxType(a, p)
        BY <2>3 DEF CtxIs
      <4> QED BY <4>1, EmittedAck
    <3>2. d.next + 0 = c.next
      BY <1>2, <2>3 DEF CtxIs
    <3> QED BY <2>3, <3>1, <3>2 DEF CtxIs
  <2> HIDE DEF e, s
  <2>5. /\ e \in CtxType(a, p) /\ e.st = "TIME_WAIT" /\ e.act = c.act /\ e.next = c.next /\ e.ackd = c.ackd
        /\ e.recv = c.recv /\ e.ackable = 0 /\ e.first = First(p) /\ e.ofirst = c.ofirst /\ e.flags = c.flags
    BY <1>2, <2>4 DEF CtxIs
  <2>6. OpenC(e) /\ e.st # "SYN_RECEIVED" /\ e.st # "GONE" /\ HighSent(e) = c.next /\ HighSent(c) = c.next
    BY <1>2, <2>5 DEF OpenC, HighSent
  <2>7. CtxOK(a, p, e)
    <3>1. "SYN" \in c.flags
      BY <1>2 DEF CtxOK
    <3>2. CtxKnown(a, p, e)
      BY <1>2, <2>5, <3>1 DEF CtxOK, CtxKnown, Played
    <3>3. CtxClosing(a, p, e)
      BY <1>2, <1>4, <2>5, <2>x DEF CtxOK, CtxClosing, Closing
    <3> QED BY <2>5, <3>1, <3>2, <3>3 DEF CtxOK, CtxSynSent, CtxListen, CtxEstablished
  <2>8. ConnInv(a, Put(x, p, e), n)
    <3>1. HighSent(e) >= HighSent(x[p])
      BY <1>2, <2>6 DEF c
    <3> QED BY <1>2, <2>5, <2>6, <2>7, <3>1, OpenChange DEF c
  <2>9. d.first = First(p) /\ First(p) <= d.next /\ d.next <= HighSent(e) /\ d \in CtxType(a, p)
    <3>1. d.first = First(p) /\ d.next = c.next /\ d \in CtxType(a, p)
      BY <1>2, <2>3 DEF CtxIs
    <3>2. First(p) <= c.next /\ c.next <= c.next
      <4>1. Total(a, p) \in Nat
        <5>1. Len(a) \in 1 .. Len(a) /\ \A i \in 1 .. Len(a) : Before(a, p)[i] \in Nat
          BY BeforeIs
        <5> QED BY <5>1 DEF Total
      <4> QED BY <1>2, <4>1
    <3> QED BY <2>6, <3>1, <3>2
  <2>10. SendOK(a, Put(x, p, e), n, p, s) /\ "FIN" \notin s.flags
    BY <2>6, <2>8, <2>9, AckSent DEF e, s
  <2> QED BY <2>1, <2>5, <2>6, <2>8, <2>10, EmitKept DEF e, s, c
<1>5. CASE c.ackd = c.next /\ "FIN" \notin c.flags
  <2>1. Done(p, c, n[p], <<>>)
    BY <1>5 DEF out_fin_wait
  <2>2. Alike(c, c)
    BY <1>2 DEF Alike, Calm
  <2> QED BY <1>2, <2>1, <2>2, QuietKept
<1> QED BY <1>3, <1>4, <1>5

\* An ESTABLISHED context: what it sent and what is acknowledged.
LEMMA EstablishedIs ==
  ASSUME NEW a, PlayedList(a), NEW x, NEW n, ConnInv(a, x, n), NEW p \in Peers, x[p].st = "ESTABLISHED"
  PROVE  LET c == x[p]  b == Base(a, p, c) IN
         /\ CtxOK(a, p, c) /\ c \in CtxType(a, p) /\ OpenC(c) /\ "SYN" \in c.flags
         /\ c.act \in 1 .. Len(a) /\ c.next \in Int /\ c.ackd \in Int /\ c.ackable \in Int /\ b \in Int /\ First(p) \in Nat
         /\ a[c.act].len \in Nat /\ a[c.act].beg \in Nat /\ Before(a, p)[c.act] \in Nat /\ Total(a, p) \in Nat
         /\ a[c.act].peer \in Peers /\ First(p) <= b /\ First(p) <= c.next /\ c.next <= HighSent(c) /\ c.first = First(p)
         /\ c.ackable = 0 => c.ackd = b /\ c.next = b
         /\ c.ackable # 0 => /\ a[c.act].peer = p /\ c.act # Len(a) /\ c.ackable = b + a[c.act].len /\ b <= c.ackd /\ c.ackd < c.ackable
                             /\ b <= c.next /\ c.next <= c.ackable
<1> DEFINE c == x[p]  b == Base(a, p, c)
<1>1. OpenC(c) /\ c.st # "GONE"
  BY DEF OpenC
<1>2. CtxOK(a, p, c) /\ c \in CtxType(a, p) /\ "SYN" \in c.flags /\ c.first = First(p)
  BY <1>1 DEF ConnInv, CtxOK
<1>3. /\ c.ackable = 0 => c.ackd = b /\ c.next = b
      /\ c.ackable # 0 => /\ a[c.act].peer = p /\ c.act # Len(a) /\ c.ackable = b + a[c.act].len /\ b <= c.ackd /\ c.ackd < c.ackable
                          /\ b <= c.next /\ c.next <= c.ackable
  BY <1>2 DEF CtxOK, CtxEstablished
<1> HIDE DEF c
<1>4. /\ c.act \in 1 .. Len(a) /\ c.next \in Int /\ c.ackd \in Int /\ c.ackable \in Int /\ b \in Int /\ First(p) \in Nat
      /\ a[c.act].len \in Nat /\ Before(a, p)[c.act] \in Nat /\ Total(a, p) \in Nat /\ a[c.act].peer \in Peers
  BY <1>2, ContextIs
<1>5. a[c.act].beg \in Nat
  BY <1>4, BeforeIs
<1>6. b = First(p) + Before(a, p)[c.act]
  BY DEF Base
<1> HIDE DEF b
<1>7. First(p) <= b
  BY <1>4, <1>6
<1>8. First(p) <= c.next /\ c.next <= HighSent(c)
  BY <1>3, <1>4, <1>7 DEF HighSent
<1> QED BY <1>1, <1>2, <1>3, <1>4, <1>5, <1>7, <1>8 DEF b, c

\* More of the action's data is sent, or sent again.
LEMMA SendDataKept ==
  ASSUME PlayedList(Actions), NEW x, NEW n, ConnInv(Actions, x, n), NEW p \in Peers, x[p].st = "ESTABLISHED",
         x[p].ackable # 0, x[p].next < x[p].ackable, SendData(p, x[p], n[p]), Mss \in Nat \ {0}
  PROVE  Kept(Actions, x, n, p)
<1> DEFINE a == Actions
           c == x[p]
           b == Base(a, p, c)
           w == a[c.act].len
           left == Remaining(c)
           l == IF left > Mss THEN Mss ELSE left
           g == IF left > Mss THEN c.flags \cup {"MORE_DATA"} ELSE c.flags \ {"MORE_DATA"}
           d == [c EXCEPT !.flags = g]
           e == Advanced(d, {"ACK"}, l)
           s == Segment(p, d, {"ACK"}, l)
           y == Put(x, p, e)
<1>1. /\ CtxOK(a, p, c) /\ c \in CtxType(a, p) /\ OpenC(c) /\ "SYN" \in c.flags
      /\ c.act \in 1 .. Len(a) /\ c.next \in Int /\ c.ackd \in Int /\ c.ackable \in Int /\ b \in Int /\ First(p) \in Nat
      /\ w \in Nat /\ a[c.act].beg \in Nat /\ Before(a, p)[c.act] \in Nat /\ Total(a, p) \in Nat
      /\ First(p) <= b /\ First(p) <= c.next /\ c.first = First(p)
      /\ a[c.act].peer = p /\ c.act # Len(a) /\ c.ackable = b + w /\ b <= c.ackd /\ c.ackd < c.ackable
      /\ b <= c.next /\ c.next < c.ackable
  BY EstablishedIs
<1>2. Emit(p, d, n[p], {"ACK"}, l)
  BY DEF SendData
<1>3. c.act \in 1 .. Len(a) - 1 /\ Len(a) \in Nat
  <2>1. Len(a) \in Nat
    BY BeforeIs
  <2> QED BY <1>1, <2>1
<1>4. a[c.act].beg = Before(a, p)[c.act] /\ Before(a, p)[c.act] + w <= Total(a, p)
  <2>1. a[c.act].beg = Before(a, a[c.act].peer)[c.act]
    BY <1>3, BytesOf
  <2>2. Before(a, p)[c.act + 1] = Before(a, p)[c.act] + (IF a[c.act].peer = p THEN a[c.act].len ELSE 0)
    BY <1>3, BytesOf
  <2>3. Before(a, p)[c.act + 1] <= Total(a, p)
    <3>1. c.act + 1 \in 1 .. Len(a) /\ Len(a) \in c.act + 1 .. Len(a)
      BY <1>3
    <3> QED BY <3>1, MoreBytes DEF Total
  <2> QED BY <1>1, <2>1, <2>2, <2>3
<1>5. left = c.ackable - c.next
  <2>1. left = w - (c.next - First(p) - Before(a, p)[c.act])
    BY <1>1, <1>4 DEF Remaining, Act
  <2>2. b = First(p) + Before(a, p)[c.act]
    BY DEF Base
  <2> DEFINE k == c.next  f == First(p)  z == Before(a, p)[c.act]  u == c.ackable
  <2>3. left = w - (k - f - z) /\ b = f + z /\ u = b + w /\ k \in Int /\ f \in Nat /\ z \in Nat /\ w \in Nat
    BY <1>1, <2>1, <2>2
  <2> HIDE DEF left, b, w, k, f, z, u
  <2>4. left = u - k
    BY <2>3
  <2> QED BY <2>4 DEF u, k
<1>6. l \in Nat /\ l > 0 /\ c.next + l <= c.ackable
  <2> HIDE DEF left, c, b
  <2>1. left \in Nat /\ left > 0
    BY SMTT(60), <1>1, <1>5
  <2>2. l \in Nat /\ l > 0 /\ l <= left
    BY <2>1
  <2> HIDE DEF l
  <2> QED BY <1>1, <1>5, <2>1, <2>2
<1>7. g \in SUBSET CtxFlags /\ ("SYN" \in g <=> "SYN" \in c.flags) /\ ("FIN" \in g <=> "FIN" \in c.flags)
  <2>1. c.flags \in SUBSET CtxFlags
    BY <1>1 DEF CtxType
  <2> HIDE DEF left, c
  <2> QED BY <2>1 DEF CtxFlags
<1>8. c.st = "ESTABLISHED" /\ c.st \in States(p) /\ 0 \in Int /\ 0 \in Nat
  BY DEF States
<1> HIDE DEF c, b, w, left, l, g
<1>9. CtxIs(a, p, d, c.st, c.act, c.next, c.ackd, c.recv, c.ackable, c.first, c.ofirst, c.same, g)
  <2>1. c \in CtxType(a, p)
    BY <1>1
  <2> QED BY ONLY <1>7, <1>8, <2>1, ContextsMade
<1> HIDE DEF d
<1>10. /\ CtxIs(a, p, e, d.st, d.act, d.next + l, d.ackd, d.recv, d.ackable, d.first, d.ofirst, d.same, d.flags)
       /\ s \in SegType /\ s.from = p /\ s.flags = {"ACK"} /\ s.seq = d.next /\ s.pos = d.next - d.first /\ s.len = l
       /\ s.ack = d.recv
  <2>1. d \in CtxType(a, p)
    BY <1>9 DEF CtxIs
  <2> QED BY <1>6, <2>1, EmittedAck
<1> HIDE DEF e, s
<1>11. /\ e \in CtxType(a, p) /\ e.st = "ESTABLISHED" /\ e.act = c.act /\ e.next = c.next + l /\ e.ackd = c.ackd /\ e.recv = c.recv
       /\ e.ackable = c.ackable /\ e.first = First(p) /\ e.ofirst = c.ofirst
       /\ ("SYN" \in e.flags <=> "SYN" \in c.flags) /\ ("FIN" \in e.flags <=> "FIN" \in c.flags)
       /\ s.seq = c.next /\ s.pos = c.next - First(p) /\ s.ack = e.recv /\ s.len = l
  BY <1>1, <1>7, <1>8, <1>9, <1>10 DEF CtxIs
<1>12. OpenC(e) /\ HighSent(e) = c.ackable /\ HighSent(c) = c.ackable /\ c.ackable # 0
  BY <1>11 DEF OpenC, HighSent, c
<1>13. CtxOK(a, p, e)
  <2>1. CtxKnown(a, p, e)
    <3>1. Played(a, p, c) => Played(a, p, e)
      BY <1>11 DEF Played, Fin
    <3> QED BY <1>1, <1>11, <3>1 DEF CtxOK, CtxKnown
  <2>2. CtxEstablished(a, p, e)
    <3>1. Base(a, p, e) = b
      BY <1>11 DEF Base, b
    <3>2. b <= e.next /\ e.next <= c.ackable
      BY <1>1, <1>6, <1>11
    <3> QED BY <1>1, <1>11, <1>12, <3>1, <3>2 DEF CtxEstablished, w
  <2> QED BY <1>1, <1>11, <2>1, <2>2 DEF CtxOK, CtxSynSent, CtxListen, CtxClosing, Closing
<1>14. ConnInv(a, y, n)
  <2>1. HighSent(e) >= HighSent(x[p])
    BY <1>1, <1>12 DEF c
  <2>2. /\ OpenC(x[p]) /\ x[p].st # "SYN_RECEIVED" /\ e.st # "SYN_RECEIVED" /\ e.recv = x[p].recv /\ e.ackd = x[p].ackd
        /\ ("FIN" \in e.flags <=> "FIN" \in x[p].flags)
    BY <1>1, <1>8, <1>11 DEF c
  <2> QED BY <1>12, <1>13, <2>1, <2>2, OpenChange
<1>15. y[p] = e
  BY DEF Put
<1> HIDE DEF y
<1>16. /\ s \in SegType /\ s.from = p /\ Plain(s) /\ "RST" \notin s.flags /\ s.ack = y[p].recv /\ s.seq = First(p) + s.pos /\ s.pos >= 0
       /\ s.seq + s.len + Fin(s.flags) <= HighSent(y[p]) /\ s.pos + s.len <= Total(a, p) /\ "FIN" \notin s.flags
       /\ OpenC(y[p]) /\ y[p].st # "SYN_RECEIVED"
  <2>1. Plain(s) /\ "RST" \notin s.flags /\ "FIN" \notin s.flags /\ Fin(s.flags) = 0 /\ OpenC(y[p]) /\ y[p].st # "SYN_RECEIVED"
    BY <1>10, <1>11, <1>12, <1>15 DEF Plain, Fin
  <2>2. s.seq = First(p) + s.pos /\ s.pos >= 0 /\ s.seq + s.len + Fin(s.flags) <= HighSent(y[p])
    BY <1>1, <1>6, <1>11, <1>12, <1>15, <2>1
  <2>3. s.pos + s.len <= Total(a, p)
    <3>1. b = First(p) + Before(a, p)[c.act]
      BY DEF Base, b
    <3> QED BY SMTT(60), <1>1, <1>4, <1>6, <1>11, <3>1
  <2> QED BY <1>10, <1>11, <1>15, <2>1, <2>2, <2>3
<1>17. SendOK(a, y, n, p, s)
  <2>1. PlayedList(a) /\ p \in Peers
    OBVIOUS
  <2> HIDE DEF a
  <2> QED BY ONLY <1>14, <1>16, <2>1, PlainSent
<1> HIDE DEF a
<1>18. Kept(a, x, n, p)
  <2>1. e.st # "GONE" /\ "FIN" \notin s.flags /\ ("FIN" \in e.flags => "FIN" \in x[p].flags)
    BY <1>11, <1>16 DEF c
  <2> QED BY <1>2, <1>14, <1>17, <2>1, EmitKept DEF y, e, s
<1> QED BY <1>18 DEF a

\* ESTABLISHED, data: the action begins or goes on.
LEMMA SendKept ==
  ASSUME PlayedList(Actions), Mss \in Nat \ {0}, NEW x, NEW n, ConnInv(Actions, x, n), NEW p \in Peers, x[p].st = "ESTABLISHED",
         Act(x[p]).peer = p, Act(x[p]).len # 0, Remaining(x[p]) # 0,
         SendData(p, [x[p] EXCEPT !.ackable = IF @ = 0 THEN x[p].next + Act(x[p]).len ELSE @], n[p])
  PROVE  Kept(Actions, x, n, p)
<1> DEFINE a == Actions  c == x[p]  b == Base(a, p, c)  w == a[c.act].len
           k == IF c.ackable = 0 THEN c.next + w ELSE c.ackable
           d == [c EXCEPT !.ackable = k]
           y == Put(x, p, d)
<1>1. /\ CtxOK(a, p, c) /\ c \in CtxType(a, p) /\ OpenC(c) /\ "SYN" \in c.flags
      /\ c.act \in 1 .. Len(a) /\ c.next \in Int /\ c.ackd \in Int /\ c.ackable \in Int /\ b \in Int /\ First(p) \in Nat
      /\ w \in Nat /\ a[c.act].beg \in Nat /\ Before(a, p)[c.act] \in Nat
      /\ First(p) <= b /\ First(p) <= c.next /\ c.next <= HighSent(c) /\ c.first = First(p)
      /\ (c.ackable = 0 => c.ackd = b /\ c.next = b)
      /\ (c.ackable # 0 => c.ackable = b + w /\ b <= c.ackd /\ c.ackd < c.ackable /\ b <= c.next /\ c.next <= c.ackable)
  BY EstablishedIs
<1>2. w > 0 /\ a[c.act].peer = p
  BY <1>1 DEF Act
<1>3. c.act # Len(a)
  BY <1>1, <1>2, BytesOf
<1>4. a[c.act].beg = Before(a, p)[c.act]
  <2>1. Len(a) \in Nat
    BY BeforeIs
  <2>2. c.act \in 1 .. Len(a) - 1
    BY <1>1, <1>3, <2>1
  <2> QED BY <1>2, <2>2, BytesOf
<1>5. k = b + w /\ c.next < k /\ c.ackd < k /\ b <= c.ackd /\ b <= c.next /\ k # 0 /\ k \in Int /\ HighSent(c) <= k
  <2>1. b = First(p) + Before(a, p)[c.act]
    BY DEF Base
  <2>2. w - (c.next - First(p) - Before(a, p)[c.act]) # 0
    BY <1>1, <1>4 DEF Remaining, Act
  <2> DEFINE m == c.next  u == c.ackd  v == c.ackable  f == First(p)  z == Before(a, p)[c.act]  h == HighSent(c)
  <2>3. h = IF v # 0 THEN v ELSE m
    BY DEF HighSent
  <2>4. /\ m \in Int /\ u \in Int /\ v \in Int /\ f \in Nat /\ z \in Nat /\ w \in Nat /\ w > 0 /\ b = f + z /\ w - (m - f - z) # 0
        /\ (v = 0 => u = b /\ m = b) /\ (v # 0 => v = b + w /\ b <= u /\ u < v /\ b <= m /\ m <= v)
        /\ k = IF v = 0 THEN m + w ELSE v
    BY <1>1, <1>2, <2>1, <2>2
  <2> HIDE DEF k, b, w, m, u, v, f, z, h
  <2>5. k = b + w /\ m < k /\ u < k /\ b <= u /\ b <= m /\ k # 0 /\ k \in Int /\ h <= k
    <3>1. CASE v = 0
      BY <2>3, <2>4, <3>1
    <3>2. CASE v # 0
      BY <2>3, <2>4, <3>2
    <3> QED BY <3>1, <3>2
  <2> QED BY <2>5 DEF m, u, h
<1>6. SendData(p, d, n[p])
  BY DEF Act
<1>7. c.st = "ESTABLISHED" /\ c.st \in States(p) /\ 0 \in Int /\ 0 \in Nat /\ {} \in SUBSET CtxFlags
  BY SMTT(60) DEF States
<1> HIDE DEF k, b, w, c
<1>8. CtxIs(a, p, d, c.st, c.act, c.next, c.ackd, c.recv, k, c.first, c.ofirst, c.same, c.flags)
  <2>1. c \in CtxType(a, p) /\ k \in Int
    BY <1>1, <1>5
  <2> QED BY ONLY <1>7, <2>1, ContextsMade
<1> HIDE DEF d
<1>9. /\ d \in CtxType(a, p) /\ d.st = "ESTABLISHED" /\ d.act = c.act /\ d.next = c.next /\ d.ackd = c.ackd /\ d.recv = c.recv
      /\ d.ackable = k /\ d.first = c.first /\ d.ofirst = c.ofirst /\ d.flags = c.flags
  BY <1>7, <1>8 DEF CtxIs
<1>10. OpenC(d) /\ HighSent(d) = k
  BY <1>5, <1>9 DEF OpenC, HighSent
<1>11. CtxOK(a, p, d)
  <2>1. CtxKnown(a, p, d)
    <3>1. Played(a, p, c) => Played(a, p, d)
      BY <1>9 DEF Played
    <3> QED BY <1>1, <1>9, <3>1 DEF CtxOK, CtxKnown
  <2>2. CtxEstablished(a, p, d)
    <3>1. Base(a, p, d) = b
      BY <1>9 DEF Base, b
    <3>2. c.next <= k
      BY <1>1, <1>5
    <3> QED BY <1>2, <1>3, <1>5, <1>9, <3>1, <3>2 DEF CtxEstablished, w
  <2> QED BY <1>1, <1>9, <2>1, <2>2 DEF CtxOK, CtxSynSent, CtxListen, CtxClosing, Closing
<1>12. ConnInv(a, y, n)
  <2>1. HighSent(d) >= HighSent(x[p])
    <3>1. HighSent(c) \in Int
      BY <1>1 DEF HighSent
    <3> QED BY <1>5, <1>10, <3>1 DEF c
  <2>2. /\ OpenC(x[p]) /\ x[p].st # "SYN_RECEIVED" /\ d.st # "SYN_RECEIVED" /\ d.recv = x[p].recv /\ d.ackd = x[p].ackd
        /\ ("FIN" \in d.flags <=> "FIN" \in x[p].flags)
    BY <1>1, <1>7, <1>9 DEF c
  <2> QED BY <1>10, <1>11, <2>1, <2>2, OpenChange
<1>13. y[p] = d
  BY DEF Put
<1> HIDE DEF y
<1>14. Kept(a, y, n, p)
  BY <1>5, <1>6, <1>9, <1>12, <1>13, SendDataKept DEF a
<1> HIDE DEF a
<1>15. Kept(a, x, n, p)
  BY <1>9, <1>14, KeptAgain DEF y, c
<1> QED BY <1>15 DEF a

\* ESTABLISHED, the timeout: the data is sent again from the last acknowledgement.
LEMMA SendAgainKept ==
  ASSUME PlayedList(Actions), Mss \in Nat \ {0}, RxWindow \in Nat, NEW x, NEW n, ConnInv(Actions, x, n), NEW p \in Peers,
         x[p].st = "ESTABLISHED", Act(x[p]).peer = p, Act(x[p]).len # 0, ~ MaySend(x[p]), SendData(p, Again(x[p]), n[p])
  PROVE  Kept(Actions, x, n, p)
<1> DEFINE a == Actions  c == x[p]  b == Base(a, p, c)  w == a[c.act].len
           h == c.same + 1
           d == [c EXCEPT !.same = h, !.next = c.ackd]
           y == Put(x, p, d)
<1>1. /\ CtxOK(a, p, c) /\ c \in CtxType(a, p) /\ OpenC(c) /\ "SYN" \in c.flags
      /\ c.act \in 1 .. Len(a) /\ c.next \in Int /\ c.ackd \in Int /\ c.ackable \in Int /\ b \in Int /\ First(p) \in Nat
      /\ w \in Nat /\ a[c.act].beg \in Nat /\ Before(a, p)[c.act] \in Nat
      /\ First(p) <= b /\ First(p) <= c.next /\ c.next <= HighSent(c) /\ c.first = First(p)
      /\ (c.ackable = 0 => c.ackd = b /\ c.next = b)
      /\ (c.ackable # 0 => c.ackable = b + w /\ b <= c.ackd /\ c.ackd < c.ackable /\ b <= c.next /\ c.next <= c.ackable)
  BY EstablishedIs
<1>2. w > 0 /\ a[c.act].peer = p
  BY <1>1 DEF Act
<1>3. c.act # Len(a)
  BY <1>1, <1>2, BytesOf
<1>4. a[c.act].beg = Before(a, p)[c.act]
  <2>1. Len(a) \in Nat
    BY BeforeIs
  <2>2. c.act \in 1 .. Len(a) - 1
    BY <1>1, <1>3, <2>1
  <2> QED BY <1>2, <2>2, BytesOf
<1>5. c.ackable # 0
  <2> SUFFICES ASSUME c.ackable = 0 PROVE FALSE
    OBVIOUS
  <2>1. c.next = b /\ c.ackd = b
    BY <1>1
  <2>2. ~ Blocked(c)
    <3>1. ~ (c.next < c.ackd) /\ c.next - c.ackd = 0
      BY <1>1, <2>1
    <3> QED BY <3>1 DEF Blocked
  <2>3. Remaining(c) = w
    <3>1. b = First(p) + Before(a, p)[c.act]
      BY DEF Base
    <3>2. Remaining(c) = w - (c.next - First(p) - Before(a, p)[c.act])
      BY <1>1, <1>4 DEF Remaining, Act
    <3> DEFINE m == c.next  f == First(p)  z == Before(a, p)[c.act]
    <3>3. m = f + z /\ f \in Nat /\ z \in Nat /\ w \in Nat /\ m \in Int
      BY <1>1, <2>1, <3>1
    <3> HIDE DEF m, f, z, w
    <3>4. w - (m - f - z) = w
      BY <3>3
    <3> QED BY <3>2, <3>4 DEF m, f, z
  <2> QED BY <1>2, <2>2, <2>3 DEF MaySend
<1>6. c.ackable = b + w /\ b <= c.ackd /\ c.ackd < c.ackable /\ b <= c.next /\ c.next <= c.ackable
  BY <1>1, <1>5
<1>7. SendData(p, d, n[p])
  BY DEF Again
<1>8. c.st = "ESTABLISHED" /\ c.st \in States(p) /\ 0 \in Int /\ h \in Nat /\ {} \in SUBSET CtxFlags
  BY SMTT(60), <1>1 DEF States, CtxType
<1> HIDE DEF h, b, w, c
<1>9. CtxIs(a, p, d, c.st, c.act, c.ackd, c.ackd, c.recv, c.ackable, c.first, c.ofirst, h, c.flags)
  <2>1. c \in CtxType(a, p) /\ c.ackd \in Int
    BY <1>1
  <2> QED BY ONLY <1>8, <2>1, ContextsMade
<1> HIDE DEF d
<1>10. /\ d \in CtxType(a, p) /\ d.st = "ESTABLISHED" /\ d.act = c.act /\ d.next = c.ackd /\ d.ackd = c.ackd /\ d.recv = c.recv
       /\ d.ackable = c.ackable /\ d.first = c.first /\ d.ofirst = c.ofirst /\ d.flags = c.flags
  BY <1>8, <1>9 DEF CtxIs
<1>11. OpenC(d) /\ HighSent(d) = c.ackable /\ HighSent(c) = c.ackable
  BY <1>5, <1>10 DEF OpenC, HighSent
<1>12. CtxOK(a, p, d)
  <2>1. CtxKnown(a, p, d)
    <3>1. Played(a, p, c) => Played(a, p, d)
      BY <1>10 DEF Played
    <3> QED BY <1>1, <1>10, <3>1 DEF CtxOK, CtxKnown
  <2>2. CtxEstablished(a, p, d)
    <3>1. Base(a, p, d) = b
      BY <1>10 DEF Base, b
    <3>2. c.ackd <= c.ackable
      BY <1>1, <1>6
    <3> QED BY <1>2, <1>3, <1>5, <1>6, <1>10, <3>1, <3>2 DEF CtxEstablished, w
  <2> QED BY <1>1, <1>10, <2>1, <2>2 DEF CtxOK, CtxSynSent, CtxListen, CtxClosing, Closing
<1>13. ConnInv(a, y, n)
  <2>1. HighSent(d) >= HighSent(x[p])
    BY <1>1, <1>11 DEF c
  <2>2. /\ OpenC(x[p]) /\ x[p].st # "SYN_RECEIVED" /\ d.st # "SYN_RECEIVED" /\ d.recv = x[p].recv /\ d.ackd = x[p].ackd
        /\ ("FIN" \in d.flags <=> "FIN" \in x[p].flags)
    BY <1>1, <1>8, <1>10 DEF c
  <2> QED BY <1>11, <1>12, <2>1, <2>2, OpenChange
<1>14. y[p] = d
  BY DEF Put
<1> HIDE DEF y
<1>15. Kept(a, y, n, p)
  BY <1>5, <1>6, <1>7, <1>10, <1>13, <1>14, SendDataKept DEF a
<1> HIDE DEF a
<1>16. Kept(a, x, n, p)
  BY <1>10, <1>15, KeptAgain DEF y, c
<1> QED BY <1>16 DEF a

\* ESTABLISHED, an action of the peer itself.
LEMMA EstabTxKept ==
  ASSUME PlayedList(Actions), Mss \in Nat \ {0}, RxWindow \in Nat, NEW x, NEW n, ConnInv(Actions, x, n), NEW p \in Peers,
         x[p].st = "ESTABLISHED", Act(x[p]).peer = p, out_estab_tx(p, x[p], n[p])
  PROVE  Kept(Actions, x, n, p)
<1> DEFINE a == Actions  c == x[p]
<1>1. c \in CtxType(a, p) /\ c.act \in 1 .. Len(a) /\ CtxOK(a, p, c)
  BY EstablishedIs
<1>2. c.st = "ESTABLISHED" /\ c.st # "GONE" /\ c.st # "CLOSED"
  OBVIOUS
<1>3. CASE Act(c).len = 0 /\ Emit(p, [c EXCEPT !.st = "FIN_WAIT", !.same = 0], n[p], {"FIN", "ACK"}, 0)
  <2> DEFINE d == [c EXCEPT !.st = "FIN_WAIT", !.same = 0]
  <2>1. c.act = Len(a)
    <3> SUFFICES ASSUME c.act # Len(a) PROVE FALSE
      OBVIOUS
    <3>1. Len(a) \in Nat
      BY BeforeIs
    <3>2. c.act \in 1 .. Len(a) - 1
      BY <1>1, <3>1
    <3>3. a[c.act].len > 0
      BY <3>2, BytesOf
    <3> QED BY <1>3, <3>3 DEF Act
  <2>2. a[Len(a)].peer = p
    BY SMTT(60), <2>1 DEF Act
  <2>3. CtxIs(a, p, d, "FIN_WAIT", c.act, c.next, c.ackd, c.recv, c.ackable, c.first, c.ofirst, 0, c.flags)
    <3>1. c \in CtxType(a, p) /\ "FIN_WAIT" \in States(p) /\ 0 \in Int /\ 0 \in Nat /\ {} \in SUBSET CtxFlags
      BY <1>1 DEF States
    <3> HIDE DEF c
    <3> QED BY ONLY <3>1, ContextsMade
  <2>4. Emit(p, d, n[p], {"FIN", "ACK"}, 0)
    BY <1>3
  <2> HIDE DEF d
  <2>5. "FIN_WAIT" \in {"FIN_WAIT", "LAST_ACK"} /\ ("FIN_WAIT" = "LAST_ACK" <=> a[Len(a)].peer # p)
        /\ ("FIN_WAIT" = "LAST_ACK" => "FIN" \in x[p].flags)
    BY <2>2
  <2>6. x[p].act = Len(a)
    BY <2>1
  <2> HIDE DEF a
  <2>7. Kept(a, x, n, p)
    BY <2>3, <2>4, <2>5, <2>6, CloseKept DEF a
  <2> QED BY <2>7 DEF a
<1>4. CASE Act(c).len # 0 /\ MaySend(c) /\ SendData(p, [c EXCEPT !.ackable = IF @ = 0 THEN c.next + Act(c).len ELSE @], n[p])
  <2>1. Remaining(x[p]) # 0
    BY <1>4 DEF MaySend
  <2> QED BY <1>4, <2>1, SendKept
<1>5. CASE Done(p, [c EXCEPT !.flags = @ \ {"MORE_DATA"}], n[p], <<>>)
  <2> DEFINE d == [c EXCEPT !.flags = @ \ {"MORE_DATA"}]
  <2>1. Alike(c, d) /\ d \in CtxType(a, p)
    BY <1>1, <1>2, FlagCleared
  <2> HIDE DEF d
  <2> QED BY <1>2, <1>5, <2>1, QuietKept DEF d
<1>6. CASE Done(p, [c EXCEPT !.flags = @ \ {"PROGRESS"}], n[p], <<>>)
  <2> DEFINE d == [c EXCEPT !.flags = @ \ {"PROGRESS"}]
  <2>1. Alike(c, d) /\ d \in CtxType(a, p)
    BY <1>1, <1>2, FlagCleared
  <2> HIDE DEF d
  <2> QED BY <1>2, <1>6, <2>1, QuietKept DEF d
<1>7. CASE Done(p, c, n[p], <<>>)
  <2>1. Alike(c, c)
    BY <1>2 DEF Alike, Calm
  <2> QED BY <1>1, <1>2, <1>7, <2>1, QuietKept
<1>8. CASE Act(c).len # 0 /\ ~ MaySend(c) /\ SendData(p, Again(c), n[p])
  BY <1>8, SendAgainKept
<1> QED BY <1>3, <1>4, <1>5, <1>6, <1>7, <1>8 DEF out_estab_tx

\* ESTABLISHED, an action of the other peer.
LEMMA EstabRxKept ==
  ASSUME PlayedList(Actions), NEW x, NEW n, ConnInv(Actions, x, n), NEW p \in Peers,
         x[p].st = "ESTABLISHED", Act(x[p]).peer # p, out_estab_rx(p, x[p], n[p])
  PROVE  Kept(Actions, x, n, p)
<1> DEFINE a == Actions  c == x[p]
<1>1. /\ c \in CtxType(a, p) /\ c.act \in 1 .. Len(a) /\ CtxOK(a, p, c) /\ OpenC(c) /\ "SYN" \in c.flags
      /\ First(p) <= c.next /\ c.next <= HighSent(c) /\ c.same \in Nat
  BY SMTT(60), EstablishedIs DEF CtxType
<1>2. c.st = "ESTABLISHED" /\ c.st # "GONE" /\ c.st # "CLOSED" /\ c.st # "SYN_RECEIVED"
  OBVIOUS
<1>3. CASE "FIN" \in c.flags
  <2> DEFINE d == [c EXCEPT !.st = "LAST_ACK"]
  <2>1. c.act = Len(a)
    BY <1>1, <1>3 DEF CtxOK, CtxKnown, Played
  <2>2. a[Len(a)].peer # p
    BY <2>1 DEF Act
  <2>3. CtxIs(a, p, d, "LAST_ACK", c.act, c.next, c.ackd, c.recv, c.ackable, c.first, c.ofirst, c.same, c.flags)
    <3>1. c \in CtxType(a, p) /\ "LAST_ACK" \in States(p) /\ 0 \in Int /\ 0 \in Nat /\ {} \in SUBSET CtxFlags
      BY <1>1 DEF States
    <3> HIDE DEF c
    <3> QED BY ONLY <3>1, ContextsMade
  <2>4. Emit(p, d, n[p], {"FIN", "ACK"}, 0)
    BY <1>3 DEF out_estab_rx
  <2> HIDE DEF d
  <2>5. "LAST_ACK" \in {"FIN_WAIT", "LAST_ACK"} /\ ("LAST_ACK" = "LAST_ACK" <=> a[Len(a)].peer # p)
        /\ ("LAST_ACK" = "LAST_ACK" => "FIN" \in x[p].flags)
    BY <1>3, <2>2
  <2>6. x[p].act = Len(a)
    BY <2>1
  <2> HIDE DEF a
  <2>7. Kept(a, x, n, p)
    BY <2>3, <2>4, <2>5, <2>6, CloseKept DEF a
  <2> QED BY <2>7 DEF a
<1>4. CASE "FIN" \notin c.flags /\ "NEW_DATA" \in c.flags
  <2> DEFINE d == [c EXCEPT !.flags = @ \ {"NEW_DATA"}]
  <2>1. Emit(p, d, n[p], {"ACK"}, 0)
    BY <1>4 DEF out_estab_rx
  <2>2. Alike(c, d) /\ d \in CtxType(a, p)
    BY <1>1, <1>2, FlagCleared
  <2> HIDE DEF d
  <2> QED BY <1>1, <1>2, <2>1, <2>2, AckAgainKept
<1>5. CASE "FIN" \notin c.flags /\ "NEW_DATA" \notin c.flags
  <2> DEFINE h == c.same + 1  d == [c EXCEPT !.same = h]
  <2>1. Emit(p, d, n[p], {"ACK"}, 0)
    BY <1>5 DEF out_estab_rx
  <2>2. Alike(c, d) /\ d \in CtxType(a, p)
    <3>1. c \in CtxType(a, p) /\ c.st \in States(p) /\ 0 \in Int /\ h \in Nat /\ {} \in SUBSET CtxFlags /\ c.st # "GONE"
      BY SMTT(60), <1>1, <1>2 DEF States
    <3> HIDE DEF c, h
    <3>2. CtxIs(a, p, d, c.st, c.act, c.next, c.ackd, c.recv, c.ackable, c.first, c.ofirst, h, c.flags)
      BY ONLY <3>1, ContextsMade
    <3> HIDE DEF d
    <3> QED BY <3>1, <3>2 DEF CtxIs, Alike, Calm
  <2> HIDE DEF d
  <2> QED BY <1>1, <1>2, <2>1, <2>2, AckAgainKept
<1> QED BY <1>3, <1>4, <1>5

\* stream_tcp_proc_out, whatever the state.
LEMMA OutKept ==
  ASSUME PlayedList(Actions), Mss \in Nat \ {0}, RxWindow \in Nat, NEW x, NEW n, ConnInv(Actions, x, n), NEW p \in Peers,
         tcp_out(p, x[p], n[p])
  PROVE  Kept(Actions, x, n, p)
<1> DEFINE c == x[p]
<1>1. CASE NoProgress(c)
  <2>1. End(p, "expired", n[p], <<>>)
    BY <1>1 DEF tcp_out
  <2>2. "expired" # "finished"
    OBVIOUS
  <2> QED BY <2>1, <2>2, EndKept
<1>2. CASE ~ NoProgress(c)
  <2>1. \/ c.st = "CLOSED" /\ out_closed(p, c, n[p])
        \/ c.st = "LISTEN" /\ out_listen(p, c, n[p])
        \/ c.st = "SYN_SENT" /\ out_syn_sent(p, c, n[p])
        \/ c.st = "SYN_RECEIVED" /\ out_syn_recv(p, c, n[p])
        \/ c.st = "ESTABLISHED" /\ out_estab(p, c, n[p])
        \/ c.st = "LAST_ACK" /\ out_last_ack(p, c, n[p])
        \/ c.st = "FIN_WAIT" /\ out_fin_wait(p, c, n[p])
        \/ c.st = "TIME_WAIT" /\ out_time_wait(p, c, n[p])
    BY <1>2 DEF tcp_out
  <2>2. CASE c.st = "CLOSED" /\ out_closed(p, c, n[p])
    BY <2>2, ClosedKept
  <2>3. CASE c.st = "LISTEN" /\ out_listen(p, c, n[p])
    BY <2>3, ListenKept
  <2>4. CASE c.st = "SYN_SENT" /\ out_syn_sent(p, c, n[p])
    BY <2>4, SynSentKept
  <2>5. CASE c.st = "SYN_RECEIVED" /\ out_syn_recv(p, c, n[p])
    BY <2>5, SynRecvKept
  <2>6. CASE c.st = "ESTABLISHED" /\ Act(c).peer = p /\ out_estab_tx(p, c, n[p])
    BY <2>6, EstabTxKept
  <2>7. CASE c.st = "ESTABLISHED" /\ Act(c).peer # p /\ out_estab_rx(p, c, n[p])
    BY <2>7, EstabRxKept
  <2>8. CASE c.st = "LAST_ACK" /\ out_last_ack(p, c, n[p])
    BY <2>8, LastAckKept
  <2>9. CASE c.st = "FIN_WAIT" /\ out_fin_wait(p, c, n[p])
    BY <2>9, FinWaitKept
  <2>10. CASE c.st = "TIME_WAIT" /\ out_time_wait(p, c, n[p])
    BY <2>10, TimeWaitKept
  <2> QED BY <2>1, <2>2, <2>3, <2>4, <2>5, <2>6, <2>7, <2>8, <2>9, <2>10 DEF out_estab
<1> QED BY <1>1, <1>2

-----------------------------------------------------------------------------
(***************************************************************************)
(* The steps: how far the peers got, calls, lost segments.                 *)
(***************************************************************************)

\* A peer whose FIN is under way or received, or whose other end finished, got
\* to the last action.
RunOK(a, x, n, o, m) ==
  \A p \in Peers : LET q == Other(p) IN
    /\ m[p] \in 1 .. Len(a)
    /\ \/ Has(n[q], "FIN")
       \/ x[q].st # "GONE" /\ "FIN" \in x[q].flags
       \/ o[q] = "finished"
       => m[p] = Len(a)

\* How far the peers got stays known when only one of them moves on.
LEMMA RunKept ==
  ASSUME NEW a, NEW x, NEW n, NEW o, NEW m, RunOK(a, x, n, o, m), Len(a) \in Nat, NEW p \in Peers,
         NEW y, NEW k, NEW u, NEW v, y[Other(p)] = x[Other(p)], u[Other(p)] = o[Other(p)], v[Other(p)] = m[Other(p)],
         v[p] \in 1 .. Len(a), v[p] >= m[p], Segs(k[p]) \subseteq Segs(n[p]),
         \A s \in Segs(k[Other(p)]) : "FIN" \in s.flags => s \in Segs(n[Other(p)]) \/ v[p] = Len(a),
         (y[p].st # "GONE" /\ "FIN" \in y[p].flags) \/ u[p] = "finished" => m[Other(p)] = Len(a)
  PROVE  RunOK(a, y, k, u, v)
<1> DEFINE q == Other(p)
<1>1. q \in Peers /\ Other(q) = p /\ Peers = {p, q}
  BY TwoPeers
<1>2. m[p] \in 1 .. Len(a) /\ m[q] \in 1 .. Len(a)
  BY <1>1 DEF RunOK
<1>3. m[p] = Len(a) => v[p] = Len(a)
  BY <1>2
<1>4. (Has(n[q], "FIN") \/ (x[q].st # "GONE" /\ "FIN" \in x[q].flags) \/ o[q] = "finished") => m[p] = Len(a)
  BY DEF RunOK
<1>5. Has(n[p], "FIN") => m[q] = Len(a)
  BY <1>1 DEF RunOK
<1> HIDE DEF q
<1>6. (Has(k[q], "FIN") \/ (y[q].st # "GONE" /\ "FIN" \in y[q].flags) \/ u[q] = "finished") => v[p] = Len(a)
  BY <1>3, <1>4 DEF Has, q
<1>7. (Has(k[p], "FIN") \/ (y[p].st # "GONE" /\ "FIN" \in y[p].flags) \/ u[p] = "finished") => v[q] = Len(a)
  BY <1>5 DEF Has, q
<1>8. v[q] \in 1 .. Len(a)
  BY <1>2 DEF q
<1>9. Other(p) = q
  BY DEF q
<1> QED BY <1>1, <1>6, <1>7, <1>8, <1>9 DEF RunOK

Mapped ==
  /\ ctx = [r \in Peers |-> ctx[r]] /\ net = [r \in Peers |-> net[r]]
  /\ outcome = [r \in Peers |-> outcome[r]] /\ reached = [r \in Peers |-> reached[r]]
\* The whole of a TCP connection over a network that keeps the order.
Conversation ==
  /\ Mapped /\ \A p \in timer : p \in Peers => Live(p)
  /\ ConnInv(Actions, ctx, net) /\ RunOK(Actions, ctx, net, outcome, reached)

\* The network after a call.
LEMMA SentIs ==
  ASSUME Mapped, NEW p \in Peers, NEW inbox, NEW out, Sent(p, inbox, out), NEW S, net[Other(p)] \in Seq(S),
         out = <<>> \/ \E s \in S : out = <<s>>
  PROVE  LET n == Put(net, p, inbox)  q == Other(p) IN
         /\ n[p] = inbox /\ n[q] = net[q] /\ net' = [r \in Peers |-> net'[r]]
         /\ net' = n \/ \E s : out = <<s>> /\ net' = Put(n, q, Append(n[q], s))
<1> DEFINE q == Other(p)  n == Put(net, p, inbox)  k == IF Len(net[q]) < NetSize THEN net[q] \o out ELSE net[q]
<1>1. q \in Peers /\ q # p /\ Other(q) = p /\ Peers = {p, q}
  BY TwoPeers
<1>2. n[p] = inbox /\ n[q] = net[q]
  BY PutIs
<1>3. net = [r \in Peers |-> net[r]]
  BY DEF Mapped
<1>4. net' = [r \in Peers |-> IF r = p THEN inbox ELSE k]
  BY <1>1, <1>3 DEF Sent
<1>5. net' = Put(n, q, k) /\ n = Put(n, q, n[q])
  BY <1>1, <1>4 DEF Put
<1>6. k = net[q] \/ \E s : out = <<s>> /\ k = Append(net[q], s)
  <2>1. net[q] \o <<>> = net[q]
    BY ConcatEmptySeq
  <2>2. \A s \in S : net[q] \o <<s>> = Append(net[q], s)
    BY AppendIsConcat
  <2> QED BY <2>1, <2>2
<1>7. net' = [r \in Peers |-> net'[r]]
  BY <1>4
<1> HIDE DEF q, n, k
<1> QED BY <1>2, <1>5, <1>6, <1>7 DEF q, n

\* A call that keeps the context.
LEMMA DoneKept ==
  ASSUME PlayedList(Actions), Conversation, NEW p \in Peers, NEW inbox, Segs(inbox) \subseteq Segs(net[p]),
         NEW e, NEW out, Done(p, e, inbox, out), NEW x, x[Other(p)] = ctx[Other(p)], x[p].st # "GONE",
         OutOK(Actions, x, Put(net, p, inbox), p, e, out), "FIN" \in x[p].flags => reached[Other(p)] = Len(Actions)
  PROVE  Conversation'
<1> DEFINE a == Actions  q == Other(p)  n == Put(net, p, inbox)  y == Put(x, p, e)
<1>1. q \in Peers /\ q # p /\ Other(q) = p /\ Peers = {p, q}
  BY TwoPeers
<1>2. /\ ctx' = [ctx EXCEPT ![p] = e] /\ timer' = timer \cup {p} /\ Sent(p, inbox, out)
      /\ reached' = [reached EXCEPT ![p] = IF e.act > @ THEN e.act ELSE @] /\ outcome' = outcome /\ Actions' = a
  BY DEF Done, Actions
<1>3. Mapped /\ RunOK(a, ctx, net, outcome, reached) /\ \A r \in timer : r \in Peers => Live(r)
  BY DEF Conversation
<1>4. /\ ConnInv(a, y, n) /\ e.st # "GONE" /\ ("FIN" \in e.flags => "FIN" \in x[p].flags)
      /\ \/ out = <<>>
         \/ \E s : out = <<s>> /\ SendOK(a, y, n, p, s) /\ ("FIN" \in s.flags => e.act = Len(a))
  BY DEF OutOK
<1>5. ctx' = y /\ ctx' = [r \in Peers |-> ctx'[r]]
  BY <1>1, <1>2, <1>3 DEF Mapped, Put
<1>6. y[p] = e /\ y[q] = ctx[q] /\ n[p] = inbox /\ n[q] = net[q]
  BY PutIs
<1> HIDE DEF y
<1>7. e.act \in 1 .. Len(a) /\ Len(a) \in Nat
  <2>1. CtxOK(a, p, e)
    BY <1>4, <1>6 DEF ConnInv
  <2>2. Len(a) \in Nat
    BY BeforeIs
  <2> QED BY <2>1, <2>2 DEF CtxOK, CtxType
<1>8. reached[p] \in 1 .. Len(a) /\ reached' = [r \in Peers |-> reached'[r]] /\ reached'[q] = reached[q]
      /\ reached'[p] = IF e.act > reached[p] THEN e.act ELSE reached[p]
  BY <1>1, <1>2, <1>3 DEF Mapped, RunOK
<1>9. reached'[p] \in 1 .. Len(a) /\ reached'[p] >= reached[p] /\ (e.act = Len(a) => reached'[p] = Len(a))
  BY <1>7, <1>8
<1>10. n[q] \in Seq(Segment_(a, p)) /\ (out = <<>> \/ \E s \in Segment_(a, p) : out = <<s>>)
  BY <1>1, <1>4 DEF ConnInv, SendOK
<1> HIDE DEF n, q
<1>11. /\ net' = [r \in Peers |-> net'[r]]
       /\ net' = n \/ \E s : out = <<s>> /\ net' = Put(n, q, Append(n[q], s))
  <2>1. net[Other(p)] \in Seq(Segment_(a, p))
    BY <1>6, <1>10 DEF q
  <2>2. out = <<>> \/ \E s \in Segment_(a, p) : out = <<s>>
    BY <1>10
  <2> HIDE DEF a
  <2> QED BY ONLY <1>2, <1>3, <2>1, <2>2, p \in Peers, SentIs DEF n, q
<1>12. ConnInv(a, y, net') /\ Segs(net'[p]) \subseteq Segs(net[p])
       /\ \A s \in Segs(net'[q]) : "FIN" \in s.flags => s \in Segs(net[q]) \/ reached'[p] = Len(a)
  <2>1. CASE net' = n
    BY <1>4, <1>6, <2>1
  <2>2. CASE net' # n
    <3>1. PICK s : out = <<s>> /\ net' = Put(n, q, Append(n[q], s))
      BY <1>11, <2>2
    <3>2. SendOK(a, y, n, p, s) /\ ("FIN" \in s.flags => e.act = Len(a))
      BY <1>4, <3>1
    <3>3. ConnInv(a, y, net')
      BY <1>4, <3>1, <3>2, AppendNet DEF q
    <3>4. net'[q] = Append(n[q], s) /\ net'[p] = n[p]
      BY <1>1, <3>1 DEF Put
    <3>5. Segs(net'[q]) = Segs(n[q]) \cup {s}
      BY <1>10, <3>2, <3>4, SegsAppend DEF SendOK
    <3> QED BY <1>6, <1>9, <3>2, <3>3, <3>4, <3>5
  <2> QED BY <2>1, <2>2
<1>13. RunOK(a, y, net', outcome', reached')
  <2>1. (y[p].st # "GONE" /\ "FIN" \in y[p].flags) \/ outcome'[p] = "finished" => reached[q] = Len(a)
    <3>1. outcome[p] = "finished" => reached[q] = Len(a)
      BY <1>1, <1>3 DEF RunOK
    <3> QED BY <1>2, <1>4, <1>6, <3>1 DEF q
  <2>2. outcome'[q] = outcome[q]
    BY <1>2
  <2> HIDE DEF a
  <2> QED BY ONLY <1>3, <1>6, <1>7, <1>8, <1>9, <1>12, <2>1, <2>2, p \in Peers, RunKept DEF q
<1>14. Mapped'
  BY <1>2, <1>3, <1>5, <1>8, <1>11 DEF Mapped
<1>15. \A r \in timer' : r \in Peers => Live(r)'
  BY <1>1, <1>2, <1>3, <1>4, <1>5, <1>6 DEF Live
<1> QED BY <1>2, <1>5, <1>12, <1>13, <1>14, <1>15 DEF Conversation

\* A call that frees the context.
LEMMA EndedKept ==
  ASSUME PlayedList(Actions), Conversation, NEW p \in Peers, NEW inbox, Segs(inbox) \subseteq Segs(net[p]),
         NEW how, NEW out, End(p, how, inbox, out), NEW x, x[Other(p)] = ctx[Other(p)], ConnInv(Actions, x, Put(net, p, inbox)),
         EndOK(Actions, x, Put(net, p, inbox), p, how, out),
         how = "finished" => ("FIN" \in x[p].flags => reached[Other(p)] = Len(Actions))
  PROVE  Conversation'
<1> DEFINE a == Actions  q == Other(p)  n == Put(net, p, inbox)  y == Put(x, p, Gone)
<1>1. q \in Peers /\ q # p /\ Other(q) = p /\ Peers = {p, q}
  BY TwoPeers
<1>2. /\ ctx' = [ctx EXCEPT ![p] = Gone] /\ timer' = timer \ {p} /\ Sent(p, inbox, out)
      /\ outcome' = [outcome EXCEPT ![p] = how] /\ reached' = reached /\ Actions' = a
  BY DEF End, Actions
<1>3. Mapped /\ RunOK(a, ctx, net, outcome, reached) /\ \A r \in timer : r \in Peers => Live(r)
  BY DEF Conversation
<1>4. /\ how = "finished" => "FIN" \in x[p].flags
      /\ out = <<>> \/ \E s : out = <<s>> /\ SendOK(a, y, n, p, s) /\ "FIN" \notin s.flags
  BY DEF EndOK
<1>5. ctx' = y /\ ctx' = [r \in Peers |-> ctx'[r]]
  BY <1>1, <1>2, <1>3 DEF Mapped, Put
<1>6. y[p] = Gone /\ y[q] = ctx[q] /\ n[p] = inbox /\ n[q] = net[q] /\ Gone.st = "GONE"
  BY PutIs DEF Gone
<1>7. ConnInv(a, y, n)
  BY ContextFreed
<1> HIDE DEF y
<1>8. Len(a) \in Nat
  BY BeforeIs
<1>9. reached[p] \in 1 .. Len(a) /\ outcome' = [r \in Peers |-> outcome'[r]] /\ outcome'[q] = outcome[q] /\ outcome'[p] = how
  BY <1>1, <1>2, <1>3 DEF Mapped, RunOK
<1>10. n[q] \in Seq(Segment_(a, p)) /\ (out = <<>> \/ \E s \in Segment_(a, p) : out = <<s>>)
  BY <1>1, <1>4, <1>7 DEF ConnInv, SendOK
<1> HIDE DEF n, q
<1>11. /\ net' = [r \in Peers |-> net'[r]]
       /\ net' = n \/ \E s : out = <<s>> /\ net' = Put(n, q, Append(n[q], s))
  <2>1. net[Other(p)] \in Seq(Segment_(a, p))
    BY <1>6, <1>10 DEF q
  <2>2. out = <<>> \/ \E s \in Segment_(a, p) : out = <<s>>
    BY <1>10
  <2> HIDE DEF a
  <2> QED BY ONLY <1>2, <1>3, <2>1, <2>2, p \in Peers, SentIs DEF n, q
<1>12. ConnInv(a, y, net') /\ Segs(net'[p]) \subseteq Segs(net[p])
       /\ \A s \in Segs(net'[q]) : "FIN" \in s.flags => s \in Segs(net[q])
  <2>1. CASE net' = n
    BY <1>6, <1>7, <2>1
  <2>2. CASE net' # n
    <3>1. PICK s : out = <<s>> /\ net' = Put(n, q, Append(n[q], s))
      BY <1>11, <2>2
    <3>2. SendOK(a, y, n, p, s) /\ "FIN" \notin s.flags
      BY <1>4, <3>1
    <3>3. ConnInv(a, y, net')
      BY <1>7, <3>1, <3>2, AppendNet DEF q
    <3>4. net'[q] = Append(n[q], s) /\ net'[p] = n[p]
      BY <1>1, <3>1 DEF Put
    <3>5. Segs(net'[q]) = Segs(n[q]) \cup {s}
      BY <1>10, <3>2, <3>4, SegsAppend DEF SendOK
    <3> QED BY <1>6, <3>2, <3>3, <3>4, <3>5
  <2> QED BY <2>1, <2>2
<1>13. RunOK(a, y, net', outcome', reached')
  <2>1. (y[p].st # "GONE" /\ "FIN" \in y[p].flags) \/ outcome'[p] = "finished" => reached[q] = Len(a)
    BY <1>4, <1>6, <1>9 DEF q
  <2>2. reached' = reached /\ reached[p] >= reached[p]
    BY <1>2, <1>9
  <2> HIDE DEF a
  <2> QED BY ONLY <1>3, <1>6, <1>8, <1>9, <1>12, <2>1, <2>2, p \in Peers, RunKept DEF q
<1>14. Mapped'
  BY <1>2, <1>3, <1>5, <1>9, <1>11 DEF Mapped
<1>15. \A r \in timer' : r \in Peers => Live(r)'
  BY <1>1, <1>2, <1>3, <1>5, <1>6 DEF Live
<1> QED BY <1>2, <1>5, <1>12, <1>13, <1>14, <1>15 DEF Conversation

\* stream_tcp_proc_out keeps the conversation, whether the stream ends or not.
LEMMA CallKept ==
  ASSUME PlayedList(Actions), Conversation, NEW p \in Peers, NEW inbox, Segs(inbox) \subseteq Segs(net[p]),
         NEW x, x[Other(p)] = ctx[Other(p)], ConnInv(Actions, x, Put(net, p, inbox)), x[p].st # "GONE",
         "FIN" \in x[p].flags => reached[Other(p)] = Len(Actions), Kept(Actions, x, Put(net, p, inbox), p)
  PROVE  Conversation'
<1> DEFINE n == Put(net, p, inbox)
<1>1. n[p] = inbox
  BY DEF Put
<1>2. CASE \E e, out : Done(p, e, n[p], out) /\ OutOK(Actions, x, n, p, e, out)
  <2>1. PICK e, out : Done(p, e, inbox, out) /\ OutOK(Actions, x, n, p, e, out)
    BY <1>1, <1>2
  <2> QED BY <2>1, DoneKept
<1>3. CASE \E how, out : End(p, how, n[p], out) /\ EndOK(Actions, x, n, p, how, out)
  <2>1. PICK how, out : End(p, how, inbox, out) /\ EndOK(Actions, x, n, p, how, out)
    BY <1>1, <1>3
  <2> QED BY <2>1, EndedKept
<1> QED BY <1>2, <1>3 DEF Kept

\* What is under way to a peer is a list of segments.
LEMMA TailIs ==
  ASSUME Conversation, NEW p \in Peers, net[p] # <<>>
  PROVE  /\ Segs(Tail(net[p])) \subseteq Segs(net[p]) /\ Head(net[p]) \in Segs(net[p])
         /\ "FIN" \in Head(net[p]).flags => reached[Other(p)] = Len(Actions)
<1>1. net[p] \in Seq(Segment_(Actions, Other(p)))
  BY DEF Conversation, ConnInv
<1>2. Segs(Tail(net[p])) \subseteq Segs(net[p]) /\ Head(net[p]) \in Segs(net[p])
  BY <1>1, SegsTail
<1>3. Other(p) \in Peers /\ Other(Other(p)) = p
  BY TwoPeers
<1>4. Has(net[p], "FIN") => reached[Other(p)] = Len(Actions)
  BY <1>3 DEF Conversation, RunOK
<1> QED BY <1>2, <1>4 DEF Has

\* A segment for a connection, or for a new one at the server.
LEMMA TcpPacketKept ==
  ASSUME PlayedList(Actions), Mss \in Nat \ {0}, RxWindow \in Nat, Conversation, NEW p \in Peers, net[p] # <<>>,
         Live(p) \/ p = "server",
         tcp_packet(p, IF Live(p) THEN ctx[p] ELSE InitCtx(p), Head(net[p]), Tail(net[p]))
  PROVE  Conversation'
<1> DEFINE a == Actions  s == Head(net[p])  t == Tail(net[p])  n == Put(net, p, t)
           d == tcp_in(IF Live(p) THEN ctx[p] ELSE InitCtx(p), s)
           x == Put(ctx, p, d)
<1>1. ConnInv(a, ctx, net)
  BY DEF Conversation
<1>2. Segs(t) \subseteq Segs(net[p]) /\ ("FIN" \in s.flags => reached[Other(p)] = Len(a))
  BY TailIs
<1>3. CASE "RST" \in s.flags
  <2>1. End(p, "reset", t, <<>>)
    BY <1>3 DEF tcp_packet
  <2>2. ConnInv(a, ctx, n)
    BY <1>1, TailNet
  <2>3. "reset" # "finished" /\ EndOK(a, ctx, n, p, "reset", <<>>)
    BY DEF EndOK
  <2>4. ctx[Other(p)] = ctx[Other(p)]
    OBVIOUS
  <2> HIDE DEF t
  <2> QED BY <1>2, <2>1, <2>2, <2>3, EndedKept
<1>4. CASE "RST" \notin s.flags
  <2>1. ctx[p].st # "GONE" \/ p = "server"
    BY DEF Live
  <2>2. /\ ConnInv(a, x, net) /\ d.st # "GONE"
        /\ "FIN" \in d.flags => (ctx[p].st # "GONE" /\ "FIN" \in ctx[p].flags) \/ "FIN" \in s.flags
    BY <1>1, <1>4, <2>1, TcpIn DEF Live
  <2>3. tcp_out(p, d, t) \/ Done(p, d, t, <<>>)
    BY <1>4 DEF tcp_packet
  <2> HIDE DEF d
  <2>4. x[p] = d /\ x[Other(p)] = ctx[Other(p)] /\ n[p] = t
    BY TwoPeers DEF Put
  <2>5. "FIN" \in d.flags => reached[Other(p)] = Len(a)
    <3>1. (ctx[p].st # "GONE" /\ "FIN" \in ctx[p].flags) => reached[Other(p)] = Len(a)
      <4>1. Other(p) \in Peers /\ Other(Other(p)) = p
        BY TwoPeers
      <4> QED BY <4>1 DEF Conversation, RunOK
    <3> QED BY <1>2, <2>2, <3>1
  <2>6. Put(x, p, d) = x
    BY PutTwice
  <2> HIDE DEF x
  <2>7. ConnInv(a, x, n)
    BY <2>2, TailNet
  <2>8. Kept(a, x, n, p)
    <3>1. CASE tcp_out(p, d, t)
      <4>1. tcp_out(p, x[p], n[p])
        BY <2>4, <3>1
      <4> HIDE DEF n
      <4> QED BY <2>7, <4>1, OutKept
    <3>2. CASE Done(p, d, t, <<>>)
      <4>1. OutOK(a, x, n, p, d, <<>>)
        BY <2>2, <2>4, <2>6, <2>7 DEF OutOK
      <4>2. Done(p, d, n[p], <<>>)
        BY <2>4, <3>2
      <4> QED BY <4>1, <4>2 DEF Kept
    <3> QED BY <2>3, <3>1, <3>2
  <2> HIDE DEF t
  <2> QED BY <1>2, <2>2, <2>4, <2>5, <2>7, <2>8, CallKept
<1> QED BY <1>3, <1>4

\* handle_gen_bulk_client: what belongs to no connection is answered with a RST.
LEMMA StrayKept ==
  ASSUME PlayedList(Actions), Conversation, NEW p \in Peers, net[p] # <<>>, ~ Live(p), p # "server",
         Sent(p, Tail(net[p]), <<Segment(p, InitCtx(p), {"RST"}, 0)>>), UNCHANGED <<stream, ctx, timer, outcome, reached>>
  PROVE  Conversation'
<1> DEFINE a == Actions  q == Other(p)  t == Tail(net[p])  n == Put(net, p, t)  s == Segment(p, InitCtx(p), {"RST"}, 0)
<1>1. q \in Peers /\ q # p /\ Other(q) = p /\ q = "server"
  BY TwoPeers
<1>2. Mapped /\ ConnInv(a, ctx, net) /\ RunOK(a, ctx, net, outcome, reached) /\ (\A r \in timer : r \in Peers => Live(r)) /\ Actions' = a
  BY DEF Conversation, Actions
<1>3. Segs(t) \subseteq Segs(net[p])
  BY TailIs
<1>4. s \in SegType /\ s.from = p /\ s.flags = {"RST"}
  <2>1. InitCtx(p) \in CtxType(a, p)
    BY InitIs
  <2> QED BY <2>1, ResetIs
<1>5. Sent(p, t, <<s>>)
  OBVIOUS
<1> HIDE DEF s
<1>6. ConnInv(a, ctx, n)
  BY <1>2, TailNet
<1> HIDE DEF t
<1>7. n[p] = t /\ n[q] = net[q]
  BY PutIs
<1>8. SendOK(a, ctx, n, p, s)
  <2>1. ctx[p].st = "GONE"
    BY DEF Live
  <2>2. ctx[q].st # "CLOSED"
    <3>1. ctx[q].st # "GONE" => ctx[q].st \in States("server")
      BY <1>1, <1>2 DEF ConnInv, CtxOK, CtxType
    <3> QED BY <3>1 DEF States
  <2> HIDE DEF n
  <2> QED BY <1>4, <1>6, <2>1, <2>2, ResetSent
<1>9. net[q] \in Seq(Segment_(a, p)) /\ s \in Segment_(a, p)
  BY <1>1, <1>2, <1>8 DEF ConnInv, SendOK
<1>10. net' = [r \in Peers |-> net'[r]] /\ (net' = n \/ net' = Put(n, q, Append(n[q], s)))
  <2>1. net[Other(p)] \in Seq(Segment_(a, p)) /\ (<<s>> = <<>> \/ \E w \in Segment_(a, p) : <<s>> = <<w>>)
    BY <1>9
  <2>2. /\ net' = [r \in Peers |-> net'[r]]
        /\ net' = n \/ \E w : <<s>> = <<w>> /\ net' = Put(n, q, Append(n[q], w))
    <3> DEFINE o == <<s>>
    <3>1. Sent(p, t, o) /\ (o = <<>> \/ \E w \in Segment_(a, p) : o = <<w>>)
      BY <1>5, <2>1
    <3> HIDE DEF o, a
    <3>2. /\ net' = [r \in Peers |-> net'[r]]
          /\ net' = n \/ \E w : o = <<w>> /\ net' = Put(n, q, Append(n[q], w))
      BY ONLY <1>2, <2>1, <3>1, p \in Peers, SentIs DEF n, q
    <3> QED BY <3>2 DEF o
  <2> QED BY <2>2
<1> HIDE DEF n, q
<1>11. ConnInv(a, ctx, net') /\ Segs(net'[p]) \subseteq Segs(net[p])
       /\ \A w \in Segs(net'[q]) : "FIN" \in w.flags => w \in Segs(net[q])
  <2>1. CASE net' = n
    BY <1>3, <1>6, <1>7, <2>1
  <2>2. CASE net' = Put(n, q, Append(n[q], s))
    <3>1. ConnInv(a, ctx, net')
      BY <1>6, <1>8, <2>2, AppendNet DEF q
    <3>2. net'[q] = Append(n[q], s) /\ net'[p] = n[p]
      BY <1>1, <2>2 DEF Put
    <3>3. Segs(net'[q]) = Segs(n[q]) \cup {s}
      BY <1>7, <1>9, <3>2, SegsAppend
    <3> QED BY <1>3, <1>4, <1>7, <3>1, <3>2, <3>3
  <2> QED BY <1>10, <2>1, <2>2
<1>12. RunOK(a, ctx, net', outcome, reached)
  <2>1. Len(a) \in Nat /\ reached[p] \in 1 .. Len(a)
    BY <1>2, BeforeIs DEF RunOK
  <2>2. reached[p] >= reached[p]
    BY <2>1
  <2>3. (ctx[p].st # "GONE" /\ "FIN" \in ctx[p].flags) \/ outcome[p] = "finished" => reached[q] = Len(a)
    BY <1>1, <1>2 DEF RunOK
  <2> HIDE DEF a
  <2> QED BY ONLY <1>2, <1>11, <2>1, <2>2, <2>3, p \in Peers, RunKept DEF q
<1> QED BY <1>2, <1>10, <1>11, <1>12 DEF Conversation, Mapped, Live

\* A lost segment.
LEMMA LostKept ==
  ASSUME PlayedList(Actions), Conversation, NEW p \in Peers, SegmentLost(p)
  PROVE  Conversation'
<1> DEFINE a == Actions  q == Other(p)  n == Put(net, p, Tail(net[p]))
<1>1. q \in Peers /\ q # p /\ Other(q) = p
  BY TwoPeers
<1>2. net[p] # <<>> /\ net' = [net EXCEPT ![p] = Tail(@)] /\ UNCHANGED <<stream, ctx, timer, outcome, reached>>
  BY DEF SegmentLost
<1>3. Mapped /\ ConnInv(a, ctx, net) /\ RunOK(a, ctx, net, outcome, reached) /\ (\A r \in timer : r \in Peers => Live(r)) /\ Actions' = a
  BY <1>2 DEF Conversation, Actions
<1>4. net' = n /\ net' = [r \in Peers |-> net'[r]]
  BY <1>2, <1>3 DEF Mapped, Put
<1>5. ConnInv(a, ctx, net')
  <2> HIDE DEF a
  <2>1. ConnInv(a, ctx, n)
    BY ONLY <1>2, <1>3, p \in Peers, TailNet
  <2> QED BY <1>4, <2>1
<1>6. Segs(net'[p]) \subseteq Segs(net[p]) /\ net'[q] = net[q]
  BY <1>2, <1>4, PutIs, TailIs
<1>7. RunOK(a, ctx, net', outcome, reached)
  <2>1. Len(a) \in Nat /\ reached[p] \in 1 .. Len(a)
    BY <1>3, BeforeIs DEF RunOK
  <2>2. reached[p] >= reached[p]
    BY <2>1
  <2>3. (ctx[p].st # "GONE" /\ "FIN" \in ctx[p].flags) \/ outcome[p] = "finished" => reached[q] = Len(a)
    BY <1>1, <1>3 DEF RunOK
  <2> HIDE DEF a, q, n
  <2>4. \A w \in Segs(net'[q]) : "FIN" \in w.flags => w \in Segs(net[q]) \/ reached[p] = Len(a)
    BY <1>6
  <2> QED BY ONLY <1>3, <1>6, <2>1, <2>2, <2>3, <2>4, p \in Peers, RunKept DEF q
<1> QED BY <1>2, <1>3, <1>4, <1>5, <1>7 DEF Conversation, Mapped, Live

\* Whatever arrives.
LEMMA ReceiveKept ==
  ASSUME PlayedList(Actions), Mss \in Nat \ {0}, RxWindow \in Nat, Tcp, Conversation, NEW p \in Peers, Receive(p)
  PROVE  Conversation'
<1>1. net[p] # <<>> /\ stream.proto = "tcp"
  BY DEF Receive, Tcp
<1>2. CASE Live(p) \/ p = "server"
  <2>1. tcp_packet(p, IF Live(p) THEN ctx[p] ELSE InitCtx(p), Head(net[p]), Tail(net[p]))
    BY <1>1, <1>2 DEF Receive
  <2> QED BY <1>1, <1>2, <2>1, TcpPacketKept
<1>3. CASE ~ (Live(p) \/ p = "server")
  <2>1. /\ Sent(p, Tail(net[p]), <<Segment(p, InitCtx(p), {"RST"}, 0)>>)
        /\ UNCHANGED <<stream, ctx, timer, outcome, reached>>
    BY <1>1, <1>3 DEF Receive
  <2> QED BY <1>1, <1>3, <2>1, StrayKept
<1> QED BY <1>2, <1>3

\* An expired timer.
LEMMA TimeoutKept ==
  ASSUME PlayedList(Actions), Mss \in Nat \ {0}, RxWindow \in Nat, Tcp, Conversation, NEW p \in Peers, Timeout(p)
  PROVE  Conversation'
<1>1. p \in timer /\ tcp_out(p, ctx[p], net[p])
  BY DEF Timeout, Tcp
<1>2. Mapped /\ ConnInv(Actions, ctx, net) /\ RunOK(Actions, ctx, net, outcome, reached) /\ ctx[p].st # "GONE"
  BY <1>1 DEF Conversation, Live
<1>3. Put(net, p, net[p]) = net
  BY <1>2 DEF Mapped, Put
<1>4. Kept(Actions, ctx, Put(net, p, net[p]), p)
  BY <1>1, <1>2, <1>3, OutKept
<1>5. ConnInv(Actions, ctx, Put(net, p, net[p]))
  BY <1>2, <1>3
<1>6. "FIN" \in ctx[p].flags => reached[Other(p)] = Len(Actions)
  <2>1. Other(p) \in Peers /\ Other(Other(p)) = p
    BY TwoPeers
  <2> QED BY <1>2, <2>1 DEF RunOK
<1> QED BY <1>2, <1>4, <1>5, <1>6, CallKept

\* The invariant of a TCP connection over a network that keeps the order.
L4Inv == stream \in Streams /\ (Tcp /\ stream.orderly => Conversation)

\* What the assumption on the configuration gives.
LEMMA ListIsPlayed ==
  ASSUME stream \in Streams, Tcp
  PROVE  PlayedList(Actions) /\ Mss \in Nat \ {0} /\ RxWindow \in Nat
  BY L4StreamAssumption DEF Tcp, Actions, PlayedList

\* The first state.
LEMMA L4Start ==
  ASSUME L4Init
  PROVE  L4Inv
<1> DEFINE a == Actions
<1>1. stream \in Streams
  BY DEF L4Init
<1> SUFFICES ASSUME Tcp PROVE Conversation
  BY <1>1 DEF L4Inv
<1>2. PlayedList(a)
  BY <1>1, ListIsPlayed
<1>3. /\ ctx["client"] = InitCtx("client") /\ ctx["server"] = Gone /\ net["client"] = <<>> /\ net["server"] = <<>>
      /\ timer = {"client"} /\ Mapped /\ Peers = {"client", "server"} /\ Other("client") = "server" /\ Other("server") = "client"
      /\ \A p \in Peers : outcome[p] = "" /\ reached[p] = 1
  BY DEF L4Init, Mapped, Peers, Other
<1>4. /\ CtxOK(a, "client", ctx["client"]) /\ ctx["client"].st = "CLOSED" /\ ctx["client"].flags = {} /\ ctx["server"].st = "GONE"
      /\ ctx["client"] \in CtxType(a, "client")
  <2>1. "client" \in Peers
    BY <1>3
  <2>2. Gone.st = "GONE"
    BY DEF Gone
  <2> HIDE DEF a
  <2>3. InitCtx("client") \in CtxType(a, "client") /\ CtxOK(a, "client", InitCtx("client")) /\ InitCtx("client").flags = {}
        /\ InitCtx("client").st = "CLOSED"
    BY ONLY <1>2, <2>1, InitIs
  <2> QED BY <1>3, <2>2, <2>3
<1>5. Segs(<<>>) = {} /\ <<>> \in Seq(Segment_(a, "client")) /\ <<>> \in Seq(Segment_(a, "server")) /\ SynsFirst(<<>>)
  <2>1. Len(<<>>) = 0
    BY EmptySeq
  <2>2. Segs(<<>>) = {} /\ SynsFirst(<<>>)
    BY <2>1 DEF Segs, SynsFirst
  <2> QED BY <2>2, EmptySeq
<1> HIDE DEF a
<1>6. \A p \in Peers : ~ OpenC(ctx[p]) /\ ~ Known(ctx[p]) /\ ~ Sending(ctx[p]) /\ Segs(net[p]) = {} /\ net[p] = <<>>
  BY <1>3, <1>4, <1>5 DEF OpenC, Known, Sending
<1>7. \A p \in Peers : Pair(a, p, ctx[p], ctx[Other(p)], net[p], net[Other(p)])
  <2> SUFFICES ASSUME NEW p \in Peers PROVE Pair(a, p, ctx[p], ctx[Other(p)], net[p], net[Other(p)])
    OBVIOUS
  <2>1. Other(p) \in Peers
    BY TwoPeers
  <2> QED BY <1>5, <1>6, <2>1 DEF Pair, AckedGot, AcksGot, GotSent, AcksSent, DataSent, FinGot
<1>8. EarlyOK(ctx, net) /\ FreshOK(ctx, net) /\ SynAgain(ctx, net) /\ ClosedOK(ctx, net)
  BY <1>3, <1>4, <1>6 DEF EarlyOK, FreshOK, SynAgain, ClosedOK, ServerEarly, Nothing, Has
<1>9. ConnInv(a, ctx, net)
  BY <1>3, <1>4, <1>5, <1>6, <1>7, <1>8 DEF ConnInv
<1>10. RunOK(a, ctx, net, outcome, reached)
  <2>1. 1 \in 1 .. Len(a)
    BY <1>2, BeforeIs
  <2>2. \A p \in Peers : ~ Has(net[p], "FIN")
    BY <1>6 DEF Has
  <2> SUFFICES ASSUME NEW p \in Peers
               PROVE  /\ reached[p] \in 1 .. Len(a) /\ ~ Has(net[Other(p)], "FIN") /\ outcome[Other(p)] # "finished"
                      /\ ~ (ctx[Other(p)].st # "GONE" /\ "FIN" \in ctx[Other(p)].flags)
    BY DEF RunOK
  <2>3. Other(p) \in Peers
    BY TwoPeers
  <2> QED BY <1>3, <1>4, <2>1, <2>2, <2>3
<1> QED BY <1>3, <1>4, <1>9, <1>10 DEF Conversation, Live, a

\* The connection is the same after every step.
LEMMA SameStream ==
  ASSUME L4Next
  PROVE  stream' = stream
<1>1. \A p, c, in, out : Done(p, c, in, out) \/ End(p, c, in, out) => stream' = stream
  BY DEF Done, End
<1>2. \A p, d, in, flags, len : Emit(p, d, in, flags, len) => stream' = stream
  BY <1>1 DEF Emit
<1>3. \A p, d, in : SendData(p, d, in) => stream' = stream
  BY <1>2 DEF SendData
<1>4. \A p, c, in : tcp_out(p, c, in) => stream' = stream
  <2> SUFFICES ASSUME NEW p, NEW c, NEW in, tcp_out(p, c, in) PROVE stream' = stream
    OBVIOUS
  <2>1. \A b : out_closed(p, b, in) => stream' = stream
    BY <1>2 DEF out_closed
  <2>2. out_listen(p, c, in) => stream' = stream
    BY <1>1, <1>2 DEF out_listen
  <2>3. out_syn_sent(p, c, in) => stream' = stream
    BY <1>1, <1>2, <2>1 DEF out_syn_sent
  <2>4. out_syn_recv(p, c, in) => stream' = stream
    BY <1>1, <1>2 DEF out_syn_recv
  <2>5. out_estab_tx(p, c, in) => stream' = stream
    BY <1>1, <1>2, <1>3 DEF out_estab_tx
  <2>6. out_estab_rx(p, c, in) => stream' = stream
    BY <1>2 DEF out_estab_rx
  <2>7. FinAgain(p, c, in) => stream' = stream
    BY <1>1, <1>2 DEF FinAgain
  <2>8. out_last_ack(p, c, in) \/ out_fin_wait(p, c, in) => stream' = stream
    BY <1>1, <1>2, <2>7 DEF out_last_ack, out_fin_wait
  <2>9. out_time_wait(p, c, in) => stream' = stream
    BY <1>1, <1>2 DEF out_time_wait
  <2> QED BY <1>1, <2>1, <2>2, <2>3, <2>4, <2>5, <2>6, <2>8, <2>9 DEF tcp_out, out_estab
<1>5. \A p, c, s, in : tcp_packet(p, c, s, in) => stream' = stream
  BY <1>1, <1>4 DEF tcp_packet
<1>6. \A p, c, in : udp_out(p, c, in) => stream' = stream
  BY <1>1 DEF udp_out
<1>7. \A p, c, s, in : udp_in(p, c, s, in) => stream' = stream
  BY <1>1, <1>6 DEF udp_in, Untimed
<1> SUFFICES ASSUME NEW p \in Peers, Receive(p) \/ Timeout(p) \/ SegmentLost(p) \/ Reorder(p) PROVE stream' = stream
  BY DEF L4Next
<1>8. Receive(p) => stream' = stream
  BY <1>5, <1>7 DEF Receive
<1>9. Timeout(p) => stream' = stream
  BY <1>1, <1>4, <1>6 DEF Timeout
<1> QED BY <1>8, <1>9 DEF SegmentLost, Reorder

\* Every step.
LEMMA L4Step ==
  ASSUME L4Inv, [L4Next]_l4_vars
  PROVE  L4Inv'
<1>1. CASE UNCHANGED l4_vars
  BY <1>1 DEF l4_vars, L4Inv, Tcp, Conversation, Mapped, Live, Actions
<1>2. CASE L4Next
  <2>1. stream' = stream /\ (Tcp' <=> Tcp)
    BY <1>2, SameStream DEF Tcp
  <2> SUFFICES ASSUME Tcp, stream.orderly PROVE Conversation'
    BY <2>1 DEF L4Inv
  <2>2. Conversation /\ PlayedList(Actions) /\ Mss \in Nat \ {0} /\ RxWindow \in Nat
    BY ListIsPlayed DEF L4Inv
  <2>3. PICK p \in Peers : Receive(p) \/ Timeout(p) \/ SegmentLost(p) \/ Reorder(p)
    BY <1>2 DEF L4Next
  <2>4. ~ Reorder(p)
    BY DEF Reorder
  <2> QED BY <2>2, <2>3, <2>4, ReceiveKept, TimeoutKept, LostKept
<1> QED BY <1>1, <1>2

-----------------------------------------------------------------------------
(***************************************************************************)
(* What the invariant says about the two ends.                             *)
(***************************************************************************)

\* What a peer at an action that is not the last counts as sent and received,
\* and what one at action i counts as acknowledged.
LEMMA ActionBounds ==
  ASSUME NEW a, PlayedList(a), NEW p \in Peers, NEW c, CtxOK(a, p, c), OpenC(c)
  PROVE  LET q == Other(p)  i == c.act IN
         /\ i \in 1 .. Len(a) /\ c.ackd \in Int /\ c.recv \in Int /\ HighSent(c) \in Int /\ "SYN" \in c.flags
         /\ c.recv >= First(q) + Before(a, q)[i]
         /\ c.ackd >= First(p) + Before(a, p)[i] \/ Before(a, p)[i] = 0
         /\ i # Len(a) => /\ HighSent(c) <= First(p) + Before(a, p)[i + 1]
                          /\ c.recv < First(q) + Before(a, q)[i + 1] \/ a[i].peer = p
                          /\ a[i].peer = p => c.recv = First(q) + Before(a, q)[i]
<1> DEFINE q == Other(p)  i == c.act
<1>1. /\ c \in CtxType(a, p) /\ i \in 1 .. Len(a) /\ c.ackd \in Int /\ c.recv \in Int /\ c.next \in Int /\ c.ackable \in Int
      /\ "SYN" \in c.flags /\ Played(a, p, c) /\ Len(a) \in Nat /\ a[i].peer \in Peers /\ a[i].len \in Nat
      /\ Before(a, p)[i] \in Nat /\ Before(a, q)[i] \in Nat /\ First(p) \in Nat /\ First(q) \in Nat /\ q \in Peers
  <2>1. c \in CtxType(a, p) /\ "SYN" \in c.flags /\ Played(a, p, c)
    BY DEF CtxOK, CtxKnown
  <2>2. i \in 1 .. Len(a) /\ c.ackd \in Int /\ c.recv \in Int /\ c.next \in Int /\ c.ackable \in Int
    BY <2>1 DEF CtxType
  <2>3. q \in Peers /\ First(p) \in Nat /\ First(q) \in Nat
    BY TwoPeers DEF First
  <2> QED BY <2>1, <2>2, <2>3, BeforeIs
<1>2. i # Len(a) => /\ i \in 1 .. Len(a) - 1 /\ i + 1 \in 1 .. Len(a)
                    /\ Before(a, p)[i + 1] = Before(a, p)[i] + (IF a[i].peer = p THEN a[i].len ELSE 0)
                    /\ Before(a, q)[i + 1] = Before(a, q)[i] + (IF a[i].peer = q THEN a[i].len ELSE 0)
  <2> SUFFICES ASSUME i # Len(a)
               PROVE  /\ i \in 1 .. Len(a) - 1 /\ i + 1 \in 1 .. Len(a)
                      /\ Before(a, p)[i + 1] = Before(a, p)[i] + (IF a[i].peer = p THEN a[i].len ELSE 0)
                      /\ Before(a, q)[i + 1] = Before(a, q)[i] + (IF a[i].peer = q THEN a[i].len ELSE 0)
    OBVIOUS
  <2>1. i \in 1 .. Len(a) - 1 /\ i + 1 \in 1 .. Len(a)
    BY <1>1
  <2> HIDE DEF i, q
  <2> QED BY <1>1, <2>1, BytesOf
<1>3. HighSent(c) \in Int
  BY <1>1 DEF HighSent
<1>4. /\ c.recv - First(q) >= Before(a, q)[i]
      /\ i # Len(a) /\ a[i].peer = p => c.recv - First(q) = Before(a, q)[i]
      /\ i # Len(a) /\ a[i].peer = q => c.recv - First(q) < Before(a, q)[i] + a[i].len
  BY <1>1 DEF Played
<1>5. c.st \in {"SYN_RECEIVED", "ESTABLISHED"} \cup Closing
  BY <1>1 DEF OpenC, CtxType, States, Closing
<1>6. /\ c.ackd >= First(p) + Before(a, p)[i] \/ Before(a, p)[i] = 0
      /\ i # Len(a) => HighSent(c) <= First(p) + Before(a, p)[i] + (IF a[i].peer = p THEN a[i].len ELSE 0)
  <2> DEFINE w == IF a[i].peer = p THEN a[i].len ELSE 0
  <2>1. CASE c.st = "SYN_RECEIVED"
    <3>1. Before(a, p)[i] = 0 /\ c.ackable = 0 /\ c.next = 201 /\ p = "server"
      BY <1>1, <2>1 DEF CtxOK, CtxListen, CtxType, States, Peers
    <3>2. HighSent(c) = First(p)
      BY <3>1 DEF HighSent, First
    <3>3. w \in Nat
      BY <1>1
    <3> HIDE DEF w
    <3>4. HighSent(c) <= First(p) + Before(a, p)[i] + w
      BY <1>1, <3>1, <3>2, <3>3
    <3> QED BY <3>1, <3>4 DEF w
  <2>2. CASE c.st = "ESTABLISHED"
    <3>1. IF c.ackable = 0 THEN c.ackd = Base(a, p, c) /\ c.next = Base(a, p, c)
          ELSE /\ a[i].peer = p /\ c.ackable = Base(a, p, c) + a[i].len /\ Base(a, p, c) <= c.ackd
      BY <2>2 DEF CtxOK, CtxEstablished
    <3>2. Base(a, p, c) = First(p) + Before(a, p)[i]
      BY DEF Base
    <3>3. w \in Nat
      BY <1>1
    <3> DEFINE f == First(p)  z == Before(a, p)[i]  v == c.ackable  m == c.next  u == c.ackd  h == HighSent(c)
    <3>4. h = IF v # 0 THEN v ELSE m
      BY DEF HighSent
    <3>5. IF v = 0 THEN u = f + z /\ m = f + z ELSE v = f + z + w /\ f + z <= u
      BY <3>1, <3>2
    <3>6. f \in Nat /\ z \in Nat /\ u \in Int
      BY <1>1
    <3> HIDE DEF w, f, z, v, m, u, h
    <3>7. u >= f + z /\ h <= f + z + w
      BY <3>3, <3>4, <3>5, <3>6
    <3> QED BY <3>7 DEF w, f, z, u, h
  <2>3. CASE c.st \in Closing
    <3>1. c.act = Len(a) /\ c.next = First(p) + Total(a, p) + 1 /\ c.ackd \in {c.next - 1, c.next}
      BY <2>3 DEF CtxOK, CtxClosing
    <3>2. Total(a, p) = Before(a, p)[i]
      BY <3>1 DEF Total
    <3>3. c.ackd >= First(p) + Before(a, p)[i]
      BY <1>1, <3>1, <3>2
    <3> QED BY <3>1, <3>3
  <2> QED BY <1>5, <2>1, <2>2, <2>3
<1>7. i # Len(a) => HighSent(c) <= First(p) + Before(a, p)[i + 1]
  <2> SUFFICES ASSUME i # Len(a) PROVE HighSent(c) <= First(p) + Before(a, p)[i + 1]
    OBVIOUS
  <2> DEFINE w == IF a[i].peer = p THEN a[i].len ELSE 0
  <2>1. HighSent(c) <= First(p) + Before(a, p)[i] + w /\ Before(a, p)[i + 1] = Before(a, p)[i] + w /\ w \in Nat
    BY <1>1, <1>2, <1>6
  <2> HIDE DEF w, i
  <2> QED BY <1>1, <1>3, <2>1
<1>8. c.recv >= First(q) + Before(a, q)[i]
  <2> HIDE DEF i, q
  <2> QED BY <1>1, <1>4
<1>9. i # Len(a) => c.recv < First(q) + Before(a, q)[i + 1] \/ a[i].peer = p
  <2> SUFFICES ASSUME i # Len(a), a[i].peer # p PROVE c.recv < First(q) + Before(a, q)[i + 1]
    OBVIOUS
  <2>1. a[i].peer = q
    BY <1>1, TwoPeers
  <2>2. c.recv - First(q) < Before(a, q)[i] + a[i].len /\ Before(a, q)[i + 1] = Before(a, q)[i] + a[i].len
    BY <1>2, <1>4, <2>1
  <2> HIDE DEF i, q
  <2> QED BY <1>1, <2>2
<1>10. i # Len(a) => (a[i].peer = p => c.recv = First(q) + Before(a, q)[i])
  <2> SUFFICES ASSUME i # Len(a), a[i].peer = p PROVE c.recv = First(q) + Before(a, q)[i]
    OBVIOUS
  <2>1. c.recv - First(q) = Before(a, q)[i]
    BY <1>4
  <2> HIDE DEF i, q
  <2> QED BY <1>1, <2>1
<1> HIDE DEF i, q
<1> QED BY <1>1, <1>3, <1>6, <1>7, <1>8, <1>9, <1>10 DEF i, q

\* A peer begins an action when the other is at it or sends the one before.
LEMMA OneAhead ==
  ASSUME NEW a, PlayedList(a), NEW p \in Peers, NEW c, CtxOK(a, p, c), OpenC(c), NEW d, CtxOK(a, Other(p), d), OpenC(d),
         c.ackd <= d.recv, c.recv <= HighSent(d), c.act > d.act
  PROVE  c.act = d.act + 1 /\ a[d.act].peer = Other(p)
<1> DEFINE q == Other(p)  i == c.act  j == d.act  f == Before(a, p)  g == Before(a, q)
<1>1. q \in Peers /\ Other(q) = p /\ First(p) \in Nat /\ First(q) \in Nat /\ Len(a) \in Nat /\ PlayedList(a) /\ Peers = {p, q} /\ q # p
      /\ (\A k \in 1 .. Len(a) : f[k] \in Nat /\ g[k] \in Nat)
  BY TwoPeers, BeforeIs DEF First
<1>2. /\ i \in 1 .. Len(a) /\ c.ackd \in Int /\ c.recv \in Int
      /\ c.recv >= First(q) + g[i] /\ (c.ackd >= First(p) + f[i] \/ f[i] = 0)
  BY ActionBounds
<1>3. j \in 1 .. Len(a) - 1 /\ i \in j + 1 .. Len(a) /\ j + 1 \in 1 .. Len(a) /\ j \in 1 .. Len(a) /\ j # Len(a)
  <2>1. j \in 1 .. Len(a)
    BY DEF CtxOK, CtxType
  <2> HIDE DEF i, j
  <2>2. i > j
    BY DEF i, j
  <2> QED BY <1>1, <1>2, <2>1, <2>2
<1>4. /\ d.recv \in Int /\ HighSent(d) \in Int /\ HighSent(d) <= First(q) + g[j + 1]
      /\ (d.recv < First(p) + f[j + 1] \/ a[j].peer = q) /\ (a[j].peer = q => d.recv = First(p) + f[j])
  <2> HIDE DEF f, g, q, j
  <2>1. LET r == Other(q)  k == d.act IN
        /\ d.recv \in Int /\ HighSent(d) \in Int
        /\ k # Len(a) => /\ HighSent(d) <= First(q) + Before(a, q)[k + 1]
                         /\ (d.recv < First(r) + Before(a, r)[k + 1] \/ a[k].peer = q)
                         /\ (a[k].peer = q => d.recv = First(r) + Before(a, r)[k])
    <3>1. CtxOK(a, q, d) /\ OpenC(d)
      BY DEF q
    <3> QED BY ONLY <1>1, <3>1, ActionBounds
  <2> QED BY <1>1, <1>3, <2>1 DEF f, g, j
<1>5. \A k \in 1 .. Len(a) - 1 : /\ f[k + 1] = f[k] + (IF a[k].peer = p THEN a[k].len ELSE 0)
                                 /\ g[k + 1] = g[k] + (IF a[k].peer = q THEN a[k].len ELSE 0) /\ a[k].len > 0
  <2> HIDE DEF q
  <2> QED BY <1>1, BytesOf
<1>6. \A k \in 1 .. Len(a) : \A l \in k .. Len(a) : f[k] <= f[l] /\ g[k] <= g[l]
  <2> HIDE DEF q
  <2> QED BY <1>1, MoreBytes
<1>7. \A k \in 1 .. Len(a) - 1 : a[k].peer \in Peers /\ a[k].len \in Nat
  BY BeforeIs
<1>8. c.ackd <= d.recv /\ c.recv <= HighSent(d)
  OBVIOUS
<1> HIDE DEF q, i, j, f, g
<1>9. a[j].peer = q
  <2> SUFFICES ASSUME a[j].peer # q PROVE FALSE
    OBVIOUS
  <2>1. a[j].peer = p
    BY <1>1, <1>3, <1>7
  <2>2. f[j + 1] > 0 /\ f[j + 1] <= f[i] /\ f[i] \in Nat /\ f[j + 1] \in Nat
    <3>1. f[j + 1] = f[j] + a[j].len /\ a[j].len > 0 /\ f[j] \in Nat /\ a[j].len \in Nat
      BY <1>1, <1>3, <1>5, <1>7, <2>1
    <3>2. f[j + 1] <= f[i] /\ f[i] \in Nat /\ f[j + 1] \in Nat
      BY <1>1, <1>2, <1>3, <1>6
    <3> QED BY <3>1, <3>2
  <2>3. d.recv < First(p) + f[j + 1] /\ c.ackd >= First(p) + f[i]
    BY <1>2, <1>4, <2>2
  <2> QED BY <1>1, <1>2, <1>4, <1>8, <2>2, <2>3
<1>10. i = j + 1
  <2> SUFFICES ASSUME i # j + 1 PROVE FALSE
    OBVIOUS
  <2>1. j + 1 \in 1 .. Len(a) - 1 /\ i \in j + 1 + 1 .. Len(a) /\ j + 1 + 1 \in 1 .. Len(a)
    BY <1>1, <1>3
  <2>2. f[j + 1] = f[j]
    <3>1. f[j + 1] = f[j] + 0 /\ f[j] \in Nat
      BY <1>1, <1>3, <1>5, <1>9
    <3> QED BY <3>1
  <2>3. /\ f[j + 1] \in Nat /\ f[j + 1 + 1] \in Nat /\ f[i] \in Nat /\ g[j + 1] \in Nat /\ g[j + 1 + 1] \in Nat /\ g[i] \in Nat
        /\ f[j + 1 + 1] <= f[i] /\ g[j + 1 + 1] <= g[i] /\ f[j] \in Nat
    BY <1>1, <1>2, <1>3, <1>6, <2>1
  <2>4. g[i] <= g[j + 1]
    BY SMTT(60), <1>1, <1>2, <1>4, <1>8, <2>3
  <2>5. f[i] <= f[j]
    <3>1. CASE f[i] = 0
      BY <2>3, <3>1
    <3>2. CASE c.ackd >= First(p) + f[i]
      <4> DEFINE u == c.ackd  v == d.recv  w == First(p)  y == f[i]  z == f[j]
      <4>1. v = w + z /\ u <= v /\ u >= w + y /\ u \in Int /\ v \in Int /\ w \in Nat /\ y \in Nat /\ z \in Nat
        BY <1>1, <1>2, <1>4, <1>8, <1>9, <2>3, <3>2
      <4> HIDE DEF u, v, w, y, z
      <4>2. y <= z
        BY <4>1
      <4> QED BY <4>2 DEF y, z
    <3> QED BY <1>2, <3>1, <3>2
  <2>6. a[j + 1].len > 0 /\ a[j + 1].len \in Nat /\ a[j + 1].peer \in {p, q}
    BY <1>1, <1>5, <1>7, <2>1
  <2>7. CASE a[j + 1].peer = q
    <3>1. g[j + 1 + 1] = g[j + 1] + a[j + 1].len
      BY <1>5, <2>1, <2>7
    <3> QED BY <2>3, <2>4, <2>6, <3>1
  <2>8. CASE a[j + 1].peer = p
    <3>1. f[j + 1 + 1] = f[j + 1] + a[j + 1].len
      BY <1>5, <2>1, <2>8
    <3> QED BY <2>2, <2>3, <2>5, <2>6, <3>1
  <2> QED BY <2>6, <2>7, <2>8
<1> QED BY <1>9, <1>10 DEF i, j, q

\* The invariant implies the property.
LEMMA InvInStep ==
  ASSUME L4Inv
  PROVE  InStep
<1> SUFFICES ASSUME Tcp, stream.orderly PROVE SameConversation /\ NothingLeftBehind /\ FinishedMeansPlayed
  BY DEF InStep
<1>1. PlayedList(Actions) /\ ConnInv(Actions, ctx, net) /\ RunOK(Actions, ctx, net, outcome, reached)
  BY ListIsPlayed DEF L4Inv, Conversation
<1>2. SameConversation
  <2> SUFFICES ASSUME Open("client"), Open("server"), NEW p \in Peers
               PROVE  LET q == Other(p) IN
                      /\ ctx[p].ackd <= ctx[q].recv
                      /\ ctx[p].act > ctx[q].act => ctx[p].act = ctx[q].act + 1 /\ Act(ctx[q]).peer = q
    BY DEF SameConversation
  <2> DEFINE q == Other(p)
  <2>1. q \in Peers /\ Other(q) = p
    BY TwoPeers
  <2>2. \A r \in Peers : OpenC(ctx[r]) /\ ctx[r].st # "GONE"
    BY DEF Open, OpenC, Peers
  <2>3. \A r \in Peers : CtxOK(Actions, r, ctx[r]) /\ Known(ctx[r]) /\ Sending(ctx[r])
    BY <1>1, <2>2 DEF ConnInv, CtxOK, Known, Sending
  <2>4. Pair(Actions, p, ctx[p], ctx[q], net[p], net[q]) /\ Pair(Actions, q, ctx[q], ctx[p], net[q], net[p])
    BY <1>1, <2>1 DEF ConnInv
  <2>5. ctx[p].ackd <= ctx[q].recv /\ ctx[p].recv <= HighSent(ctx[q])
    BY <2>1, <2>2, <2>3, <2>4 DEF Pair, AckedGot, GotSent
  <2>6. ctx[p].act > ctx[q].act => ctx[p].act = ctx[q].act + 1 /\ Actions[ctx[q].act].peer = q
    BY <1>1, <2>1, <2>2, <2>3, <2>5, OneAhead
  <2> QED BY <2>5, <2>6 DEF Act
<1>3. NothingLeftBehind
  BY <1>1 DEF NothingLeftBehind, NothingOutstanding, ToSend, Live, ConnInv, CtxOK, CtxEstablished
<1>4. FinishedMeansPlayed
  <2> SUFFICES ASSUME NEW p \in Peers, outcome[p] = "finished" PROVE reached[Other(p)] = Len(Actions)
    BY DEF FinishedMeansPlayed
  <2>1. Other(p) \in Peers /\ Other(Other(p)) = p
    BY TwoPeers
  <2> QED BY <1>1, <2>1 DEF RunOK
<1> QED BY <1>2, <1>3, <1>4

\* The two ends of a TCP connection agree, whatever segments are lost.
THEOREM StreamsAgree == L4Spec => []InStep
<1>1. L4Init => L4Inv
  BY L4Start
<1>2. L4Inv /\ [L4Next]_l4_vars => L4Inv'
  BY L4Step
<1>3. L4Inv => InStep
  BY InvInStep
<1> QED BY <1>1, <1>2, <1>3, PTL DEF L4Spec
=============================================================================
