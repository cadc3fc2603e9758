-------------------------------- MODULE Heap --------------------------------
(***************************************************************************)
(* The pairing heap that orders the timers of the L4 generator (heap.c).   *)
(* Its elements are linked by hand: child points to the first child, next  *)
(* to the next sibling, and prev to the previous sibling or, from a first  *)
(* child, to the parent.  An element belongs to one heap_ref as long as it *)
(* is in the heap, so that references stand for elements here.  What an       *)
(* element that left the heap still holds is overwritten when it is used   *)
(* again (heap_add), and forgotten here.                                   *)
(***************************************************************************)
EXTENDS Integers, FiniteSets

CONSTANTS
  HeapRefs,        \* the heap_refs of all bundles: max_elems
  HeapPriorities,  \* times at which a timer may expire
  HeapNull

ASSUME HeapAssumption ==
  HeapNull \notin HeapRefs /\ HeapPriorities \subseteq Nat /\ IsFiniteSet(HeapRefs)

VARIABLES
  heap,      \* [top, priority, prev, next, child]
  in_heap    \* the references whose elem is not NULL

heap_vars == <<heap, in_heap>>

HeapInit ==
  /\ heap = [top |-> HeapNull, priority |-> [e \in HeapRefs |-> 0],
             prev |-> [e \in HeapRefs |-> HeapNull], next |-> [e \in HeapRefs |-> HeapNull],
             child |-> [e \in HeapRefs |-> HeapNull]]
  /\ in_heap = {}

\* x->link = v, for x # NULL.
Link(link, x, v) == IF x = HeapNull THEN link ELSE [link EXCEPT ![x] = v]

-----------------------------------------------------------------------------
(***************************************************************************)
(* Merging of siblings.                                                    *)
(***************************************************************************)

\* Mutant: the old first child of the left element keeps its prev.
merge_left_unlinked(h, left, right) ==
  [h EXCEPT !.prev = Link(@, h.next[right], left),
            !.next = [@ EXCEPT ![left] = h.next[right], ![right] = h.child[left]],
            !.child[left] = right]

\* The right element becomes the first child of the left one.
heap_merge_tops_left(h, left, right) ==
  [h EXCEPT !.prev = Link(Link(@, h.next[right], left), h.child[left], right),
            !.next = [@ EXCEPT ![left] = h.next[right], ![right] = h.child[left]],
            !.child[left] = right]

\* The left element becomes the first child of the right one.
heap_merge_tops_right(h, left, right) ==
  [h EXCEPT !.prev = [Link(@, h.child[right], left) EXCEPT ![right] = h.prev[left], ![left] = right],
            !.next = [Link(@, h.prev[left], right) EXCEPT ![left] = h.child[right]],
            !.child[right] = left]

Lower(h, e, f) == h.priority[e] < h.priority[f]

\* A pass makes at most one step for each element; f is the pass, step by step.
Rounds == 0 .. Cardinality(HeapRefs)

\* Forward pass of heap_merge_children: the pair last and n is merged, and the
\* next pair is behind it.  Without n the pass is over, at last.
ForwardStep(s) ==
  LET tmp == s.heap.next[s.n]
      won == IF Lower(s.heap, s.last, s.n) THEN s.last ELSE s.n
      g == IF won = s.last THEN heap_merge_tops_left(s.heap, s.last, s.n)
                           ELSE heap_merge_tops_right(s.heap, s.last, s.n)
  IN IF s.n = HeapNull THEN s
     ELSE IF tmp = HeapNull THEN [heap |-> g, last |-> won, n |-> HeapNull]
     ELSE [heap |-> [g EXCEPT !.prev[tmp] = won], last |-> tmp, n |-> g.next[tmp]]
Forward(h, e, n) ==
  LET f[k \in Rounds] == IF k = 0 THEN [heap |-> h, last |-> e, n |-> n] ELSE ForwardStep(f[k - 1])
  IN f[Cardinality(HeapRefs)]

\* Backward pass: last is merged with its left neighbour, up to the first.
BackwardStep(s) ==
  LET p == s.heap.prev[s.last] IN
  IF s.first = s.last THEN s
  ELSE IF Lower(s.heap, s.last, p)
       THEN [heap |-> heap_merge_tops_right(s.heap, p, s.last), last |-> s.last,
             first |-> IF p = s.first THEN s.last ELSE s.first]
       ELSE [heap |-> heap_merge_tops_left(s.heap, p, s.last), last |-> p, first |-> s.first]
Backward(h, first, e) ==
  LET f[k \in Rounds] == IF k = 0 THEN [heap |-> h, last |-> e, first |-> first] ELSE BackwardStep(f[k - 1])
  IN f[Cardinality(HeapRefs)]

heap_merge_children(h, e) ==
  LET n == h.next[e] IN
  IF n = HeapNull THEN [heap |-> h, last |-> e]
  ELSE LET f == Forward(h, e, n) IN Backward(f.heap, IF Lower(h, e, n) THEN e ELSE n, f.last)

-----------------------------------------------------------------------------
(***************************************************************************)
(* The operations.                                                         *)
(***************************************************************************)

\* The element becomes the new top or the first child of the top.
heap_add(ref, priority) ==
  LET new == [heap EXCEPT !.priority[ref] = priority] IN
  /\ ref \notin in_heap
  /\ in_heap' = in_heap \cup {ref}
  /\ heap' =
       IF heap.top = HeapNull \/ heap.priority[heap.top] > priority
       THEN [new EXCEPT !.top = ref, !.prev = [Link(@, heap.top, ref) EXCEPT ![ref] = HeapNull],
                        !.next[ref] = HeapNull, !.child[ref] = heap.top]
       ELSE [new EXCEPT !.prev = [Link(@, heap.child[heap.top], ref) EXCEPT ![ref] = heap.top],
                        !.next[ref] = heap.child[heap.top], !.child[ref] = HeapNull,
                        !.child[heap.top] = ref]

\* heap_del of the top: its children are merged.
WithoutTop(h) ==
  LET c == h.child[h.top] IN
  IF c = HeapNull THEN [h EXCEPT !.top = HeapNull]
  ELSE LET m == heap_merge_children([h EXCEPT !.prev[c] = HeapNull], c) IN
       [m.heap EXCEPT !.top = m.last]

\* An inner element is taken out of the list of its siblings.
Unlinked(h, del) ==
  LET p == h.prev[del] IN
  [h EXCEPT !.child[p] = IF @ = del THEN h.next[del] ELSE @,
            !.next[p] = IF h.child[p] = del THEN @ ELSE h.next[del],
            !.prev = Link(@, h.next[del], p)]

\* Its children are merged, and the result t with the top.
Rejoined(h, t) ==
  IF Lower(h, h.top, t)
  THEN [h EXCEPT !.next[t] = h.child[h.top], !.child[h.top] = t,
                 !.prev = [Link(@, h.child[h.top], t) EXCEPT ![t] = h.top]]
  ELSE [h EXCEPT !.next[h.top] = h.child[t], !.child[t] = h.top, !.top = t,
                 !.prev = [Link(@, h.child[t], h.top) EXCEPT ![h.top] = t]]

WithoutInner(h, del) ==
  LET u == Unlinked(h, del)  c == u.child[del] IN
  IF c = HeapNull THEN u
  ELSE LET m == heap_merge_children([u EXCEPT !.prev[c] = HeapNull], c) IN Rejoined(m.heap, m.last)

Forgotten(h, e) ==
  [h EXCEPT !.priority[e] = 0, !.prev[e] = HeapNull, !.next[e] = HeapNull, !.child[e] = HeapNull]

heap_del(ref) ==
  /\ ref \in in_heap /\ in_heap' = in_heap \ {ref}
  /\ heap' = Forgotten(IF heap.prev[ref] = HeapNull THEN WithoutTop(heap)
                       ELSE WithoutInner(heap, ref), ref)

\* heap_pop when heap_top_is_lower: the reference of the top.
heap_pop == heap.top # HeapNull /\ heap_del(heap.top)

HeapNext ==
  \/ \E ref \in HeapRefs, p \in HeapPriorities : heap_add(ref, p)
  \/ \E ref \in HeapRefs : heap_del(ref)
  \/ heap_pop

HeapSpec == HeapInit /\ [][HeapNext]_heap_vars

-----------------------------------------------------------------------------
(***************************************************************************)
(* Properties.                                                             *)
(***************************************************************************)

\* heap_elem_calc_size, heap_elem_in_heap_elem: a set that leads nowhere else
\* along next and child.
LeadsWithin(U) ==
  \A e \in U : heap.next[e] \in U \cup {HeapNull} /\ heap.child[e] \in U \cup {HeapNull}

\* Exactly the elements that were added and not deleted can be reached from
\* the top.
NothingLost ==
  /\ heap.top \in in_heap \/ (heap.top = HeapNull /\ in_heap = {})
  /\ LeadsWithin(in_heap)
  /\ \A U \in SUBSET in_heap : heap.top \in U /\ LeadsWithin(U) => U = in_heap

\* The links back are those of the links forward; the top has no siblings.
LinkedBothWays ==
  /\ heap.top # HeapNull => heap.prev[heap.top] = HeapNull /\ heap.next[heap.top] = HeapNull
  /\ \A e \in in_heap :
       /\ heap.next[e] # HeapNull => heap.prev[heap.next[e]] = e
       /\ heap.child[e] # HeapNull => heap.prev[heap.child[e]] = e
       /\ e # heap.top => LET p == heap.prev[e] IN
            p \in in_heap /\ (heap.next[p] = e) # (heap.child[p] = e)

\* No timer expires before the top.
TopIsEarliest == \A e \in in_heap : heap.priority[heap.top] <= heap.priority[e]

\* Timers that are set, stopped in any order and popped are neither lost nor
\* delayed behind later ones.
HeapSound == NothingLost /\ LinkedBothWays /\ TopIsEarliest
=============================================================================
