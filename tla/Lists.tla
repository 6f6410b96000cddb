------------------------------- MODULE Lists --------------------------------
(***************************************************************************)
(* The two doubly linked lists, at the level of their pointers: dlist.h,   *)
(* under the tasks of the thread pool, the entries of the proxy's cache    *)
(* and lab 17's bubble sort, and linked_list.c behind the lock of          *)
(* thread_safe_list.c, which keeps the words of labs 6 and 23.             *)
(*                                                                         *)
(* `abs' says what the list should be: the sequence of its nodes.  Every   *)
(* operation changes the pointers as the code does and `abs' as its name   *)
(* promises.  A list is used under one lock, so an operation is one step.  *)
(* An allocation that fails leaves the list alone and is not a step.       *)
(***************************************************************************)
EXTENDS Integers, Sequences, FiniteSets, SequencesExt

CONSTANTS
    Cells,      \* bound: the nodes there is memory for, 1 to their number
    Values      \* what the nodes hold, ordered as integers

VARIABLES
    kind,       \* which list: "dlist", "list", or lab 17's "sorted"
    heap,       \* the fields of the nodes, and which of them are allocated
    self,       \* the list's head, end and len
    other,      \* a second list
    abs,        \* the sequences of nodes the two should be
    phase       \* "run", "spliced" after insert_sub_list, "freed"

vars == <<kind, heap, self, other, abs, phase>>

NULL == 0
New == [head |-> NULL, end |-> NULL, len |-> 0]

\* assignment to a field of the node n, if it is one
Put(f, n, v) == IF n = NULL THEN f ELSE [f EXCEPT ![n] = v]

\* where a node is in a sequence, and the sequence without it
Pos(seq, n) == CHOOSE i \in DOMAIN seq : seq[i] = n
Without(seq, n) == SelectSeq(seq, LAMBDA m : m # n)

\* the nodes met from n along the field f (one too many if they form a circle)
Follow(f, n) ==
    LET at[i \in 0..Cardinality(Cells)] ==
            IF i = 0 THEN n ELSE IF at[i - 1] = NULL THEN NULL ELSE f[at[i - 1]]
    IN  SelectSeq([i \in 1..(Cardinality(Cells) + 1) |-> at[i - 1]], LAMBDA m : m # NULL)

Fresh == CHOOSE n \in Cells \ heap.live : \A m \in Cells \ heap.live : n <= m
-----------------------------------------------------------------------------
(* dlist.h: each operator gives the heap h and the list l of the result.   *)

link(h, p, n) == [h EXCEPT !.next = Put(@, p, n), !.prev = Put(@, n, p)]

unlink_prev(h, n) ==
    [h EXCEPT !.next = Put(@, h.prev[n], h.next[n]), !.prev = Put(@, n, NULL)]

unlink_both(h, n) ==
    [h EXCEPT !.next = Put(Put(@, h.prev[n], h.next[n]), n, NULL),
              !.prev = Put(Put(@, h.next[n], h.prev[n]), n, NULL)]

new_node(h, n, v) ==
    [h EXCEPT !.val[n] = v, !.prev[n] = NULL, !.next[n] = NULL, !.live = @ \union {n}]

insert_after(h, l, n, v, prev) ==
    LET next == IF prev # NULL THEN h.next[prev] ELSE l.head
        made == new_node(h, n, v)
        cut == IF next # NULL THEN unlink_prev(made, next) ELSE made
    IN  [h |-> link(link(cut, prev, n), n, next),
         l |-> [head |-> IF prev = NULL THEN n ELSE l.head,
                end |-> IF next = NULL THEN n ELSE l.end, len |-> l.len + 1]]

append(h, l, n, v) == insert_after(h, l, n, v, l.end)

insert_before(h, l, n, v, next) ==
    IF next = NULL THEN append(h, l, n, v) ELSE insert_after(h, l, n, v, h.prev[next])

\* mutant: the end is not moved
pluck_keeps_end(h, l, n) ==
    [h |-> unlink_both(h, n),
     l |-> [head |-> IF n = l.head THEN h.next[n] ELSE l.head, end |-> l.end, len |-> l.len - 1]]

\* the node leaves the list; the result is also the list of that node alone
pluck(h, l, n) ==
    [h |-> unlink_both(h, n),
     l |-> [head |-> IF n = l.head THEN h.next[n] ELSE l.head,
            end |-> IF n = l.end THEN h.prev[n] ELSE l.end, len |-> l.len - 1]]

remove(h, l, n) == [pluck(h, l, n) EXCEPT !.h.live = @ \ {n}]

concat(h, l, o) ==
    IF o.len = 0 THEN [h |-> h, l |-> l]
    ELSE IF l.len = 0 THEN [h |-> h, l |-> o]
    ELSE [h |-> link(h, l.end, o.head), l |-> [head |-> l.head, end |-> o.end, len |-> l.len + o.len]]

\* the two change names when rhs comes directly before lhs, their neighbours
\* do not
swap(h, l, lhs0, rhs0) ==
    LET turned == h.next[rhs0] = lhs0
        lhs == IF turned THEN rhs0 ELSE lhs0
        rhs == IF turned THEN lhs0 ELSE rhs0
        outer == link(link(h, h.prev[lhs0], rhs), lhs, h.next[rhs0])
        other_end(n) == IF n = lhs THEN rhs ELSE IF n = rhs THEN lhs ELSE n
    IN  IF lhs0 = rhs0 THEN [h |-> h, l |-> l]
        ELSE [h |-> IF h.next[lhs0] = rhs THEN link(outer, rhs, lhs)
                    ELSE link(link(outer, rhs, h.next[lhs0]), h.prev[rhs0], lhs),
              l |-> [l EXCEPT !.head = other_end(@), !.end = other_end(@)]]

\* after = NULL means the head, as in the code
move_after(h, l, n, after0) ==
    LET after == IF after0 = NULL THEN l.head ELSE after0
        moved == link(link(unlink_both(h, n), after, n), n, h.next[after])
    IN  IF after0 \in {n, h.prev[n]} \/ after \in {n, h.prev[n]} THEN [h |-> h, l |-> l]
        ELSE [h |-> moved,
              l |-> [l EXCEPT !.head = IF n = @ THEN h.next[n] ELSE @,
                              !.end = IF n = @ THEN h.prev[n] ELSE IF after = @ THEN n ELSE @]]

move_before(h, l, n, before) ==
    IF before \in {n, h.next[n]} THEN [h |-> h, l |-> l]
    ELSE IF before = NULL THEN move_after(h, l, n, l.end)
    ELSE [h |-> link(link(unlink_both(h, n), h.prev[before], n), n, before),
          l |-> [l EXCEPT !.head = IF n = @ THEN h.next[n] ELSE IF before = @ THEN n ELSE @,
                          !.end = IF n = @ THEN h.prev[n] ELSE @]]
-----------------------------------------------------------------------------
(* Lab 17 sorts the list under its lock each time its wait has timed out. *)

\* one node of a pass: b is the list so far, the node, and whether anything was swapped
bubble_node(b, sorted_start) ==
    LET prev == b.s.h.prev[b.node]
        wrong == b.s.h.val[prev] > b.s.h.val[b.node]
        t == IF wrong THEN swap(b.s.h, b.s.l, prev, b.node) ELSE b.s
    IN  IF b.node \in {NULL, sorted_start} THEN b
        ELSE [s |-> t, node |-> t.h.next[b.node], swapped |-> b.swapped \/ wrong]

\* a pass; the node before one that was swapped is met again, so none more than twice
bubble_pass(s, node, sorted_start) ==
    LET after[i \in 0..(2 * Cardinality(Cells))] ==
            IF i = 0 THEN [s |-> s, node |-> node, swapped |-> FALSE]
            ELSE bubble_node(after[i - 1], sorted_start)
    IN  after[2 * Cardinality(Cells)]

\* mutant: the first pass is taken to have put two nodes in place
bubble_two_sorted(s, sorted_start) ==
    IF sorted_start = NULL THEN s.h.prev[s.l.end] ELSE s.h.prev[sorted_start]

\* where the sorted rest starts after one more pass
bubble_sorted_start(s, sorted_start) ==
    IF sorted_start = NULL THEN s.l.end ELSE s.h.prev[sorted_start]

\* passes until nothing is swapped; no list needs more of them than it has nodes
bubble_sort(s) ==
    LET second(r) == IF r.l.head = NULL THEN NULL ELSE r.h.next[r.l.head]
        pass(r, start) == bubble_pass(r, second(r), start)
        after[i \in 0..Cardinality(Cells)] ==
            IF i = 0 THEN [s |-> s, start |-> NULL, swapped |-> TRUE]
            ELSE LET b == after[i - 1]
                     p == pass(b.s, b.start)
                 IN  IF ~b.swapped THEN b
                     ELSE [s |-> p.s, swapped |-> p.swapped,
                           start |-> IF p.swapped THEN bubble_sorted_start(p.s, b.start) ELSE b.start]
    IN  after[Cardinality(Cells)].s
-----------------------------------------------------------------------------
(* linked_list.c *)

init_list_node(h, n, v) == new_node(h, n, v)

append_list_node(h, l, n) ==
    IF l.len = 0 THEN [h |-> h, l |-> [head |-> n, end |-> n, len |-> 1]]
    ELSE [h |-> [h EXCEPT !.next[l.end] = n, !.prev[n] = l.end, !.next[n] = NULL],
          l |-> [l EXCEPT !.end = n, !.len = @ + 1]]

pop_list_node(h, l) ==
    IF l.len = 1 THEN [h |-> h, l |-> New]
    ELSE [h |-> [h EXCEPT !.prev[h.next[l.head]] = NULL],
          l |-> [l EXCEPT !.head = h.next[l.head], !.len = @ - 1]]

get_by_pos(h, l, pos) == Follow(h.next, l.head)[pos + 1]

push_to_tail_node(h, l, n) ==
    IF l.len = 1 \/ h.next[n] = NULL THEN [h |-> h, l |-> l]
    ELSE [h |-> [h EXCEPT !.prev = [@ EXCEPT ![h.next[n]] = h.prev[n], ![n] = l.end],
                          !.next = [Put(@, h.prev[n], h.next[n]) EXCEPT ![l.end] = n, ![n] = NULL]],
          l |-> [l EXCEPT !.head = IF h.prev[n] = NULL THEN h.next[n] ELSE @, !.end = n]]

\* the node at pos is replaced by the nodes of sub; len stays as it was
insert_sub_list(h, l, sub, pos) ==
    LET n == get_by_pos(h, l, pos)
        before == link(h, h.prev[n], sub.head)
        both == IF h.next[n] # NULL THEN link(before, sub.end, h.next[n]) ELSE before
    IN  [h |-> [both EXCEPT !.live = @ \ {n}],
         l |-> [l EXCEPT !.end = IF h.next[n] = NULL THEN sub.end ELSE @]]
-----------------------------------------------------------------------------
(* The operations *)

\* the result r of an operation on the list, and what it should be
Does(r, should) ==
    /\ heap' = r.h /\ self' = r.l /\ abs' = [abs EXCEPT !.self = should]
    /\ UNCHANGED <<kind, other, phase>>

Room == Cells # heap.live
Nodes == ToSet(abs.self)

DlistOp ==
    \/ Room /\ \E p \in Nodes \union {NULL} :
           LET i == IF p = NULL THEN 1 ELSE Pos(abs.self, p) + 1
           IN  Does(insert_after(heap, self, Fresh, 1, p), InsertAt(abs.self, i, Fresh))
    \/ Room /\ \E p \in Nodes \union {NULL} :
           LET i == IF p = NULL THEN Len(abs.self) + 1 ELSE Pos(abs.self, p)
           IN  Does(insert_before(heap, self, Fresh, 1, p), InsertAt(abs.self, i, Fresh))
    \/ \E n \in Nodes : Does(remove(heap, self, n), Without(abs.self, n))
    \/ \E n, p \in Nodes : LET rest == Without(abs.self, n) IN
           /\ n # p
           /\ \/ Does(move_before(heap, self, n, p), InsertAt(rest, Pos(rest, p), n))
              \/ Does(move_after(heap, self, n, p), InsertAt(rest, Pos(rest, p) + 1, n))
    \/ \E n \in Nodes : LET rest == Without(abs.self, n) IN
           \/ Does(move_before(heap, self, n, NULL), Append(rest, n))
           \/ Does(move_after(heap, self, n, NULL),
                   IF n = self.head THEN abs.self ELSE InsertAt(rest, 2, n))
    \/ \E i, j \in DOMAIN abs.self :
           /\ j # i - 1   \* the order the code's one caller never uses
           /\ Does(swap(heap, self, abs.self[i], abs.self[j]),
                   [abs.self EXCEPT ![i] = abs.self[j], ![j] = abs.self[i]])

\* a node is plucked and concatenated to the second list, or all of that to
\* the first
DlistTwo ==
    \/ \E n \in Nodes :
           LET r == pluck(heap, self, n)
               o == concat(r.h, other, [head |-> n, end |-> n, len |-> 1])
           IN  /\ heap' = o.h /\ self' = r.l /\ other' = o.l /\ UNCHANGED <<kind, phase>>
               /\ abs' = [self |-> Without(abs.self, n), other |-> Append(abs.other, n)]
    \/ LET r == concat(heap, self, other)
       IN  /\ heap' = r.h /\ self' = r.l /\ other' = New /\ UNCHANGED <<kind, phase>>
           /\ abs' = [self |-> abs.self \o abs.other, other |-> <<>>]

append_ts ==
    /\ Room /\ \E v \in Values :
           Does(append_list_node(init_list_node(heap, Fresh, v), self, Fresh), Append(abs.self, Fresh))

pop_ts ==
    /\ self.len > 0
    /\ LET r == pop_list_node(heap, self)
       IN  Does([r EXCEPT !.h.live = @ \ {self.head}], Tail(abs.self))

push_to_tail ==
    \E pos \in 0..(self.len - 1) : LET n == get_by_pos(heap, self, pos) IN
        Does(push_to_tail_node(heap, self, n), Append(Without(abs.self, n), n))

\* map_ts replaces every value
map_ts ==
    \E v \in Values :
        Does([h |-> [heap EXCEPT !.val = [n \in Cells |-> IF n \in ToSet(Follow(heap.next, self.head)) THEN v ELSE @[n]]],
              l |-> self], abs.self)

\* a list is built beside the first and spliced into it
ListTwo ==
    \/ /\ Room /\ LET r == append_list_node(init_list_node(heap, Fresh, 1), other, Fresh)
          IN  /\ heap' = r.h /\ other' = r.l /\ UNCHANGED <<kind, self, phase>>
              /\ abs' = [abs EXCEPT !.other = Append(@, Fresh)]
    \/ /\ other.len > 0 /\ UNCHANGED kind /\ phase' = "spliced" /\ other' = New
       /\ \E pos \in 1..(self.len - 1) :
              LET r == insert_sub_list(heap, self, other, pos)
              IN  /\ heap' = r.h /\ self' = r.l
                  /\ abs' = [self |-> SubSeq(abs.self, 1, pos) \o abs.other \o SubSeq(abs.self, pos + 2, Len(abs.self)), other |-> <<>>]

\* lab 17: lines are appended, and the list is sorted, in any order
yanin17_process_line ==
    /\ Room /\ \E v \in Values :
           Does(append(heap, self, Fresh, v), Append(abs.self, Fresh))

\* a stable sort of the nodes
Sorted(seq) == SortSeq(seq, LAMBDA m, n : \/ heap.val[m] < heap.val[n]
                                          \/ heap.val[m] = heap.val[n] /\ Pos(seq, m) < Pos(seq, n))

yanin17_child_thread == Does(bubble_sort([h |-> heap, l |-> self]), Sorted(abs.self))

\* every node from the head on is freed, the next one read first
free ==
    /\ heap' = [heap EXCEPT !.live = @ \ ToSet(Follow(heap.next, self.head))]
    /\ self' = New /\ abs' = [abs EXCEPT !.self = <<>>]
    /\ phase' = "freed" /\ UNCHANGED <<kind, other>>

Init ==
    /\ kind \in {"dlist", "list", "sorted"}
    /\ heap = [next |-> [n \in Cells |-> NULL], prev |-> [n \in Cells |-> NULL],
               val |-> [n \in Cells |-> 1], live |-> {}]
    /\ self = New /\ other = New /\ abs = [self |-> <<>>, other |-> <<>>] /\ phase = "run"

Next ==
    /\ phase = "run"
    /\ \/ kind = "dlist" /\ (DlistOp \/ DlistTwo \/ free)
       \/ kind = "list" /\ (append_ts \/ pop_ts \/ push_to_tail \/ map_ts \/ ListTwo \/ free)
       \/ kind = "sorted" /\ (yanin17_process_line \/ yanin17_child_thread \/ free)

Spec == Init /\ [][Next]_vars
-----------------------------------------------------------------------------
(* What the lists promise *)

\* the pointers of a list say that it is the sequence seq
Represents(l, seq) ==
    /\ Follow(heap.next, l.head) = seq
    /\ Follow(heap.prev, l.end) = Reverse(seq)
    /\ l.len = Len(seq) \/ phase = "spliced"

\* After any operations the nodes reached forwards from the head, and backwards
\* from the end, are those the operations should have left, in their order, len
\* counts them (except after insert_sub_list, which does not), and no other
\* node is allocated.  In lab 17 the order after a sort is that of the values.
ListIsSequence ==
    /\ Represents(self, abs.self) /\ Represents(other, abs.other)
    /\ heap.live = ToSet(abs.self) \union ToSet(abs.other)

\* As its comments say, swap leaves rhs between lhs's old neighbours and lhs
\* between rhs's, whichever of the two comes first.
SwapExchanges ==
    kind = "dlist" => \A i, j \in DOMAIN abs.self :
        LET r == swap(heap, self, abs.self[i], abs.self[j])
        IN  Follow(r.h.next, r.l.head) = [abs.self EXCEPT ![i] = abs.self[j], ![j] = abs.self[i]]
=============================================================================
