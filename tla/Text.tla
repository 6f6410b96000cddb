-------------------------------- MODULE Text --------------------------------
(***************************************************************************)
(* string.c over vec.h: a text with its terminator in a buffer that is     *)
(* enlarged when it is full.  Requests, responses, urls and error messages *)
(* are such strings, so that an allocation that fails halfway through an   *)
(* operation must leave the string as it was.  `text' says what the string *)
(* should be.  A byte of a buffer is a character, the terminator or, where *)
(* nothing was written, anything.                                          *)
(***************************************************************************)
EXTENDS Integers, Sequences, SequencesExt

CONSTANTS
    Chars,      \* the characters
    MaxLen,     \* bound: a text has at most that many
    Slice       \* bound: and so many are appended at once

VARIABLES
    vec,        \* the storage of the string, as long as its capacity, and len
    text,       \* what the string should be
    slipped     \* remove_slice was called in a way it does not support

vars == <<vec, text, slipped>>

NUL == "NUL"
ANY == "any"
Slices == UNION {[1..n -> Chars] : n \in 0..Slice}

capacity(v) == Len(v.storage)

\* the bytes s are copied to the place after the first `at'
memmove(storage, at, s) ==
    [i \in DOMAIN storage |-> IF i > at /\ i <= at + Len(s) THEN s[i - at] ELSE storage[i]]
-----------------------------------------------------------------------------
(* vec.h *)

vec_new == [storage |-> <<>>, len |-> 0]

vec_resize(v, new_capacity) ==
    [v EXCEPT !.storage = [i \in 1..new_capacity |-> IF i <= capacity(v) THEN @[i] ELSE ANY]]

vec_enlarge(v) == vec_resize(v, IF capacity(v) = 0 THEN 1 ELSE 2 * capacity(v))

\* an insertion, and whether it needs memory
vec_insert_allocates(v) == capacity(v) <= v.len

vec_insert(v, pos, c) ==
    LET w == IF vec_insert_allocates(v) THEN vec_enlarge(v) ELSE v
    IN  [storage |-> memmove(memmove(w.storage, pos + 1, SubSeq(w.storage, pos + 1, w.len)), pos, <<c>>),
         len |-> w.len + 1]

vec_push(v, c) == vec_insert(v, v.len, c)

\* append and append_slice enlarge the buffer to what is needed
vec_append_allocates(v, s) == capacity(v) <= v.len + Len(s) /\ capacity(v) # v.len + Len(s)

vec_append(v, s) ==
    LET w == IF capacity(v) <= v.len + Len(s) THEN vec_resize(v, v.len + Len(s)) ELSE v
    IN  [storage |-> memmove(w.storage, w.len, s), len |-> w.len + Len(s)]

vec_remove(v, pos) ==
    [storage |-> memmove(v.storage, pos, SubSeq(v.storage, pos + 2, v.len)), len |-> v.len - 1]

\* as many bytes are moved as are removed, from start + end on
vec_remove_slice(v, start, end) ==
    LET from == start + end
    IN  [storage |-> memmove(v.storage, start,
             [i \in 1..(end - start) |-> IF from + i <= capacity(v) THEN v.storage[from + i] ELSE ANY]),
         len |-> v.len - (end - start)]

vec_set_len(v, n) == [v EXCEPT !.len = n]

vec_clone(v) == [storage |-> SubSeq(v.storage, 1, v.len), len |-> v.len]
-----------------------------------------------------------------------------
(* string.c: an action is an operation that succeeds or that fails *)

string_len == vec.len - 1

\* the string becomes v, which should be the text t
Becomes(v, t) == Len(t) <= MaxLen /\ vec' = v /\ text' = t /\ UNCHANGED slipped

\* the operation fails and leaves the string v
Fails(v) == vec' = v /\ UNCHANGED <<text, slipped>>

string_insert(pos, c) ==
    \/ Becomes(vec_insert(vec, pos, c), InsertAt(text, pos + 1, c))
    \/ vec_insert_allocates(vec) /\ Fails(vec)

string_push(c) == string_insert(vec.len - 1, c)

\* the terminator of s takes the place of this one's
string_append(s) ==
    LET open == vec_remove(vec, vec.len - 1)
    IN  \/ Becomes(vec_append(open, Append(s, NUL)), text \o s)
        \/ vec_append_allocates(open, Append(s, NUL)) /\ Fails(vec_push(open, NUL))

\* mutant: after a failure the length stays
string_restored_longer(v, len) == [v EXCEPT !.storage[len] = NUL]

\* the string after a failure, when it may have grown
string_restored(v, len) == vec_set_len([v EXCEPT !.storage[len] = NUL], len)

\* the slice is appended, then the terminator; either may need memory
string_append_slice(s) ==
    LET open == vec_remove(vec, vec.len - 1)
        longer == vec_append(open, s)
    IN  \/ Becomes(vec_push(longer, NUL), text \o s)
        \/ vec_append_allocates(open, s) /\ Fails(string_restored(vec_push(open, NUL), vec.len))
        \/ vec_insert_allocates(longer) /\ Fails(string_restored(longer, vec.len))

\* the buffer gets exactly the size needed, also when it was larger
string_appendf(s) ==
    LET v == vec_resize(vec, vec.len + Len(s))
    IN  \/ Becomes([storage |-> memmove(v.storage, vec.len - 1, Append(s, NUL)), len |-> vec.len + Len(s)],
                   text \o s)
        \/ capacity(vec) # vec.len + Len(s) /\ Fails(vec)

string_remove(pos) == Becomes(vec_remove(vec, pos), RemoveAt(text, pos + 1))

string_pop == string_len > 0 /\ string_remove(string_len - 1)

string_set_len(n) ==
    Becomes(vec_set_len([vec EXCEPT !.storage[n + 1] = NUL], n + 1), SubSeq(text, 1, n))

string_clear == Becomes([vec_set_len(vec, 1) EXCEPT !.storage[1] = NUL], <<>>)

\* It works when the slice is at the start and as long as the rest with its
\* terminator at least; nobody calls it.
string_remove_slice(start, end) ==
    /\ vec' = vec_remove_slice(vec, start, end)
    /\ text' = SubSeq(text, 1, start) \o SubSeq(text, end + 1, Len(text))
    /\ slipped' = (start > 0 \/ vec.len - end > end - start)

string_clone == Becomes(vec_clone(vec), text)

\* character by character; without memory the string is freed and another made
string_from_slice(s) ==
    LET made[i \in 0..Len(s)] ==
            IF i = 0 THEN vec_push(vec_new, NUL) ELSE vec_insert(made[i - 1], i - 1, s[i])
    IN  Becomes(made[Len(s)], s)

string_sprintf(s) == Becomes([storage |-> Append(s, NUL), len |-> Len(s) + 1], s)

\* a buffer from elsewhere, larger than its text
string_from_raw(s, n) ==
    Becomes([storage |-> s \o <<NUL>> \o [i \in 1..n |-> ANY], len |-> Len(s) + 1], s)

Init == vec = vec_push(vec_new, NUL) /\ text = <<>> /\ slipped = FALSE

Next ==
    /\ ~slipped
    /\ \/ \E c \in Chars : string_push(c) \/ \E pos \in 0..string_len : string_insert(pos, c)
       \/ \E s \in Slices :
              \/ string_append(s) \/ string_append_slice(s) \/ string_appendf(s)
              \/ string_from_slice(s) \/ string_sprintf(s) \/ string_from_raw(s, 1)
       \/ \E pos \in 0..(string_len - 1) : string_remove(pos)
       \/ \E n \in 0..string_len : string_set_len(n)
       \/ \E i, j \in 0..string_len : i < j /\ string_remove_slice(i, j)
       \/ string_pop \/ string_clear \/ string_clone

Spec == Init /\ [][Next]_vars
-----------------------------------------------------------------------------
\* A string is its text followed by one terminator, within its buffer, after
\* every operation and after every one that failed for want of memory, at
\* whichever of its allocations.  (remove_slice is excepted where it moves the
\* wrong bytes.)
StringHoldsText ==
    \/ slipped
    \/ /\ vec.len = Len(text) + 1 /\ vec.len <= capacity(vec)
       /\ SubSeq(vec.storage, 1, vec.len) = Append(text, NUL)
=============================================================================
