-------------------------------- MODULE Sds --------------------------------
(***************************************************************************)
(* The dynamic strings of hiredis (sds.c), as the buffers of a connection  *)
(* use them.  A string has a header whose fields for its length and for    *)
(* the room allocated are 5, 8, 16, 32 or 64 bits wide; what is appended   *)
(* may call for a wider header.  A character is any value.                 *)
(***************************************************************************)
EXTENDS Integers, Sequences

CONSTANTS
    Limit,       \* sdsReqType: a string shorter than Limit[t] gets header t
    MaxPrealloc  \* SDS_MAX_PREALLOC

HeaderType == 0..4   \* SDS_TYPE_5, _8, _16, _32, _64

ASSUME LimitAssumption ==
    /\ Limit \in [0..3 -> Nat]
    /\ 0 < Limit[0]
    /\ \A t \in 1..3 : Limit[t - 1] < Limit[t]
ASSUME PreallocAssumption == MaxPrealloc \in Nat

\* sdsReqType: the narrowest header for a string of n characters.
sdsReqType(n) == IF n < Limit[0] THEN 0 ELSE
                 IF n < Limit[1] THEN 1 ELSE IF n < Limit[2] THEN 2 ELSE
                 IF n < Limit[3] THEN 3 ELSE 4

\* What a length becomes in a field of header t (0xff is Limit[1], the largest
\* value of its field; type 5 has as many values as Limit[0]).
Field(t, n) == CASE t = 0 -> n % Limit[0]
                 [] t = 4 -> n
                 [] OTHER -> n % (Limit[t] + 1)

\* A string: its header and the characters behind it.
Header(t, len, alloc, chars) ==
    [type |-> t, len |-> Field(t, len), alloc |-> Field(t, alloc), chars |-> chars]

\* sdsnewlen: an empty string is created in order to append, and gets type 8.
sdsnewlen(init) ==
    LET t == sdsReqType(Len(init))
    IN  Header(IF t = 0 /\ init = <<>> THEN 1 ELSE t, Len(init), Len(init), init)

sdsempty == sdsnewlen(<<>>)

\* sdsavail: a type 5 header has no field for the room.
sdsavail(s) == IF s.type = 0 THEN 0 ELSE s.alloc - s.len

\* Mutant: the room left is compared with the new length.
BugMakeRoomFor(s, addlen) ==
    IF s.alloc >= addlen THEN s
    ELSE LET newlen == IF s.len + addlen < MaxPrealloc
                       THEN 2 * (s.len + addlen) ELSE s.len + addlen + MaxPrealloc
         IN  Header(IF sdsReqType(newlen) = 0 THEN 1 ELSE sdsReqType(newlen),
                    s.len, newlen, SubSeq(s.chars, 1, s.len))

\* sdsMakeRoomFor: nothing to do, or twice the room needed (MaxPrealloc more
\* for a long string) behind a header that is wide enough.
sdsMakeRoomFor(s, addlen) ==
    IF sdsavail(s) >= addlen THEN s
    ELSE LET newlen == IF s.len + addlen < MaxPrealloc
                       THEN 2 * (s.len + addlen) ELSE s.len + addlen + MaxPrealloc
         IN  Header(IF sdsReqType(newlen) = 0 THEN 1 ELSE sdsReqType(newlen),
                    s.len, newlen, SubSeq(s.chars, 1, s.len))

\* sdscatlen
sdscatlen(s, t) ==
    LET r == sdsMakeRoomFor(s, Len(t))
    IN  Header(r.type, s.len + Len(t), r.alloc, SubSeq(r.chars, 1, s.len) \o t)

\* sdsrange(s, start, -1), for 0 <= start.
sdsrange(s, start) ==
    IF s.len = 0 THEN s
    ELSE LET end == s.len - 1
             newlen == IF start > end THEN 0 ELSE end - start + 1
         IN  Header(s.type, newlen, s.alloc, SubSeq(s.chars, start + 1, start + newlen))

\* The length is that of the characters, there is room for them, and the
\* header is wide enough for both numbers.
SdsOK(s) ==
    /\ s.type \in HeaderType
    /\ s.len = Len(s.chars) /\ s.len <= s.alloc
    /\ s.type = 0 => s.alloc = s.len
=============================================================================
