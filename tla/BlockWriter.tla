---------------------------- MODULE BlockWriter ----------------------------
(***************************************************************************)
(* How pf_block_writer.c fills a buffer of limited size.  A block, like a  *)
(* record, is a sequence of fields (module RecordBlocks); the writer puts  *)
(* them one after the other and never reports that one did not fit.  Only  *)
(* positions and lengths are kept, not the bytes.                          *)
(*                                                                         *)
(* An integer is put byte by byte, so the first of its bytes may fit and   *)
(* the last not; a memory area is put as a whole or not at all.            *)
(***************************************************************************)
EXTENDS Integers, Sequences

CONSTANTS
  Records,  \* the sequences of fields that are put
  Rooms     \* res_len: the sizes of the buffers they are put into

VARIABLES
  room,  \* res_len
  todo,  \* the fields still to be put
  pos,   \* *p_pos
  open,  \* the blocks that are being put, the innermost first
  done,  \* the blocks that were finished, in the order of their ends
  owed,  \* for each list being put, entries announced and not yet put
  cut    \* some field was left out, or put in part

vars == <<room, todo, pos, open, done, owed, cut>>

HeaderLength == 6   \* sizeof (pf_block_header_t)

Init ==
  /\ room \in Rooms /\ todo \in Records
  /\ pos = 0 /\ open = <<>> /\ done = <<>> /\ owed = <<>> /\ cut = FALSE

Next1(kind) == todo # <<>> /\ Head(todo).kind = kind
Field == Head(todo)
Advance == todo' = Tail(todo) /\ UNCHANGED room

\* pf_put_byte(), n times from position p: as many as there is room for.
AfterBytes(p, n) == IF p + n <= room THEN p + n ELSE room
\* pf_put_mem(): all of it or nothing.
AfterMem(p, n) == IF p + n > room THEN p ELSE p + n

PutInt ==
  /\ Next1("int")
  /\ pos' = AfterBytes(pos, Field.size)
  /\ cut' = (cut \/ pos + Field.size > room)
  /\ Advance /\ UNCHANGED <<open, done, owed>>

PutMem ==
  /\ Next1("mem")
  /\ pos' = AfterMem(pos, Field.size)
  /\ cut' = (cut \/ pos + Field.size > room)
  /\ Advance /\ UNCHANGED <<open, done, owed>>

\* pf_put_str(): the room is checked for all of the string's buffer, then
\* the text is copied and filled up with blanks, without the termination.
AfterStr(p, size, len) ==
  AfterBytes(IF p + size > room THEN p ELSE p + len, size - 1 - len)

PutStr ==
  /\ Next1("str")
  /\ pos' = AfterStr(pos, Field.size, Field.len)
  /\ cut' = (cut \/ pos + Field.size > room)
  /\ Advance /\ UNCHANGED <<open, done, owed>>

\* pf_put_padding_align()
PadTo(p, start, align) == (align - ((p - start) % align)) % align

PutAlign ==
  /\ Next1("align")
  /\ LET start == IF Field.base = "zero" THEN 0 ELSE Head(open).from
         n     == PadTo(pos, start, Field.size)
     IN /\ pos' = AfterBytes(pos, n)
        /\ cut' = (cut \/ pos + n > room)
  /\ Advance /\ UNCHANGED <<open, done, owed>>

\* A block begins with its header; the data of a response has none.
OpenBlock ==
  /\ Next1("open")
  /\ LET n == IF Field.what = "block" THEN HeaderLength ELSE 0
         p == AfterBytes(pos, n)
     IN /\ pos' = p
        /\ open' = <<[what |-> Field.what, from |-> pos, body |-> p]>> \o open
        /\ cut' = (cut \/ pos + n > room)
  /\ Advance /\ UNCHANGED <<done, owed>>

\* data_pos: where the part begins that must not be empty.
MarkBody ==
  /\ Next1("body")
  /\ open' = <<[Head(open) EXCEPT !.body = pos]>> \o Tail(open)
  /\ Advance /\ UNCHANGED <<pos, done, owed, cut>>

\* Mutant: the length of a block with all of its header.
LengthOfAll(b, p) == p - b.from

\* block_len = *p_pos - (block_pos + 4), in 16 bits; the length of the data
\* of a response counts all of it.
LengthAt(b, p) ==
  IF b.what = "block" THEN (p - (b.from + 4)) % 65536 ELSE p - b.from

Finished(b) == [what |-> b.what, from |-> b.from, to |-> pos,
                len |-> LengthAt(b, pos), depth |-> Len(open) - 1]

\* The length is put into the header, which does not move the position.
CloseBlock ==
  /\ Next1("close")
  /\ done' = Append(done, Finished(Head(open)))
  /\ open' = Tail(open)
  /\ Advance /\ UNCHANGED <<pos, owed, cut>>

\* A block in which nothing was put is taken back: *p_pos = block_pos.
CloseOrTakeBack ==
  /\ Next1("closeIfAny")
  /\ IF Head(open).body < pos
     THEN done' = Append(done, Finished(Head(open))) /\ pos' = pos
     ELSE done' = done /\ pos' = Head(open).from
  /\ open' = Tail(open)
  /\ Advance /\ UNCHANGED <<owed, cut>>

\* The number of entries of a list, each entry, and the end of the list.
PutCount ==
  /\ Next1("count")
  /\ pos' = AfterBytes(pos, Field.size)
  /\ cut' = (cut \/ pos + Field.size > room)
  /\ owed' = <<Field.n>> \o owed
  /\ Advance /\ UNCHANGED <<open, done>>

BeginEntry ==
  /\ Next1("one")
  /\ owed' = <<Head(owed) - 1>> \o Tail(owed)
  /\ Advance /\ UNCHANGED <<pos, open, done, cut>>

EndList ==
  /\ Next1("all")
  /\ owed' = Tail(owed)
  /\ Advance /\ UNCHANGED <<pos, open, done, cut>>

TakeIfRoom ==
  /\ Next1("ifRoom")
  /\ todo' = IF pos + Field.size < room THEN Field.fields \o Tail(todo) ELSE Tail(todo)
  /\ cut' = (cut \/ pos + Field.size >= room)
  /\ UNCHANGED <<room, pos, open, done, owed>>

Finish == todo = <<>> /\ UNCHANGED vars

Next ==
  \/ PutInt \/ PutMem \/ PutStr \/ PutAlign
  \/ OpenBlock \/ MarkBody \/ CloseBlock \/ CloseOrTakeBack
  \/ PutCount \/ BeginEntry \/ EndList
  \/ TakeIfRoom
  \/ Finish

Spec == Init /\ [][Next]_vars

-----------------------------------------------------------------------------
(* Properties.                                                             *)

\* The buffer is never overrun, neither by a field nor by the pieces of one
\* that does not fit, whatever the record and the room; and no block begins
\* behind the position that was reached.
WithinRoom ==
  /\ pos \in 0 .. room
  /\ \A i \in DOMAIN open : open[i].from <= open[i].body /\ open[i].body <= pos

\* Whoever steps from block to block by their lengths (as the reader of
\* pf_cmrpc_rm_connect_interpret_ind() does) finds each block where it was
\* put and leaves none out: although the lengths are put in last, blocks are
\* nested, padded and taken back, and what does not fit is dropped.  A block
\* of which not even the header fits has no length.
WalkableByLength ==
  \A i \in DOMAIN done :
    done[i].to - done[i].from >= HeaderLength /\ done[i].what = "block" =>
      /\ done[i].from + 4 + done[i].len = done[i].to
      /\ \A j \in 1 .. i - 1 : \/ done[j].to <= done[i].from
                               \/ done[i].from + HeaderLength <= done[j].from

\* The data of a response (record_data_length, args_length) is its blocks, one
\* behind the other, and nothing else: a block that is taken back leaves no
\* bytes behind, and one that is cut is still counted.
DataIsItsBlocks ==
  \A i \in DOMAIN done : done[i].what = "data" =>
    LET parts == SelectSeq(done, LAMBDA b : /\ b.depth = done[i].depth + 1
                                           /\ done[i].from <= b.from)
    IN parts # <<>> =>
         /\ parts[1].from = done[i].from
         /\ \A j \in 2 .. Len(parts) : parts[j].from = parts[j - 1].to
         /\ parts[Len(parts)].to = done[i].from + done[i].len

\* A list that says it has n entries has n entries.
CountsTrue == Next1("all") => Head(owed) = 0
=============================================================================
