----------------------------- MODULE LinkBuffer -----------------------------
(***************************************************************************)
(* The buffer that code, and the text of files, is collected in            *)
(* (linkbuffer.c): pages of one size in a list, of which only the last has *)
(* room.  The code generator pushes instructions, leaves placeholders for  *)
(* jumps, and patches them when it knows where their label is.             *)
(***************************************************************************)
EXTENDS Naturals, SequencesExt

CONSTANTS
  Byte, Zero,
  Behind,      \* what lies behind the bytes that a patch was given
  PageSize,    \* 1024 in the code
  PatchLength, \* 4 in the code
  MaxBytes     \* bound: size of a buffer

ASSUME LinkBufferAssumption ==
  /\ PageSize \in Nat \ {0} /\ PatchLength \in 1 .. PageSize /\ MaxBytes \in Nat
  /\ Zero \in Byte

VARIABLES
  buffer_pages, \* the data of each page
  placeholders, \* offsets that are still to be patched
  dst,          \* what the last operation copied out
  copied        \* the result of the last operation: a count of bytes

buffer_vars == <<buffer_pages, placeholders, dst, copied>>

\* snow_linkbuffer_size
BufferSize(ps) == IF ps = <<>> THEN 0 ELSE (Len(ps) - 1) * PageSize + Len(Last(ps))

\* snow_linkbuffer_push
PushByte(ps, b) ==
  IF ps = <<>> \/ Len(Last(ps)) = PageSize THEN Append(ps, <<b>>)
  ELSE [ps EXCEPT ![Len(ps)] = Append(@, b)]

\* snow_linkbuffer_push_data, snow_linkbuffer_push_string
PushAll(ps, data) ==
  LET pushed[i \in 0 .. Len(data)] == IF i = 0 THEN ps ELSE PushByte(pushed[i - 1], data[i])
  IN pushed[Len(data)]

\* snow_linkbuffer_copy_data
CopyPage(page, remaining) == SubSeq(page, 1, IF remaining < Len(page) THEN remaining ELSE Len(page))

BytesOf(ps, n) ==
  LET copied_out[k \in 0 .. Len(ps)] ==
        IF k = 0 THEN <<>>
        ELSE LET before == copied_out[k - 1] IN before \o CopyPage(ps[k], n - Len(before))
  IN copied_out[Len(ps)]

\* The bytes of a page, to_copy of them replaced by data[copied ..].
Overwritten(page, page_offset, to_copy, data, copied_before) ==
  [j \in DOMAIN page |->
     LET k == j - page_offset
         source == copied_before + k
     IN IF k \notin 1 .. to_copy THEN page[j]
        ELSE IF source \in DOMAIN data THEN data[source] ELSE Behind]

\* Mutant: the second page gets the data from its beginning.
ModifyPageAnew(s, page, offset, data) ==
  LET page_offset == offset + s.copied - s.buffer_offset
      remaining == Len(page) - page_offset
      to_copy == IF remaining < Len(data) THEN remaining ELSE Len(data)
      found == s.copied < Len(data) /\ page_offset \in 0 .. Len(page) - 1
  IN [copied |-> IF found THEN s.copied + to_copy ELSE s.copied,
      buffer_offset |-> s.buffer_offset + Len(page),
      pages |-> Append(s.pages,
                  IF found THEN Overwritten(page, page_offset, to_copy, data, 0) ELSE page)]

\* One turn of the loop of snow_linkbuffer_modify: how much to copy is taken from the
\* room in the page and the length of the patch, not from what is left of it.
ModifyPage(s, page, offset, data) ==
  LET page_offset == offset + s.copied - s.buffer_offset
      remaining == Len(page) - page_offset
      to_copy == IF remaining < Len(data) THEN remaining ELSE Len(data)
      found == s.copied < Len(data) /\ page_offset \in 0 .. Len(page) - 1
  IN [copied |-> IF found THEN s.copied + to_copy ELSE s.copied,
      buffer_offset |-> s.buffer_offset + Len(page),
      pages |-> Append(s.pages,
                  IF found THEN Overwritten(page, page_offset, to_copy, data, s.copied)
                  ELSE page)]

Modify(ps, offset, data) ==
  LET modified[k \in 0 .. Len(ps)] ==
        IF k = 0 THEN [copied |-> 0, buffer_offset |-> 0, pages |-> <<>>]
        ELSE ModifyPage(modified[k - 1], ps[k], offset, data)
  IN modified[Len(ps)]

(***************************************************************************)
(* The operations                                                          *)
(***************************************************************************)
BufferInit ==
  buffer_pages = <<>> /\ placeholders = {} /\ dst = <<>> /\ copied = 0

PushData(data) ==
  /\ BufferSize(buffer_pages) + Len(data) <= MaxBytes
  /\ buffer_pages' = PushAll(buffer_pages, data)
  /\ copied' = Len(data)
  /\ dst' = <<>>
  /\ UNCHANGED placeholders

\* asm_j, asm_jmp: zeroes that wait for a label.
PushPlaceholder ==
  LET offset == BufferSize(buffer_pages)
  IN /\ offset + PatchLength <= MaxBytes
     /\ buffer_pages' = PushAll(buffer_pages, [i \in 1 .. PatchLength |-> Zero])
     /\ placeholders' = placeholders \cup {offset}
     /\ copied' = PatchLength
     /\ dst' = <<>>

\* asm_link
Link(offset, data) ==
  LET s == Modify(buffer_pages, offset, data)
  IN /\ buffer_pages' = s.pages
     /\ copied' = s.copied
     /\ placeholders' = placeholders \ {offset}
     /\ dst' = <<>>

\* The code, or the text of a file, is copied to where it is used.
CopyOut(n) ==
  /\ dst' = BytesOf(buffer_pages, n) /\ copied' = Len(dst')
  /\ UNCHANGED <<buffer_pages, placeholders>>

\* Pages are freed; nothing is patched any more.
Clear ==
  /\ buffer_pages # <<>>
  /\ buffer_pages' = <<>> /\ placeholders' = {} /\ copied' = 0
  /\ dst' = <<>>

Patches == [1 .. PatchLength -> Byte]

BufferNext ==
  \/ \E b \in Byte : PushData(<<b>>)
  \/ PushPlaceholder
  \/ \E offset \in placeholders, data \in Patches : Link(offset, data)
  \/ \E n \in 0 .. MaxBytes : n <= BufferSize(buffer_pages) /\ CopyOut(n)
  \/ Clear

BufferSpec == BufferInit /\ [][BufferNext]_buffer_vars

(***************************************************************************)
(* Properties                                                              *)
(***************************************************************************)
\* However pushes, patches and copies fall on pages, the buffer is one
\* sequence of bytes; a patch goes to the offset that was asked for and changes
\* no other byte, but for those behind one that lies on two pages
\* (linkbuffer.c).
Bytes == FlattenSeq(buffer_pages)
Flat == INSTANCE ByteSequence WITH bytes <- Bytes

\* Each operation is that of the sequence with the same offset and data.
OperationsAreOfTheSequence ==
  /\ \A b \in Byte : PushData(<<b>>) => Flat!Push(<<b>>)
  /\ PushPlaceholder => Flat!Push([n \in 1 .. PatchLength |-> Zero])
  /\ \A offset \in placeholders, data \in Patches : Link(offset, data) => Flat!Patch(offset, data)
  /\ \A n \in 0 .. BufferSize(buffer_pages) : CopyOut(n) => Flat!Copy(n)
  /\ Clear => Flat!Clear

ImplementsByteSequence == [][OperationsAreOfTheSequence]_buffer_vars
=============================================================================
