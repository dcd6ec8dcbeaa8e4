---------------------------- MODULE ByteSequence ----------------------------
(***************************************************************************)
(* What a link buffer is to those who use it: one sequence of bytes,       *)
(* whatever its pages, but for a patch that lies on two of them.  The      *)
(* actions are the operations with what each is asked to do.               *)
(***************************************************************************)
EXTENDS Naturals, Sequences

CONSTANTS
  Behind,  \* what lies behind the data of a patch
  PageSize

VARIABLES
  bytes,
  dst,   \* what the last operation copied out
  copied \* how much the last operation wrote

Push(data) ==
  /\ bytes' = bytes \o data
  /\ copied' = Len(data)
  /\ dst' = <<>>

Copy(n) ==
  /\ dst' = SubSeq(bytes, 1, n)
  /\ copied' = n
  /\ UNCHANGED bytes

\* As much as went to the first of two pages is copied once too often to the
\* second, as far as there are bytes.
Beyond(offset, len, size) ==
  LET room == PageSize - (offset % PageSize)
      behind == size - (offset + len)
  IN IF len <= room THEN 0 ELSE IF behind < room THEN behind ELSE room

\* A patch replaces the bytes at the offset it was given, and no other byte if
\* it lies on one page.
Patch(offset, data) ==
  LET beyond == Beyond(offset, Len(data), Len(bytes))
  IN /\ bytes' = [n \in DOMAIN bytes |->
                    IF n - offset \in 1 .. Len(data) THEN data[n - offset]
                    ELSE IF n - offset \in Len(data) + 1 .. Len(data) + beyond THEN Behind
                    ELSE bytes[n]]
     /\ copied' = Len(data) + beyond
     /\ dst' = <<>>

Clear ==
  /\ bytes' = <<>>
  /\ copied' = 0
  /\ dst' = <<>>
=============================================================================
