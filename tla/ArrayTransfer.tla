---------------------------- MODULE ArrayTransfer ---------------------------
(***************************************************************************)
(* The transfers of a vuml::array::DeviceArray, byte by byte: the          *)
(* overloads of fromHost and toHost, and rangeToHost, through mapped       *)
(* memory where the array is host visible and through a staging HostArray  *)
(* and copy_buf where it is not.  Sizes are what the code computes: counts *)
(* of elements or of bytes, cut to 32 bits by size() and size_bytes().     *)
(*                                                                         *)
(* A transfer is one step, since one thread makes it; that the host and    *)
(* the GPU interleave inside copy_buf is the subject of Compute.           *)
(***************************************************************************)
EXTENDS Naturals, Sequences

CONSTANTS
  Byte,        \* the values of a byte
  ElemSize,    \* sizeof(value_type)
  Size,        \* size_, the number of elements
  Word,        \* 2^32: what a uint32_t is computed modulo
  Inputs,      \* the sequences of elements a client uploads
  MaxIndex,    \* bound: offsets and counts a client asks for
  Funcs,       \* the functions a client passes to toHost
  Null

Elem == [1 .. ElemSize -> Byte]

(* toHost(dst) and the copying rangeToHost pass elements on as they are.   *)
Plain == [e \in Elem |-> e]

Index == 0 .. MaxIndex
Uploads == [op : {"fromHost", "fromHostAt"}, xs : Inputs, offset : Index]
Downloads ==
  [op : {"toHost"}, func : Funcs \cup {Plain}]
    \cup [op : {"toHostN"}, size : Index \ {0}, func : Funcs]
    \cup {r \in [op : {"rangeToHost"}, first : Index, last : Index] :
            r.first < r.last}
Requests == {c \in Uploads : c.op = "fromHost" => c.offset = 0} \cup Downloads

ASSUME TransferAssumption ==
  /\ ElemSize \in Nat \ {0} /\ Size \in Nat \ {0} /\ Word \in Nat \ {0}
  /\ MaxIndex \in Nat
  /\ Inputs \subseteq Seq(Elem) \ {<<>>}
  /\ Funcs \subseteq [Elem -> Elem]
  /\ Byte # {}
  /\ Null \notin Requests

VARIABLES
  host_visible,  \* isHostVisible(); never changes
  data,          \* the bytes of the array
  mapped,        \* the memory of the array is mapped
  call,          \* the last transfer asked for, or Null
  reply,         \* what the last transfer wrote to the client, nothing if it
                 \* was an upload; Null after an exception
  interrupted,   \* history: a client's iterator or function has thrown
  misuse         \* history: "out of bounds", "mapped twice"

vars == <<host_visible, data, mapped, call, reply, interrupted, misuse>>

-----------------------------------------------------------------------------
(* Elements and bytes.                                                     *)

Bytes(xs) ==
  [i \in 1 .. Len(xs) * ElemSize |->
     xs[((i - 1) \div ElemSize) + 1][((i - 1) % ElemSize) + 1]]

Elements(bytes) ==
  [j \in 1 .. Len(bytes) \div ElemSize |->
     [k \in 1 .. ElemSize |-> bytes[(j - 1) * ElemSize + k]]]

Apply(func, xs) == [i \in DOMAIN xs |-> func[xs[i]]]

(* MUTANT of SizeBytes: a bit is lost.                                     *)
SizeBytesNarrow == (Size * ElemSize) % (Word \div 2 + 1)

(* size() and size_bytes() return uint32_t.                                *)
SizeOf == Size % Word
SizeBytes == (Size * ElemSize) % Word

(* n bytes after the first offset of a region of len bytes.                *)
Within(offset, n, len) == n > 0 /\ offset + n <= len

Copied(src, src_offset, dst, dst_offset, n) ==
  [i \in DOMAIN dst |->
     IF i > dst_offset /\ i <= dst_offset + n
       THEN src[i - dst_offset + src_offset] ELSE dst[i]]

-----------------------------------------------------------------------------
(* What each overload passes on.                                           *)

IsUpload(c) == c.op \in {"fromHost", "fromHostAt"}
FuncOf(c) == IF c.op = "rangeToHost" THEN Plain ELSE c.func

(* The number of elements that pass through the client's iterators, which  *)
(* is also the size of the staging buffer.                                 *)
CountOf(c) ==
  CASE IsUpload(c) -> Len(c.xs)
    [] c.op = "toHost" -> SizeOf
    [] c.op = "toHostN" -> c.size
    [] c.op = "rangeToHost" -> c.last - c.first

(* Mapped memory is entered at the element the range begins with.  The     *)
(* offset of fromHost is not looked at.                                    *)
HostOffset(c) == IF c.op = "rangeToHost" THEN c.first ELSE 0

(* The offsets of the copy command: that of fromHost counts bytes, that of *)
(* rangeToHost is the index of an element.                                 *)
SrcOffset(c) == IF c.op = "rangeToHost" THEN c.first ELSE 0
DstOffset(c) == IF c.op = "fromHostAt" THEN c.offset * ElemSize ELSE 0

(* The requests that do what they say.  Through the staging buffer the     *)
(* whole array is copied, so the client has to ask for all of it; through  *)
(* mapped memory for what there is, and from the beginning if it uploads.  *)
Sound(c) ==
  /\ Size * ElemSize < Word
  /\ c.op = "fromHostAt" => c.offset = 0
  /\ IF host_visible
       THEN HostOffset(c) + CountOf(c) <= Size
       ELSE SrcOffset(c) = 0 /\ CountOf(c) = Size

-----------------------------------------------------------------------------
Init ==
  /\ host_visible \in BOOLEAN
  /\ data \in [1 .. Size * ElemSize -> Byte]
  /\ mapped = FALSE
  /\ call = Null
  /\ reply = Null
  /\ interrupted = FALSE
  /\ misuse = {}

Call(c) ==
  /\ call' = c
  /\ UNCHANGED host_visible

(* Undefined behaviour is noted; the accesses hit what they hit.           *)
Note(twice, inside) ==
  misuse' = misuse \cup (IF twice THEN {"mapped twice"} ELSE {})
                   \cup (IF inside THEN {} ELSE {"out of bounds"})

-----------------------------------------------------------------------------
(* Host visible memory: host_data() maps size_bytes(), the elements are    *)
(* copied, the memory is unmapped.                                         *)

HostWithin(c) ==
  Within(HostOffset(c) * ElemSize, CountOf(c) * ElemSize, SizeBytes)

Written(c, k) ==
  IF HostWithin(c) THEN {Copied(Bytes(c.xs), 0, data, 0, k * ElemSize)}
  ELSE [DOMAIN data -> Byte]

(* MUTANT of FromHostMapped: the array becomes what it is given.           *)
FromHostReplaces(c) ==
  /\ Call(c) /\ host_visible /\ IsUpload(c)
  /\ data' = Bytes(c.xs)
  /\ mapped' = FALSE
  /\ Note(mapped, HostWithin(c))
  /\ reply' = <<>>
  /\ UNCHANGED interrupted

FromHostMapped(c) ==
  /\ Call(c) /\ host_visible /\ IsUpload(c)
  /\ data' \in Written(c, CountOf(c))
  /\ mapped' = FALSE
  /\ Note(mapped, HostWithin(c))
  /\ reply' = <<>>
  /\ UNCHANGED interrupted

(* MUTANT of ToHostMapped: a download leaves its memory mapped.            *)
ToHostLeavesMapped(c) ==
  /\ Call(c) /\ host_visible /\ ~IsUpload(c)
  /\ reply' = Null
  /\ mapped' = TRUE
  /\ Note(mapped, HostWithin(c))
  /\ UNCHANGED <<data, interrupted>>

ToHostMapped(c) ==
  /\ Call(c) /\ host_visible /\ ~IsUpload(c)
  /\ IF HostWithin(c)
       THEN reply' = Apply(FuncOf(c),
                           SubSeq(Elements(data), HostOffset(c) + 1,
                                  HostOffset(c) + CountOf(c)))
       ELSE reply' \in [1 .. CountOf(c) -> Elem]
  /\ mapped' = FALSE
  /\ Note(mapped, HostWithin(c))
  /\ UNCHANGED <<data, interrupted>>

MapThrows(c) ==
  /\ Call(c) /\ host_visible
  /\ reply' = Null
  /\ UNCHANGED <<data, mapped, interrupted, misuse>>

(* An iterator or the function of the client throws: some elements have    *)
(* been transferred, and nobody unmaps.                                    *)
CopyThrows(c) ==
  /\ Call(c) /\ host_visible
  /\ IF IsUpload(c)
       THEN \E k \in 0 .. CountOf(c) - 1 : data' \in Written(c, k)
       ELSE data' = data
  /\ mapped' = TRUE
  /\ reply' = Null
  /\ interrupted' = TRUE
  /\ Note(mapped, HostWithin(c))

-----------------------------------------------------------------------------
(* Other memory: a staging HostArray as long as what the client gives or   *)
(* asks for, and copy_buf of all size_bytes() of the array.  The staging   *)
(* buffer of a download holds what the memory held before.                 *)

BufWithin(c) ==
  LET staged == CountOf(c) * ElemSize
      all == Size * ElemSize
  IN IF IsUpload(c)
       THEN /\ Within(SrcOffset(c), SizeBytes, staged)
            /\ Within(DstOffset(c), SizeBytes, all)
       ELSE /\ Within(SrcOffset(c), SizeBytes, all)
            /\ Within(DstOffset(c), SizeBytes, staged)

(* MUTANT of FromHostStaged: the copy is given size(), not size_bytes().   *)
FromHostInElements(c) ==
  /\ Call(c) /\ ~host_visible /\ IsUpload(c)
  /\ data' = Copied(Bytes(c.xs), 0, data, DstOffset(c), SizeOf)
  /\ reply' = <<>>
  /\ UNCHANGED <<mapped, interrupted, misuse>>

FromHostStaged(c) ==
  /\ Call(c) /\ ~host_visible /\ IsUpload(c)
  /\ data' \in IF BufWithin(c)
                 THEN {Copied(Bytes(c.xs), SrcOffset(c), data, DstOffset(c),
                              SizeBytes)}
                 ELSE [DOMAIN data -> Byte]
  /\ Note(FALSE, BufWithin(c))
  /\ reply' = <<>>
  /\ UNCHANGED <<mapped, interrupted>>

(* stage_buf.begin() to stage_buf.end() go through the function.           *)
ToHostStaged(c) ==
  /\ Call(c) /\ ~host_visible /\ ~IsUpload(c)
  /\ \E stage \in [1 .. CountOf(c) * ElemSize -> Byte] :
       LET filled == IF BufWithin(c)
                       THEN Copied(data, SrcOffset(c), stage, DstOffset(c),
                                   SizeBytes)
                       ELSE stage
       IN reply' = Apply(FuncOf(c),
                         SubSeq(Elements(filled), 1, CountOf(c) % Word))
  /\ Note(FALSE, BufWithin(c))
  /\ UNCHANGED <<data, mapped, interrupted>>

(* Making or filling the staging buffer or copy_buf throws before it       *)
(* submits, or a download's function throws after the copy: the staging    *)
(* buffer goes, the array is as it was.                                    *)
StagedThrows(c) ==
  /\ Call(c) /\ ~host_visible
  /\ reply' = Null
  /\ \/ UNCHANGED misuse
     \/ ~IsUpload(c) /\ Note(FALSE, BufWithin(c))
  /\ UNCHANGED <<data, mapped, interrupted>>

-----------------------------------------------------------------------------
Next ==
  \E c \in Requests :
    \/ FromHostMapped(c) \/ ToHostMapped(c) \/ MapThrows(c) \/ CopyThrows(c)
    \/ FromHostStaged(c) \/ ToHostStaged(c) \/ StagedThrows(c)

Spec == Init /\ [][Next]_vars

-----------------------------------------------------------------------------
(* What every state looks like.                                            *)
TypeOK ==
  /\ host_visible \in BOOLEAN
  /\ data \in [1 .. Size * ElemSize -> Byte]
  /\ mapped \in BOOLEAN
  /\ call \in Requests \cup {Null}
  /\ reply = Null \/ reply \in Seq(Elem)
  /\ interrupted \in BOOLEAN
  /\ misuse \subseteq {"out of bounds", "mapped twice"}

(* Memory is left mapped, and mapped again while it is, only after an      *)
(* iterator or a function of the client has thrown: every transfer that    *)
(* maps and does not throw unmaps, whatever it was asked for.              *)
MappedByThrowOnly ==
  mapped \/ "mapped twice" \in misuse => interrupted /\ host_visible

(* Sound requests, which a client can tell, keep every access and every    *)
(* copy command inside the array, the staging buffer and the mapping,      *)
(* whose sizes the code computes in different units and in 32 bits.        *)
SoundStaysInside ==
  [][Sound(call') => misuse' \subseteq misuse \cup {"mapped twice"}]_vars

(* What a request asks for, in terms of ElementArray.                      *)
Asked(c) ==
  IF c = Null THEN Null
  ELSE CASE c.op = "fromHost" -> [kind |-> "write", at |-> 0, xs |-> c.xs]
         [] c.op = "fromHostAt" ->
              [kind |-> "write", at |-> c.offset, xs |-> c.xs]
         [] OTHER -> [kind |-> "read", at |-> HostOffset(c),
                      count |-> CountOf(c), func |-> FuncOf(c)]

Promise == INSTANCE ElementArray WITH
  contents <- Elements(data), request <- Asked(call), answer <- reply,
  strong <- ~host_visible

(* Sound requests do what they say: an upload replaces just the elements   *)
(* it names, a download returns just those it names through the function,  *)
(* whichever way the bytes take; and an upload that fails half way leaves  *)
(* an array that is not host visible as it was.  It does not matter what   *)
(* was asked for, or thrown, before.                                       *)
ImplementsElementArray ==
  Promise!Init /\ [][Sound(call') => Promise!Next]_(Promise!vars)

(* VUML_ASSERT(offset_begin >= 0 && offset_begin < offset_end) at          *)
(* device_array.h:171 is all that rangeToHost asks of its arguments: a     *)
(* range of the array that satisfies it is what the client gets.           *)
RangeDelivered ==
  call # Null /\ reply # Null =>
    (call.op = "rangeToHost" /\ call.last <= Size =>
       reply = SubSeq(Elements(data), call.first + 1, call.last))
=============================================================================
