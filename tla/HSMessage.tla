------------------------------ MODULE HSMessage ------------------------------
(***************************************************************************)
(* The parameters of a message: written by the PHP clients (sendData,      *)
(* sendMulti), read by ReadHSParams (hs_params.go).  A message is the      *)
(* length of the GUID (2 bytes) and the GUID, then for every parameter the *)
(* lengths of key (2 bytes) and value (4 bytes) and both; what is read may *)
(* be cut short.  Bytes are numbers below Base (256).                      *)
(***************************************************************************)
EXTENDS Integers, SequencesExt

CONSTANTS Base,       \* values of a byte
          Guids,      \* GUIDs
          Keys, Vals, \* keys and values, sequences of bytes like the GUIDs
          MaxParams   \* bound: parameters of a message

MessageAssumption ==
  /\ Base \in Nat /\ Base > 1 /\ MaxParams \in Nat
  /\ \A x \in Guids \cup Keys : x \in Seq(0 .. Base - 1) /\ Len(x) < Base * Base
  /\ \A v \in Vals : v \in Seq(0 .. Base - 1) /\ Len(v) < Base * Base * Base * Base

VARIABLES data,     \* the parameters sent, pairs of key and value
          guid,     \* the GUID sent
          length,   \* how much of the message arrives
          message,  \* what ReadHSParams has yet to read
          reading,  \* "guid", "params", then "read" or "nil"
          param, porder

vars == <<data, guid, length, message, reading, param, porder>>

(* pack("v") and pack("V"): two and four bytes, little endian.              *)
Word == Base * Base
Pack2(n) == <<n % Base, (n \div Base) % Base>>
Pack4(n) == Pack2(n % Word) \o Pack2((n \div Word) % Word)

EncodeParam(p) == Pack2(Len(p[1])) \o Pack4(Len(p[2])) \o p[1] \o p[2]
Encode(g, d) == Pack2(Len(g)) \o g \o FlattenSeq([i \in DOMAIN d |-> EncodeParam(d[i])])

Lists == UNION {[1 .. n -> Keys \X Vals] : n \in 0 .. MaxParams}

Init ==
  /\ data \in Lists /\ guid \in Guids
  /\ \E n \in 0 .. Len(Encode(guid, data)) :
       /\ length = n
       /\ message = SubSeq(Encode(guid, data), 1, n)
  /\ reading = "guid"
  /\ param = <<>> /\ porder = <<>>

Skip(bytes, n) == SubSeq(bytes, n + 1, Len(bytes))

(* LittleEndian.Uint16 and Uint32, of the first bytes. *)
Unpack2(bytes) == bytes[1] + Base * bytes[2]
Unpack4(bytes) == Unpack2(bytes) + Word * Unpack2(Skip(bytes, 2))

Return(r) == reading' = r /\ UNCHANGED <<message, param, porder>>

(* Each length is looked for with a byte behind it.                         *)
ReadGuid ==
  LET size == Unpack2(message) IN
  /\ reading = "guid"
  /\ UNCHANGED <<data, guid, length>>
  /\ IF Len(message) <= 2 \/ Len(message) <= 2 + size
     THEN Return("nil")
     ELSE /\ message' = Skip(message, 2 + size)
          /\ reading' = "params"
          /\ UNCHANGED <<param, porder>>

(* Mutant: the first value of a repeated key stays. *)
ReadParamFirst ==
  LET lens == Skip(message, 2)
      body == Skip(message, 6)
      k_s  == Unpack2(message)
      v_s  == Unpack4(lens)
      k    == SubSeq(body, 1, k_s)
      v    == SubSeq(body, k_s + 1, k_s + v_s) IN
  /\ reading = "params" /\ message # <<>>
  /\ UNCHANGED <<data, guid, length>>
  /\ IF Len(message) <= 2 \/ Len(lens) <= 4 \/ k_s + v_s > Len(body)
     THEN Return("nil")
     ELSE /\ param' = [x \in DOMAIN param \cup {k} |-> IF x \in DOMAIN param THEN param[x] ELSE v]
          /\ porder' = Append(porder, k)
          /\ message' = Skip(body, k_s + v_s)
          /\ UNCHANGED reading

(* One round of the loop; the parameters read before an error stay.         *)
ReadParam ==
  LET lens == Skip(message, 2)
      body == Skip(message, 6)
      k_s  == Unpack2(message)
      v_s  == Unpack4(lens)
      k    == SubSeq(body, 1, k_s)
      v    == SubSeq(body, k_s + 1, k_s + v_s) IN
  /\ reading = "params" /\ message # <<>>
  /\ UNCHANGED <<data, guid, length>>
  /\ IF Len(message) <= 2 \/ Len(lens) <= 4 \/ k_s + v_s > Len(body)
     THEN Return("nil")
     ELSE /\ param' = [x \in DOMAIN param \cup {k} |-> IF x = k THEN v ELSE param[x]]
          /\ porder' = Append(porder, k)
          /\ message' = Skip(body, k_s + v_s)
          /\ UNCHANGED reading

ReadEnd ==
  /\ reading = "params" /\ message = <<>>
  /\ UNCHANGED <<data, guid, length>>
  /\ Return("read")

Next == ReadGuid \/ ReadParam \/ ReadEnd

Spec == Init /\ [][Next]_vars

-----------------------------------------------------------------------------
TypeOK ==
  /\ data \in Lists /\ guid \in Guids
  /\ reading \in {"guid", "params", "read", "nil"}
  /\ length \in Nat /\ Len(message) <= length
  /\ DOMAIN param = ToSet(porder)

Sent(n) == SubSeq(data, 1, n)
Arrived(n) == /\ porder = [i \in 1 .. n |-> data[i][1]]
              /\ \A k \in DOMAIN param :
                   param[k] = data[SelectLastInSeq(Sent(n), LAMBDA p : p[1] = k)][2]

Over == reading \in {"read", "nil"}
Whole == length = Len(Encode(guid, data))
Blank == data = <<>> \/ Last(data) = <<<<>>, <<>>>>

(* A message that arrives whole is read back as it was sent, the last of    *)
(* several values of a key counting; it is refused only if it has no        *)
(* parameter, or if key and value of the last are empty.                    *)
RoundTrip ==
  Over /\ Whole => IF Blank THEN reading = "nil"
                   ELSE reading = "read" /\ Arrived(Len(data))

(* A message that is cut short is refused, or was cut between parameters    *)
(* and is read up to there: nothing is made up from the bytes of another    *)
(* field.                                                                   *)
NothingInvented ==
  Over => \E n \in 0 .. Len(data) :
            /\ Arrived(n)
            /\ reading = "read" => length = Len(Encode(guid, Sent(n))) /\ n > 0

(* Whole or cut, a message is read as what was sent of it, or refused.      *)
ParametersRead == RoundTrip /\ NothingInvented
=============================================================================
