------------------------------- MODULE FrameCvt -------------------------------
(***************************************************************************)
(* FrameCvt.hpp and Frame.hpp: the two encodings of a frame as a web       *)
(* socket message.  A frame is an operation and its data; of the data only *)
(* the class matters: "blob" is a binary value, "bytes" the object that    *)
(* JSON has in its place, and Plain are values both encodings can hold.    *)
(***************************************************************************)
CONSTANTS Ops, Plain

ASSUME EmptyOpAssumption == "" \notin Ops
ASSUME PlainAssumption == Plain \cap {"absent", "blob"} = {}

Data == Plain \cup {"null", "blob", "bytes"}

Frames == [op : Ops, data : Data]

\* The value-initialised frame that `received' puts in m_receiving.
EmptyFrame == [op |-> "", data |-> "null"]

(***************************************************************************)
(* A message of a peer, as the parser sees it: `op' is "" when the message *)
(* has no string under "op" or does not parse, `data' is "absent" when     *)
(* there is nothing under "data".  JSON text cannot hold a blob.           *)
(***************************************************************************)
Messages ==
    { m \in [type : {"text", "binary"}, op : Ops \cup {""}, data : Data \cup {"absent"}] :
        m.type = "text" => m.data # "blob" }

\* in[Key_op].get_ref<std::string&>() throws, or parse / from_cbor does.
Throws(m) == m.op = ""

\* A faulty variant: data that is not there stays so.
ToAc_Absent(m) == [op |-> m.op, data |-> m.data]

\* jsonBufToAc and cborBufToAc: data that is not there is read as null.
ToAc(m) == [op |-> m.op, data |-> IF m.data = "absent" THEN "null" ELSE m.data]

\* A faulty variant: the target of the connection is ignored.
FromAc_OnlyJson(cvt, f) ==
    [type |-> "text", op |-> f.op,
     data |-> IF f.data = "blob" THEN "bytes" ELSE f.data]

\* jsonFrameFromAc and cborFrameFromAc: dump() writes a blob as an object.
FromAc(cvt, f) ==
    IF cvt = "cbor"
    THEN [type |-> "binary", op |-> f.op, data |-> f.data]
    ELSE [type |-> "text", op |-> f.op,
          data |-> IF f.data = "blob" THEN "bytes" ELSE f.data]
=============================================================================
