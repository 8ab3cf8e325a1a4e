------------------------------- MODULE AddressBook -------------------------------
(***************************************************************************)
(* The YAML side of the programs: converters between a record and a text,  *)
(* and the address book that ReadWriteYaml keeps in a file.                *)
(*                                                                         *)
(* A record is a function from its fields to values.  A YAML map is a      *)
(* function from keys to values; a key is a field in one of the two ways   *)
(* the programs write it, "Upper" (Id, IpAddress) or "lower" (id,          *)
(* ipAddress).  yaml-cpp is external: scalars come through unchanged, a    *)
(* missing key throws when it is converted.                                *)
(***************************************************************************)
EXTENDS Naturals, Sequences, FiniteSets

CONSTANTS
  Values,   \* what tells two records apart
  Books     \* the sets of keys of the books that are written

ASSUME BookAssumption == Books \subseteq SUBSET Nat /\ \A b \in Books : IsFiniteSet(b)

Address  == {"id", "name", "ip_address", "port1", "port2"}
Message  == {"text", "number"}
\* The pairs of a writing and a reading function, by where they are.
Formats  == {"IpAddressOne.h", "MyYaml.cpp", "TestYaml.h", "MSocket01.h"}
FieldsOf(f) == IF f = "MSocket01.h" THEN Message ELSE Address
NoRecord == <<>>

VARIABLES
  text,    \* the text last emitted: who wrote it, its record and its map
  reader,  \* who converted it, or "nobody"
  out,     \* the record it was converted to; NoRecord when that threw
  file,    \* the entries of the book that have reached the file
  root,    \* the root of the file: "absent", "null", "sequence", "map"
  open,    \* WriteYaml holds the file open
  entries, \* its entries that have not reached the file
  books    \* what ReadYaml last returned, as a set: empty if it threw

strings  == <<text, reader, out>>
files    == <<file, root, open, entries, books>>
bookVars == <<strings, files>>

-----------------------------------------------------------------------------
(* The converters.                                                           *)

Record(f, v) == [x \in FieldsOf(f) |-> <<v, x>>]
Node(style, rec) == [k \in {style} \X DOMAIN rec |-> rec[k[2]]]

\* Mutant: serializeToYaml writes the keys in the way TcpClient does.
EncodeMessageLower(f, rec) == Node(IF f = "IpAddressOne.h" THEN "Upper" ELSE "lower", rec)

\* convert<ip_address_one>::encode, serializeToYaml.
Encode(f, rec) == Node(IF f \in {"MSocket01.h", "IpAddressOne.h"} THEN "Upper" ELSE "lower", rec)

\* convert<ip_address_one>::decode asks for every key and throws without it.
Decode(node) ==
  IF \A x \in Address : <<"lower", x>> \in DOMAIN node
  THEN [x \in Address |-> node[<<"lower", x>>]] ELSE NoRecord

\* deserializeFromYaml takes what is there: without its key Text is empty, and
\* Number is what was in memory.
DeserializeFromYaml(node) ==
  [x \in Message |-> IF <<"Upper", x>> \in DOMAIN node THEN node[<<"Upper", x>>]
                     ELSE IF x = "text" THEN <<"empty">> ELSE <<"indeterminate">>]

Emit(by, rec, node) ==
  /\ text' = [by |-> by, rec |-> rec, node |-> node]
  /\ reader' = "nobody" /\ out' = NoRecord /\ UNCHANGED files

\* YamlConverter::serialize, serializeToYaml.
Serialize(f, v) == Emit(f, Record(f, v), Encode(f, Record(f, v)))

\* SerializeToYaml of TcpClient: the message of MSocket01.h, keys in lower case.
SerializeMyMessage(v) ==
  LET rec == Record("MSocket01.h", v) IN Emit("SendToServerCharp.cpp", rec, Node("lower", rec))

\* YamlConverter::deserialize, deserializeFromYaml, by any program.
Deserialize(f) ==
  /\ text.by # "nobody"
  /\ out' = IF f = "MSocket01.h" THEN DeserializeFromYaml(text.node) ELSE Decode(text.node)
  /\ reader' = f
  /\ UNCHANGED <<text, files>>

-----------------------------------------------------------------------------
(* The file.                                                                 *)

\* root[key] = value, keys in order, makes a sequence as long as the keys are
\* 0, 1, 2, ...
RootOf(keys) == IF keys = {} THEN "null"
                ELSE IF keys = 0 .. Cardinality(keys) - 1 THEN "sequence" ELSE "map"

\* WriteYaml opens the file, which empties it, and streams the root.
OpenYaml(keys, v) ==
  LET rec == Record("IpAddressOne.h", v)
  IN /\ ~open /\ open' = TRUE
     /\ file' = {} /\ root' = "null"
     /\ entries' = {[key |-> k, node |-> Encode("IpAddressOne.h", rec), kind |-> RootOf(keys)] : k \in keys}
     /\ UNCHANGED <<strings, books>>

\* Entries reach the file in order, at a pace the stream decides.
FlushYaml ==
  \E e \in entries :
     /\ \A d \in entries : e.key <= d.key
     /\ file' = file \union {e} /\ root' = e.kind /\ entries' = entries \ {e}
     /\ UNCHANGED <<strings, open, books>>

\* The stream is closed, or its process dies before everything is written.
CloseYaml == /\ open /\ open' = FALSE /\ entries' = {}
             /\ UNCHANGED <<strings, file, root, books>>

\* ReadYaml expects a map from int to records and throws otherwise; the file
\* may be one that is being written.
ReadYaml ==
  /\ books' = IF root \in {"absent", "sequence"} \/ \E e \in file : Decode(e.node) = NoRecord
              THEN {} ELSE {{e.key : e \in file}}
  /\ UNCHANGED <<strings, file, root, open, entries>>

-----------------------------------------------------------------------------
BookInit == /\ text = [by |-> "nobody", rec |-> NoRecord, node |-> <<>>]
            /\ reader = "nobody" /\ out = NoRecord
            /\ file = {} /\ root = "absent" /\ open = FALSE /\ entries = {} /\ books = {}

BookNext == \/ \E f \in Formats, v \in Values : Serialize(f, v)
            \/ \E v \in Values : SerializeMyMessage(v)
            \/ \E f \in Formats : Deserialize(f)
            \/ \E keys \in Books, v \in Values : OpenYaml(keys, v)
            \/ FlushYaml \/ CloseYaml \/ ReadYaml

BookSpec == BookInit /\ [][BookNext]_bookVars

-----------------------------------------------------------------------------
\* A converter gives back the record it wrote, and MyYaml.cpp and TestYaml.h the
\* one of each other; what IpAddressOne.h wrote no program gets back; only
\* MSocket01.h makes a wrong record without an error, from the text of another.
ConvertersAgree ==
  /\ (reader = text.by /\ reader # "IpAddressOne.h") => out = text.rec
  /\ {reader, text.by} = {"MyYaml.cpp", "TestYaml.h"} => out = text.rec
  /\ (text.by = "IpAddressOne.h" /\ reader # "MSocket01.h") => out = NoRecord
  /\ out \notin {NoRecord, text.rec} => (reader = "MSocket01.h" /\ reader # text.by)

\* What WriteYaml has put into a file before it was closed ReadYaml gives back:
\* "we expect a map, the key an int, the value a record" (ReadWriteYaml.h:25),
\* which is what WriteYaml is given.  It does not hold: encode writes "Id",
\* decode asks for "id", and for the keys 0, 1, ... the file is a sequence.
BookComesBack ==
  [][ReadYaml /\ ~open /\ file # {} => books' = {{e.key : e \in file}}]_bookVars
=============================================================================
