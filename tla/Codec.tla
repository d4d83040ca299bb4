-------------------------------- MODULE Codec --------------------------------
(***************************************************************************)
(* The wire formats: WireReader (wire.rs), transactions, blocks, the         *)
(* signature hash and the Merkle root of bitrst-core, and the payloads and   *)
(* the envelope of bitrst-net.                                               *)
(*                                                                          *)
(* A byte is 0 .. WireRadix - 1; integers keep the widths of the code        *)
(* (a u32 has 4 bytes), so the three CompactSize markers 0xfd, 0xfe, 0xff    *)
(* are the three largest bytes.  A hash has HashLen bytes.  Signed fields    *)
(* are their two's-complement bit pattern.  SHA-256d is injective: a hash     *)
(* stands for the bytes hashed.                                              *)
(***************************************************************************)
EXTENDS Integers, SequencesExt

CONSTANTS WireRadix, HashLen,
          MAX_TRANSACTION_INPUTS, MAX_TRANSACTION_OUTPUTS, MAX_SCRIPT_SIZE,
          MAX_TRANSACTION_SERIALIZED_SIZE, MAX_BLOCK_SERIALIZED_SIZE,
          MAX_TRANSACTIONS_PER_BLOCK, MAX_INV_COUNT, MAX_USER_AGENT_LEN,
          LEGACY_ADDRESS_SIZE,
          RelayVersion,                       \* 60_002
          COMMAND_LENGTH, MAX_PAYLOAD_SIZE,
          Magic,                              \* the network's magic, one byte
          CommandName                         \* payload kind -> command, a sequence of bytes

Byte == 0 .. WireRadix - 1
le_bytes(width, v) == [i \in 1 .. width |-> (v \div WireRadix ^ (i - 1)) % WireRadix]
from_le_bytes(bytes) == MapThenSumSet(LAMBDA i : bytes[i] * WireRadix ^ (i - 1), DOMAIN bytes)

Ok(v) == [kind |-> "ok", v |-> v]
Err(e) == [kind |-> e]
-----------------------------------------------------------------------------
(* CompactSize *)

write_compact_size(v) ==
    CASE v < WireRadix - 3 -> << v >>
      [] v \in WireRadix - 3 .. WireRadix ^ 2 - 1 -> << WireRadix - 3 >> \o le_bytes(2, v)
      [] v \in WireRadix ^ 2 .. WireRadix ^ 4 - 1 -> << WireRadix - 2 >> \o le_bytes(4, v)
      [] OTHER -> << WireRadix - 1 >> \o le_bytes(8, v)

\* Mutant of compact_size_encoded_len: the first marker counted as a value.
MutEncodedLen(v) == IF v <= WireRadix - 3 THEN 1 ELSE IF v < WireRadix ^ 2 THEN 3 ELSE 5

compact_size_encoded_len(v) ==
    CASE v < WireRadix - 3 -> 1
      [] v \in WireRadix - 3 .. WireRadix ^ 2 - 1 -> 3
      [] v \in WireRadix ^ 2 .. WireRadix ^ 4 - 1 -> 5
      [] OTHER -> 9
-----------------------------------------------------------------------------
(* WireReader: the unread bytes, the values read so far and the first error. *)

Reader(bytes) == [rest |-> bytes, got |-> << >>, err |-> "none"]
failed(rd) == rd.err # "none"

read_bytes(rd, length) ==
    CASE failed(rd) -> rd
      [] ~failed(rd) /\ Len(rd.rest) < length -> [rd EXCEPT !.err = "Truncated"]
      [] OTHER -> [rd EXCEPT !.rest = SubSeq(@, length + 1, Len(@)),
                             !.got = Append(@, SubSeq(rd.rest, 1, length))]

\* The last value read: taken as an integer, or refused.
AsInt(rd) == IF failed(rd) THEN rd ELSE [rd EXCEPT !.got[Len(rd.got)] = from_le_bytes(@)]
AtLeast(rd, minimum) ==
    IF failed(rd) \/ Last(rd.got) >= minimum THEN rd ELSE [rd EXCEPT !.err = "NonCanonicalCompactSize"]
AtMost(rd, limit) ==
    IF failed(rd) \/ Last(rd.got) <= limit THEN rd ELSE [rd EXCEPT !.err = "LimitExceeded"]

read_int(rd, width) == AsInt(read_bytes(rd, width))

\* The value that follows the marker just read.
ReadWide(rd, got, marker) ==
    LET again == [rd EXCEPT !.got = got]
    IN CASE marker = WireRadix - 3 -> AtLeast(read_int(again, 2), WireRadix - 3)
         [] marker = WireRadix - 2 -> AtLeast(read_int(again, 4), WireRadix ^ 2)
         [] OTHER -> AtLeast(read_int(again, 8), WireRadix ^ 4)

AfterMarker(rd, got) ==
    IF failed(rd) \/ Last(rd.got) < WireRadix - 3 THEN rd ELSE ReadWide(rd, got, Last(rd.got))

read_compact_size(rd) == AfterMarker(read_int(rd, 1), rd.got)

read_limited_len(rd, limit) == AtMost(read_compact_size(rd), limit)

finish(rd) ==
    CASE failed(rd) -> Err(rd.err)
      [] ~failed(rd) /\ rd.rest # << >> -> Err("TrailingBytes")
      [] OTHER -> Ok(rd.got[1])

\* What was read since `got`, made into one value.
Collect(rd, got, Make(_)) == IF failed(rd) THEN rd ELSE [rd EXCEPT !.got = Append(got, Make(@))]

\* The fields of one struct.
ReadStruct(rd, Fields(_), Make(_)) == Collect(Fields([rd EXCEPT !.got = << >>]), rd.got, Make)

\* As many items as the count just read.
ReadItems(rd, Item(_)) ==
    IF failed(rd) THEN rd
    ELSE FoldLeft(LAMBDA s, i : Item(s), [rd EXCEPT !.got = << >>], [i \in 1 .. Last(rd.got) |-> i])

\* A bounded count and that many items.
ReadList(rd, limit, Item(_)) ==
    Collect(ReadItems(read_limited_len(rd, limit), Item), rd.got, LAMBDA items : items)

WriteList(s, Item(_)) == write_compact_size(Len(s)) \o FlattenSeq([i \in 1 .. Len(s) |-> Item(s[i])])
ReadByte(rd) == read_int(rd, 1)
WriteByte(b) == << b >>
SumOver(s, Size(_)) == MapThenSumSet(LAMBDA i : Size(s[i]), DOMAIN s)
-----------------------------------------------------------------------------
(* transaction.rs *)

SerializeOutput(o) == le_bytes(8, o.value) \o WriteList(o.script_pubkey, WriteByte)

\* Mutant of SerializeInput: the input's own script, always.
MutSerializeInput(in, script) ==
    in.previous_output \o le_bytes(4, in.index) \o WriteList(in.script_sig, WriteByte)
        \o le_bytes(4, in.sequence)

\* An input with the bytes of `script` in the place of its script.
SerializeInput(in, script) ==
    in.previous_output \o le_bytes(4, in.index) \o WriteList(script, WriteByte)
        \o le_bytes(4, in.sequence)

serialize_transaction(tx) ==
    le_bytes(4, tx.version)
        \o WriteList(tx.inputs, LAMBDA in : SerializeInput(in, in.script_sig))
        \o WriteList(tx.outputs, SerializeOutput) \o le_bytes(4, tx.lock_time)

decode_input(rd) ==
    ReadStruct(rd,
        LAMBDA s : read_int(ReadList(read_int(read_bytes(s, HashLen), 4), MAX_SCRIPT_SIZE, ReadByte), 4),
        LAMBDA g : [previous_output |-> g[1], index |-> g[2], script_sig |-> g[3], sequence |-> g[4]])

decode_output(rd) ==
    ReadStruct(rd, LAMBDA s : ReadList(read_int(s, 8), MAX_SCRIPT_SIZE, ReadByte),
               LAMBDA g : [value |-> g[1], script_pubkey |-> g[2]])

decode_transaction(rd) ==
    ReadStruct(rd,
        LAMBDA s : read_int(ReadList(ReadList(read_int(s, 4), MAX_TRANSACTION_INPUTS, decode_input),
                                     MAX_TRANSACTION_OUTPUTS, decode_output), 4),
        LAMBDA g : [version |-> g[1], inputs |-> g[2], outputs |-> g[3], lock_time |-> g[4]])

deserialize_transaction(bytes) ==
    IF Len(bytes) > MAX_TRANSACTION_SERIALIZED_SIZE THEN Err("LimitExceeded")
    ELSE finish(decode_transaction(Reader(bytes)))

transaction_size(tx) ==
    4 + compact_size_encoded_len(Len(tx.inputs))
      + SumOver(tx.inputs, LAMBDA in : HashLen + 4 + compact_size_encoded_len(Len(in.script_sig))
                                               + Len(in.script_sig) + 4)
      + compact_size_encoded_len(Len(tx.outputs))
      + SumOver(tx.outputs, LAMBDA o : 8 + compact_size_encoded_len(Len(o.script_pubkey))
                                         + Len(o.script_pubkey))
      + 4

\* sighash.rs: the bytes sighash_all hashes for the input at `index`
\* (SIGHASH_ALL is 1), or the error it returns.
sighash_all(tx, index, prev_script_pubkeys) ==
    LET blanked == [i \in DOMAIN tx.inputs |->
                        SerializeInput(tx.inputs[i],
                            IF i = index THEN prev_script_pubkeys[i] ELSE << >>)]
    IN CASE index \notin DOMAIN tx.inputs -> Err("InputIndexOutOfRange")
         [] index \in DOMAIN tx.inputs /\ Len(prev_script_pubkeys) # Len(tx.inputs) ->
                Err("PrevScriptCountMismatch")
         [] OTHER -> Ok(le_bytes(4, tx.version) \o write_compact_size(Len(tx.inputs))
                           \o FlattenSeq(blanked) \o WriteList(tx.outputs, SerializeOutput)
                           \o le_bytes(4, tx.lock_time) \o le_bytes(4, 1))
-----------------------------------------------------------------------------
(* block.rs and merkle.rs *)

serialize_header(h) ==
    le_bytes(4, h.version) \o h.prev_blockhash \o h.merkle_root
        \o le_bytes(4, h.time) \o le_bytes(4, h.bits) \o le_bytes(4, h.nonce)

decode_header(rd) ==
    ReadStruct(rd,
        LAMBDA s : read_int(read_int(read_int(
                       read_bytes(read_bytes(read_int(s, 4), HashLen), HashLen), 4), 4), 4),
        LAMBDA g : [version |-> g[1], prev_blockhash |-> g[2], merkle_root |-> g[3],
                    time |-> g[4], bits |-> g[5], nonce |-> g[6]])

serialize_block(b) == serialize_header(b.header) \o WriteList(b.transactions, serialize_transaction)

deserialize_block(bytes) ==
    IF Len(bytes) > MAX_BLOCK_SERIALIZED_SIZE THEN Err("LimitExceeded")
    ELSE finish(ReadStruct(Reader(bytes),
                    LAMBDA s : ReadList(decode_header(s), MAX_TRANSACTIONS_PER_BLOCK, decode_transaction),
                    LAMBDA g : [header |-> g[1], transactions |-> g[2]]))

block_size(b) ==
    16 + 2 * HashLen + compact_size_encoded_len(Len(b.transactions))
       + SumOver(b.transactions, transaction_size)

\* The next level of the tree: the last hash of an odd level is paired with itself.
NextLevel(level) ==
    [i \in 1 .. (Len(level) + 1) \div 2 |->
        << level[2 * i - 1], level[IF 2 * i <= Len(level) THEN 2 * i ELSE 2 * i - 1] >>]

\* sha256d of two hashes is the pair of them.
merkle_root(txids) ==
    IF txids = << >> \/ Len(txids) > MAX_TRANSACTIONS_PER_BLOCK THEN Err("none")
    ELSE Ok(FoldLeft(LAMBDA level, i : IF Len(level) > 1 THEN NextLevel(level) ELSE level,
                     txids, txids)[1])
-----------------------------------------------------------------------------
(* The payloads of bitrst-net/src/codec *)

encode_version(m) ==
    IF Len(m.user_agent) > MAX_USER_AGENT_LEN THEN Err("PayloadTooLarge")
    ELSE Ok(le_bytes(4, m.version) \o le_bytes(8, m.services) \o le_bytes(8, m.timestamp)
            \o [i \in 1 .. 2 * LEGACY_ADDRESS_SIZE |-> 0] \o le_bytes(8, m.nonce)
            \o WriteList(m.user_agent, WriteByte) \o le_bytes(4, m.start_height)
            \o (IF m.version >= RelayVersion THEN << IF m.relay THEN 1 ELSE 0 >> ELSE << >>))

\* The largest byte is the one no UTF-8 string holds.
CheckUtf8(rd) ==
    IF ~failed(rd) /\ Contains(Last(rd.got), WireRadix - 1) THEN [rd EXCEPT !.err = "Truncated"] ELSE rd

read_limited_string(rd, max_len) ==
    CheckUtf8(ReadList(rd, max_len, ReadByte))

\* The relay flag is optional, and any byte but 0 sets it.
ReadRelay(rd) == IF ~failed(rd) /\ Len(rd.rest) = 1 THEN read_int(rd, 1) ELSE rd

decode_version(bytes) ==
    finish(ReadStruct(Reader(bytes),
        LAMBDA s : ReadRelay(read_int(read_limited_string(read_int(
                       read_bytes(read_bytes(
                           read_int(read_int(read_int(s, 4), 8), 8),
                           LEGACY_ADDRESS_SIZE), LEGACY_ADDRESS_SIZE),
                       8), MAX_USER_AGENT_LEN), 4)),
        LAMBDA g : [version |-> g[1], services |-> g[2], timestamp |-> g[3], nonce |-> g[6],
                    user_agent |-> g[7], start_height |-> g[8],
                    relay |-> Len(g) < 9 \/ g[Len(g)] # 0]))

\* InvType::from_u32: a transaction, a block or a filtered block.
CheckKind(rd) ==
    IF ~failed(rd) /\ Last(rd.got) \notin {1, 2, 3} THEN [rd EXCEPT !.err = "UnknownInventoryType"] ELSE rd

decode_inventory(rd) ==
    ReadStruct(rd, LAMBDA s : read_bytes(CheckKind(read_int(s, 4)), HashLen),
               LAMBDA g : [inv_type |-> g[1], hash |-> g[2]])

decode_inventory_list(bytes) == finish(ReadList(Reader(bytes), MAX_INV_COUNT, decode_inventory))

encode_inventory_list(items) ==
    IF Len(items) > MAX_INV_COUNT THEN Err("PayloadTooLarge")
    ELSE Ok(WriteList(items, LAMBDA item : le_bytes(4, item.inv_type) \o item.hash))

encode_payload(m) ==
    CASE m.kind = "verack" -> Ok(<< >>)
      [] m.kind = "version" -> encode_version(m.body)
      [] m.kind \in {"inv", "getdata"} -> encode_inventory_list(m.body)
      [] m.kind = "block" -> Ok(serialize_block(m.body))
      [] m.kind = "tx" -> Ok(serialize_transaction(m.body))

decode_body(kind, bytes) ==
    CASE kind = "verack" -> IF bytes = << >> THEN Ok(<< >>) ELSE Err("UnsupportedCommand")
      [] kind = "version" -> decode_version(bytes)
      [] kind \in {"inv", "getdata"} -> decode_inventory_list(bytes)
      [] kind = "block" -> deserialize_block(bytes)
      [] kind = "tx" -> deserialize_transaction(bytes)

Tagged(kind, body) == IF body.kind = "ok" THEN Ok([kind |-> kind, body |-> body.v]) ELSE body

decode_payload(command, bytes) ==
    LET kinds == {k \in DOMAIN CommandName : CommandName[k] = command}
    IN IF kinds = {} THEN Err("UnsupportedCommand")
       ELSE LET kind == CHOOSE k \in kinds : TRUE IN Tagged(kind, decode_body(kind, bytes))
-----------------------------------------------------------------------------
(* envelope.rs: the magic (one byte here), the command, the payload length    *)
(* and the checksum (one byte here; it tells any two payloads that differ in   *)
(* one byte apart).                                                           *)

MESSAGE_HEADER_SIZE == 1 + COMMAND_LENGTH + 4 + 1
checksum(payload) == MapThenSumSet(LAMBDA i : payload[i], DOMAIN payload) % WireRadix
Printable == 2 .. WireRadix - 2

encode_command(name) ==
    IF Len(name) \in 1 .. COMMAND_LENGTH /\ ToSet(name) \subseteq Printable
    THEN Ok(name \o [i \in 1 .. COMMAND_LENGTH - Len(name) |-> 0]) ELSE Err("InvalidCommand")

from_header_bytes(bytes) ==
    LET end == Min({i \in 1 .. COMMAND_LENGTH : bytes[i] = 0} \cup {COMMAND_LENGTH + 1}) - 1
    IN IF /\ end > 0
          /\ \A i \in 1 .. end : bytes[i] \in Printable
          /\ \A i \in end + 1 .. COMMAND_LENGTH : bytes[i] = 0
       THEN Ok(SubSeq(bytes, 1, end)) ELSE Err("InvalidCommand")

encode_header(name, payload) ==
    IF Len(payload) > MAX_PAYLOAD_SIZE THEN Err("PayloadTooLarge")
    ELSE IF encode_command(name).kind # "ok" THEN encode_command(name)
    ELSE Ok(<< Magic >> \o encode_command(name).v \o le_bytes(4, Len(payload)) \o << checksum(payload) >>)

decode_message_header(bytes) ==
    LET command == from_header_bytes(SubSeq(bytes, 2, COMMAND_LENGTH + 1))
        payload_len == from_le_bytes(SubSeq(bytes, COMMAND_LENGTH + 2, COMMAND_LENGTH + 5))
    IN CASE bytes[1] # Magic -> Err("InvalidMagic")
         [] bytes[1] = Magic /\ command.kind # "ok" -> command
         [] OTHER -> IF payload_len > MAX_PAYLOAD_SIZE THEN Err("PayloadTooLarge")
                     ELSE Ok([command |-> command.v, payload_len |-> payload_len,
                              checksum |-> bytes[MESSAGE_HEADER_SIZE]])

\* write_message: the header and the payload, or nothing when encoding fails.
write_message(m) ==
    LET payload == encode_payload(m)
        header == encode_header(CommandName[m.kind], payload.v)
    IN IF payload.kind = "ok" /\ header.kind = "ok" THEN header.v \o payload.v ELSE << >>
=============================================================================
