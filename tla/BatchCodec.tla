----------------------------- MODULE BatchCodec -----------------------------
(***************************************************************************)
(* Batches as byte strings: state/encoding_batch_v2.go, state/helper.go.   *)
(*                                                                         *)
(* Bytes are digits of a smaller base, but RLP's headers, the marker of a  *)
(* block and the markers' order are the program's: c0 starts a short list, *)
(* bytes above f7 give the number of digits of a longer list's length.     *)
(* Positions in a string start at 0 as in the code.                        *)
(***************************************************************************)
EXTENDS Integers, Sequences

CONSTANTS
  Base,           \* the number of different bytes, 256 in the program
  c0,             \* the first byte of an empty list, 192
  shortRlp,       \* the length of the longest short list, 55
  changeL2Block,  \* the first byte of a block, 11
  sizeUInt32      \* the number of bytes of a number, 4

f7 == c0 + shortRlp
ether155V == 27
etherPre155V == 35

ASSUME CodecAssumption ==
  /\ {c0, shortRlp, changeL2Block, sizeUInt32} \subseteq Nat \ {0}
  /\ changeL2Block < c0
  /\ Base \in Nat /\ f7 + 2 < Base /\ ether155V + 1 < Base

Byte == 0 .. Base - 1

headerByteLength == 1
rLength == 2
sLength == 2
vLength == 1
EfficiencyPercentageByteLength == 1

(* n without its lowest k digits. *)
Shifted(n) ==
  LET rest[k \in Nat] == IF k = 0 THEN n ELSE rest[k - 1] \div Base IN rest

(* n is less than Base ^ size. *)
Fits(n, size) == n \in Nat /\ Shifted(n)[size] = 0

BigEndian(n, size) == [i \in 1 .. size |-> Shifted(n)[size - i] % Base]

Number(bytes) ==
  LET value[k \in 0 .. Len(bytes)] ==
        IF k = 0 THEN 0 ELSE value[k - 1] * Base + bytes[k]
  IN value[Len(bytes)]

(* The bytes at the positions from .. to - 1. *)
Slice(s, from, to) == SubSeq(s, from + 1, to)

-----------------------------------------------------------------------------
(* Package rlp of go-ethereum, for lists of at least six fields.  The first
   byte of a list's content stands for the five fields before the data of a
   transaction and for the length of the data, and each field behind the data
   is one byte. *)

Digits(n) == CHOOSE k \in 1 .. n + 1 : Fits(n, k) /\ \A j \in 1 .. k - 1 : ~ Fits(n, j)

EncodeToBytes(fields) ==
  LET content == <<Len(fields.data)>> \o fields.data \o fields.optional
      k == Digits(Len(content))
  IN IF Len(content) <= shortRlp THEN <<c0 + Len(content)>> \o content
     ELSE <<f7 + k>> \o BigEndian(Len(content), k) \o content

(* The fields that bytes are the encoding of: one element, or none for an error. *)
DecodeBytes(bytes) ==
  LET starts == {h \in 1 .. Base - f7 : h < Len(bytes) /\ h + 1 + bytes[h + 1] <= Len(bytes)}
      fields(h) == [data |-> Slice(bytes, h + 1, h + 1 + bytes[h + 1]),
                    optional |-> Slice(bytes, h + 1 + bytes[h + 1], Len(bytes))]
  IN {f \in {fields(h) : h \in starts} : EncodeToBytes(f) = bytes}

-----------------------------------------------------------------------------
(* Transactions: data stands for all the fields but v, r and s. *)

(* The fields of a signed transaction, with a chain identifier of one byte. *)
LegacyTxs ==
  {tx \in [data : Seq(Byte), v : {27, 28} \cup 35 .. 2 * Base + 34, r : Nat, s : Nat] :
     Len(tx.data) < Base /\ Fits(tx.r, rLength) /\ Fits(tx.s, sLength)}

(* types.Transaction.ChainId of go-ethereum *)
ChainId(tx) == IF tx.v \in {27, 28} THEN 0 ELSE (tx.v - 35) \div 2

IsPreEIP155Tx(tx) == ChainId(tx) = 0 /\ tx.v \in {27, 28}

Sign(tx) == 1 - (tx.v % 2)

prepareRLPTxData(tx) ==
  EncodeToBytes([data |-> tx.data,
                 optional |-> IF IsPreEIP155Tx(tx) THEN <<>> ELSE <<ChainId(tx), 0, 0>>])
    \o BigEndian(tx.r, rLength) \o BigEndian(tx.s, sLength)
    \o BigEndian(ether155V + Sign(tx), vLength)

RlpFieldsToLegacyTx(fields, v, r, s) ==
  [data |-> fields.data, r |-> Number(r), s |-> Number(s),
   v |-> IF fields.optional = <<>> THEN Number(v)
         ELSE Number(v) - ether155V + 2 * fields.optional[1] + etherPre155V]

(* Mutation: the length of a long list does not include that of its length. *)
LengthOnly(n, lengthInByteOfSize) == n

LongLength(n, lengthInByteOfSize) == n + lengthInByteOfSize

(* The number of bytes of the list at offset; 0 for an error. *)
decodeRLPListLengthFromOffset(txsData, offset) ==
  LET num == txsData[offset + 1]
      lengthInByteOfSize == num - f7
      start == offset + headerByteLength
  IN IF num < c0 THEN 0
     ELSE IF num - c0 <= shortRlp THEN num - c0 + headerByteLength
     ELSE IF start + lengthInByteOfSize > Len(txsData) THEN 0
     ELSE LongLength(Number(Slice(txsData, start, start + lengthInByteOfSize)),
                     lengthInByteOfSize)
            + headerByteLength

(* What follows the list of a transaction: r, s, v and the efficiency. *)
TailLength == rLength + sLength + vLength + EfficiencyPercentageByteLength

(* The transactions, one or none, whose list has the given length. *)
TxAt(txsData, offset, length) ==
  LET dataStart == offset + length
      rData == Slice(txsData, dataStart, dataStart + rLength)
      sData == Slice(txsData, dataStart + rLength, dataStart + rLength + sLength)
      vData == Slice(txsData, dataStart + rLength + sLength,
                     dataStart + rLength + sLength + vLength)
  IN {[TxAlreadyEncoded |-> FALSE, Data |-> <<>>,
       Tx |-> RlpFieldsToLegacyTx(f, vData, rData, sData),
       EfficiencyPercentage |-> txsData[dataStart + TailLength]] :
        f \in DecodeBytes(Slice(txsData, offset, dataStart))}

DecodeTxRLP(txsData, offset) ==
  LET length == decodeRLPListLengthFromOffset(txsData, offset) IN
  IF length > 0 /\ offset + length + TailLength <= Len(txsData)
    THEN TxAt(txsData, offset, length) ELSE {}

-----------------------------------------------------------------------------
(* Batches: a sequence of blocks, each with a header and transactions. *)

encodeUint32(value) == BigEndian(value, sizeUInt32)

EncodeHeader(c, batchData) ==
  batchData \o <<changeL2Block>> \o encodeUint32(c.DeltaTimestamp)
            \o encodeUint32(c.IndexL1InfoTree)

EncodeTx(tx, batchData) ==
  Append(batchData \o (IF tx.TxAlreadyEncoded THEN tx.Data ELSE prepareRLPTxData(tx.Tx)),
         tx.EfficiencyPercentage)

EncodeTransactions(transactions, batchData) ==
  LET data[i \in 0 .. Len(transactions)] ==
        IF i = 0 THEN batchData ELSE EncodeTx(transactions[i], data[i - 1])
  IN data[Len(transactions)]

(* EncodeBatchV2 of a batch with a block at least. *)
EncodeBatchV2(blocks) ==
  LET data[i \in 0 .. Len(blocks)] ==
        IF i = 0 THEN <<>>
        ELSE EncodeTransactions(blocks[i].Transactions, EncodeHeader(blocks[i], data[i - 1]))
  IN data[Len(blocks)]

HeaderLength == 1 + 2 * sizeUInt32

decodeBlockHeader(txsData, pos) ==
  [DeltaTimestamp |-> Number(Slice(txsData, pos, pos + sizeUInt32)),
   IndexL1InfoTree |-> Number(Slice(txsData, pos + sizeUInt32, pos + 2 * sizeUInt32))]

(* The header or the transaction at pos, if there is one, and the position behind it. *)
NextItem(txsData, pos) ==
  LET headerEnd == pos + HeaderLength
      txEnd == pos + decodeRLPListLengthFromOffset(txsData, pos) + TailLength
  IN IF txsData[pos + 1] # changeL2Block
       THEN {[isHeader |-> FALSE, content |-> tx, end |-> txEnd] :
               tx \in DecodeTxRLP(txsData, pos)}
     ELSE IF headerEnd <= Len(txsData)
       THEN {[isHeader |-> TRUE, content |-> decodeBlockHeader(txsData, pos + 1),
              end |-> headerEnd]}
     ELSE {}

(* At the end of the data; as a mutation of Malformed: an error ends the data. *)
NoMore == [ok |-> TRUE, blocks |-> <<>>, open |-> <<>>]

(* An error, whatever has been decoded before. *)
Malformed == [ok |-> FALSE, blocks |-> <<>>, open |-> <<>>]

Block(header, transactions) ==
  [DeltaTimestamp |-> header.DeltaTimestamp, IndexL1InfoTree |-> header.IndexL1InfoTree,
   Transactions |-> transactions]

(* The item before what has been decoded behind it. *)
Before(item, rest) ==
  IF ~ rest.ok THEN Malformed
  ELSE IF item.isHeader
    THEN [ok |-> TRUE, blocks |-> <<Block(item.content, rest.open)>> \o rest.blocks,
          open |-> <<>>]
  ELSE [ok |-> TRUE, blocks |-> rest.blocks, open |-> <<item.content>> \o rest.open]

(* Decoded from each position on: the transactions that belong to the block that is
   open there, and the blocks that follow. *)
Decoded(txsData) ==
  LET from[pos \in 0 .. Len(txsData)] ==
        IF pos = Len(txsData) THEN NoMore
        ELSE LET items == NextItem(txsData, pos) IN
             IF items = {} THEN Malformed
             ELSE LET item == CHOOSE it \in items : TRUE IN Before(item, from[item.end])
  IN from

DecodeBatchV2(txsData) ==
  LET batch == Decoded(txsData)[0] IN IF batch.open = <<>> THEN batch ELSE Malformed

-----------------------------------------------------------------------------
(* Forced batches: transactions without blocks. *)

LengthIsCut(txsData, pos) ==
  LET num == txsData[pos + 1] IN
  num - c0 > shortRlp /\ pos + 1 + num - f7 > Len(txsData)

(* Mutation: the header of a list counts as a part of it. *)
WithHeader(pos, length) == pos + length + TailLength

EndPos(pos, length) == pos + length + TailLength + headerByteLength

(* The transaction at pos, if there is one, and the position behind it. *)
NextTx(txsData, pos) ==
  LET num == txsData[pos + 1]
      n == Number(Slice(txsData, pos + 1, pos + 1 + num - f7))
      length == IF num - c0 > shortRlp THEN n + num - f7 ELSE num - c0
      endPos == EndPos(pos, length)
  IN [end |-> endPos,
      txs |-> IF num < c0 \/ endPos > Len(txsData) THEN {}
              ELSE TxAt(txsData, pos, length + headerByteLength)]

(* DecodeTxs: when the length of a list is cut, there is no error, and no transaction
   either. *)
DecodedTxs(txsData) ==
  LET from[pos \in 0 .. Len(txsData)] ==
        IF pos = Len(txsData) THEN [ok |-> TRUE, cut |-> FALSE, txs |-> <<>>]
        ELSE IF LengthIsCut(txsData, pos) THEN [ok |-> TRUE, cut |-> TRUE, txs |-> <<>>]
        ELSE LET next == NextTx(txsData, pos) IN
             IF next.txs = {} THEN [ok |-> FALSE, cut |-> FALSE, txs |-> <<>>]
             ELSE LET rest == from[next.end] IN
                  IF ~ rest.ok \/ rest.cut THEN rest
                  ELSE [ok |-> TRUE, cut |-> FALSE,
                        txs |-> <<CHOOSE tx \in next.txs : TRUE>> \o rest.txs]
  IN from

DecodeForcedBatchV2(txsData) ==
  [ok |-> DecodedTxs(txsData)[0].ok, txs |-> DecodedTxs(txsData)[0].txs]
=============================================================================
