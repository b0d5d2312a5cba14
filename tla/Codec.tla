-------------------------------- MODULE Codec --------------------------------
(***************************************************************************)
(* The qmux messages (localPackages/codec) as bytes.  An integer field is  *)
(* two bytes here and four in the code, so the sizes are half of those of  *)
(* payloadSizes.  Of a decoded Data message, zeros is the number of bytes  *)
(* at the end of Data that no Read has filled.                             *)
(***************************************************************************)
EXTENDS Naturals, Sequences, SequencesExt

IntSize == 2
Byte == 0..255
MaxWord == 65535
Word == 0..MaxWord

(* binary.BigEndian.  Mutant: the other byte order. *)
PutUint(v) == <<v \div 256, v % 256>>
UintSwapped(b, i) == b[i + 1] * 256 + b[i]
Uint(b, i) == b[i] * 256 + b[i + 1]

(* The integer fields of the messages, in the order of MarshalMux and      *)
(* UnmarshalMux.                                                           *)
OpenMessage == <<"SenderID", "WindowSize", "MaxPacketSize">>
OpenConfirmMessage == <<"ChannelID", "SenderID", "WindowSize", "MaxPacketSize">>
OpenFailureMessage == <<"ChannelID">>
WindowAdjustMessage == <<"ChannelID", "AdditionalBytes">>
DataMessage == <<"ChannelID", "Length">>
EOFMessage == <<"ChannelID">>
CloseMessage == <<"ChannelID">>

MessageTypes == 100..106
DataType == 104                                            \* msgChannelData
Layout(t) == <<OpenMessage, OpenConfirmMessage, OpenFailureMessage, WindowAdjustMessage,
               DataMessage, EOFMessage, CloseMessage>>[t - 99]

(* payloadSizes: a map, which is 0 for a type that it does not list. *)
PayloadSize(t) == IF t \in MessageTypes THEN IntSize * <<3, 4, 1, 2, 2, 1, 1>>[t - 99] ELSE 0

(* A message that a program can send: Data has the announced Length. *)
IsMessage(m) ==
    /\ \E t \in MessageTypes :
          m \in [type : {t}, fields : [Range(Layout(t)) -> Word], data : Seq(Byte), zeros : {0}]
    /\ Len(m.data) = IF m.type = DataType THEN m.fields["Length"] ELSE 0

(* The packet of a message, the packets of messages that are encoded one   *)
(* after the other, and the message of a packet.                           *)
Marshal(m) ==
    LET byte(i) == PutUint(m.fields[Layout(m.type)[(i + 1) \div IntSize]])[2 - (i % IntSize)]
    IN  <<m.type>> \o [i \in 1..PayloadSize(m.type) |-> byte(i)] \o m.data

Encoding(ms) ==
    LET first[k \in 0..Len(ms)] == IF k = 0 THEN <<>> ELSE first[k - 1] \o Marshal(ms[k])
    IN  first

Encoded(ms) == Encoding(ms)[Len(ms)]

Unmarshal(b, zeros) ==
    LET names == Layout(b[1])
    IN  [type |-> b[1],
         fields |-> [f \in Range(names) |->
                        Uint(b, IntSize * (CHOOSE i \in DOMAIN names : names[i] = f))],
         data |-> SubSeq(b, 2 + PayloadSize(b[1]), Len(b)),
         zeros |-> zeros]

(* A slice of n bytes of which a Read has filled the first.  Mutant: what  *)
(* was read is appended to the n bytes.                                    *)
PaddedAppended(b, n) == [i \in 1..n |-> 0] \o b
Padded(b, n) == b \o [i \in 1..(n - Len(b)) |-> 0]
=============================================================================
