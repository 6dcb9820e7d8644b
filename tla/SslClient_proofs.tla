--------------------------- MODULE SslClient_proofs ---------------------------
(***************************************************************************)
(* The buffers of ssl_client keep every byte and every item in order, and  *)
(* nothing is left behind in a BIO between two calls, for any number of    *)
(* flights, renegotiations and items and for every split of reads, writes  *)
(* and SSL_write.                                                          *)
(***************************************************************************)
EXTENDS SslClient, SequenceTheorems, TLAPS

USE DEF buffers, world, history, reading

(***************************************************************************)
(* The inductive invariant.  The call invariant is stronger than           *)
(* OutputQueued and InputProcessed by the states from which a call that    *)
(* touches neither BIO starts or returns.                                  *)
(***************************************************************************)
CallInv ==
    pc \in {"start", "new", "idle", "encrypt"} => wbio = <<>> /\ Len(rbio) < 2

SslInv == TypeOK /\ CallInv /\ CiphertextInOrder /\ PlaintextInOrder

(***************************************************************************)
(* The two parts of a buffer, the n entries used and the rest.             *)
(***************************************************************************)
LEMMA TakeDrop ==
    ASSUME NEW S, NEW s \in Seq(S), NEW n \in 1 .. Len(s)
    PROVE  /\ Take(s, n) \in Seq(S)
           /\ Drop(s, n) \in Seq(S)
           /\ Take(s, n) \o Drop(s, n) = s
<1>1. Len(s) \in Nat /\ \A i \in 1 .. Len(s) : s[i] \in S
  BY LenProperties, ElementOfSeq
<1>2. Take(s, n) \in Seq(S)
  BY <1>1, SubSeqProperties DEF Take
<1>3. Drop(s, n) \in Seq(S)
  BY <1>1, SubSeqProperties DEF Drop
<1>4. SubSeq(s, 1, n) \o SubSeq(s, n + 1, Len(s)) = SubSeq(s, 1, Len(s))
  BY <1>1, ConcatAdjacentSubSeq
<1>5. SubSeq(s, 1, Len(s)) = s
  BY SubSeqFull
<1> QED
  BY <1>2, <1>3, <1>4, <1>5 DEF Take, Drop

LEMMA BytesType ==
    ASSUME NEW kind \in {"flight", "alert", "data"}, NEW items \in Seq(Nat)
    PROVE  Bytes(kind, items) \in Seq(Byte)
<1>1. /\ [rec |-> [kind |-> kind, items |-> items], part |-> 1] \in Byte
      /\ [rec |-> [kind |-> kind, items |-> items], part |-> 2] \in Byte
  BY DEF Byte, Record
<1> QED
  BY <1>1 DEF Bytes

LEMMA ConcatType ==
    ASSUME NEW S, NEW s \in Seq(S), NEW t \in Seq(S)
    PROVE  s \o t \in Seq(S)
  BY ConcatProperties

LEMMA ByteConcat ==
    ASSUME NEW s \in Seq(Byte), NEW t \in Seq(Byte), NEW u \in Seq(Byte)
    PROVE  (s \o t) \o u = s \o (t \o u)
  BY ConcatAssociative, SMTT(20)

LEMMA ItemConcat ==
    ASSUME NEW s \in Seq(Nat), NEW t \in Seq(Nat), NEW u \in Seq(Nat)
    PROVE  (s \o t) \o u = s \o (t \o u)
  BY ConcatAssociative, SMTT(20)

(***************************************************************************)
(* What OpenSSL appends to wbio extends the stream by the same bytes.      *)
(***************************************************************************)
LEMMA MadeGrows ==
    ASSUME TypeOK, CiphertextInOrder, NEW b \in Seq(Byte)
    PROVE  made \o b = out \o write_buf \o (wbio \o b)
<1>1. out \o write_buf \in Seq(Byte) /\ wbio \in Seq(Byte)
  BY ConcatProperties DEF TypeOK
<1>2. ((out \o write_buf) \o wbio) \o b = (out \o write_buf) \o (wbio \o b)
  BY <1>1, ByteConcat, Zenon
<1> QED
  BY <1>2 DEF CiphertextInOrder

(***************************************************************************)
(* Moving wbio to the end of write_buf leaves the stream as it is.         *)
(***************************************************************************)
LEMMA QueueKeepsStream ==
    ASSUME TypeOK, CiphertextInOrder, queue_encrypted_bytes, UNCHANGED <<made, out>>
    PROVE  /\ write_buf' \in Seq(Byte) /\ wbio' \in Seq(Byte)
           /\ CiphertextInOrder'
<1>1. /\ out \in Seq(Byte) /\ write_buf \in Seq(Byte) /\ wbio \in Seq(Byte)
      /\ write_buf' = write_buf \o wbio /\ wbio' = <<>> /\ out' = out /\ made' = made
  BY DEF TypeOK, queue_encrypted_bytes
<1>2. write_buf \o wbio \in Seq(Byte) /\ out \o (write_buf \o wbio) \in Seq(Byte)
  BY <1>1, ConcatProperties
<1>3. (out \o (write_buf \o wbio)) \o <<>> = made
  <2>1. made = out \o (write_buf \o wbio)
    BY <1>1, ByteConcat DEF CiphertextInOrder
  <2> QED
    BY <1>2, <2>1, ConcatEmptySeq
<1> QED
  BY <1>1, <1>2, <1>3 DEF CiphertextInOrder

(***************************************************************************)
(* OpenSSL takes a record from rbio and appends one to wbio.               *)
(***************************************************************************)
LEMMA AnswerKeepsStream ==
    ASSUME SslInv, Len(rbio) >= 2, rbio' = Drop(rbio, 2),
           NEW kind \in {"flight", "alert"},
           wbio' = wbio \o Bytes(kind, <<>>), made' = made \o Bytes(kind, <<>>),
           UNCHANGED <<out, write_buf>>
    PROVE  /\ rbio' \in Seq(Byte) /\ wbio' \in Seq(Byte) /\ made' \in Seq(Byte)
           /\ CiphertextInOrder'
<1>1. TypeOK /\ CiphertextInOrder
  BY DEF SslInv
<1>2. Bytes(kind, <<>>) \in Seq(Byte)
  <2>1. <<>> \in Seq(Nat)
    OBVIOUS
  <2> QED
    BY <2>1, BytesType
<1>3. rbio' \in Seq(Byte)
  <2>1. rbio \in Seq(Byte) /\ 2 \in 1 .. Len(rbio)
    BY <1>1, LenProperties DEF TypeOK
  <2> QED
    BY <2>1, TakeDrop
<1>4. wbio' \in Seq(Byte) /\ made' \in Seq(Byte)
  BY <1>1, <1>2, ConcatType DEF TypeOK
<1> QED
  BY <1>1, <1>2, <1>3, <1>4, MadeGrows DEF CiphertextInOrder

(***************************************************************************)
(* SSL_write takes the first n items and its record is queued.             *)
(***************************************************************************)
LEMMA EncryptStep ==
    ASSUME SslInv, NEW n \in 1 .. Len(encrypt_buf), Encrypt(n)
    PROVE  SslInv'
<1> DEFINE items == Take(encrypt_buf, n)
           record == Bytes("data", items)
<1>1. /\ TypeOK /\ CallInv /\ CiphertextInOrder /\ PlaintextInOrder
      /\ pc = "encrypt" /\ pc' \in {"idle", "encrypt"}
      /\ encrypt_buf' = Drop(encrypt_buf, n) /\ plain' = plain \o items
      /\ made' = made \o record /\ write_buf' = write_buf \o wbio \o record
      /\ wbio' = <<>>
      /\ UNCHANGED <<flight, rbio, bufout, in, out, peer, typed, shown>>
  BY DEF SslInv, Encrypt, Remaining
<1>2. /\ items \in Seq(Nat) /\ encrypt_buf' \in Seq(Nat)
      /\ items \o encrypt_buf' = encrypt_buf
  BY <1>1, TakeDrop DEF TypeOK
<1>3. record \in Seq(Byte)
  BY <1>2, BytesType
<1> HIDE DEF items, record
<1>4. wbio = <<>> /\ Len(rbio) < 2
  BY <1>1 DEF CallInv
<1>5. write_buf \o wbio = write_buf
  BY <1>1, <1>4, ConcatEmptySeq DEF TypeOK
<1>6. made' \in Seq(Byte) /\ write_buf' \in Seq(Byte) /\ wbio' \in Seq(Byte)
  BY <1>1, <1>3, <1>5, ConcatProperties DEF TypeOK
<1>7. plain' \in Seq(Nat)
  BY <1>1, <1>2, ConcatProperties DEF TypeOK
<1>8. TypeOK'
  BY <1>1, <1>2, <1>6, <1>7 DEF TypeOK
<1>9. PlaintextInOrder'
  <2>1. plain \in Seq(Nat)
    BY <1>1 DEF TypeOK
  <2>2. (plain \o items) \o encrypt_buf' = plain \o (items \o encrypt_buf')
    BY <1>2, <2>1, ItemConcat, Zenon
  <2> QED
    BY <1>1, <1>2, <2>2 DEF PlaintextInOrder
<1>10. CiphertextInOrder'
  <2>1. /\ out \in Seq(Byte) /\ write_buf \in Seq(Byte)
        /\ out \o write_buf \in Seq(Byte) /\ out \o write_buf' \in Seq(Byte)
    BY <1>1, <1>6, ConcatProperties DEF TypeOK
  <2>2. made = out \o write_buf
    BY <1>1, <1>4, <2>1, ConcatEmptySeq DEF CiphertextInOrder
  <2>3. made' = out \o write_buf'
    <3>1. out \in Seq(Byte) /\ write_buf \in Seq(Byte) /\ record \in Seq(Byte)
      BY <1>3, <2>1
    <3>2. (out \o write_buf) \o record = out \o (write_buf \o record)
      BY <3>1, ByteConcat, Zenon
    <3> QED
      BY <1>1, <1>5, <2>2, <3>2
  <2> QED
    BY <1>1, <2>1, <2>3, ConcatEmptySeq DEF CiphertextInOrder
<1> QED
  BY <1>1, <1>4, <1>8, <1>9, <1>10 DEF SslInv, CallInv

(***************************************************************************)
(* A partial write moves the first n bytes of write_buf to the socket.     *)
(***************************************************************************)
LEMMA SockWriteStep ==
    ASSUME SslInv, NEW n \in 1 .. Len(write_buf), SockWrite(n)
    PROVE  SslInv'
<1> DEFINE bytes == Take(write_buf, n)
<1>1. /\ TypeOK /\ CallInv /\ CiphertextInOrder /\ PlaintextInOrder
      /\ out' = out \o bytes /\ write_buf' = Drop(write_buf, n)
      /\ UNCHANGED <<pc, flight, rbio, wbio, encrypt_buf, bufout, in, peer, made,
                     plain, typed, shown>>
  BY DEF SslInv, SockWrite, Remaining
<1>2. /\ bytes \in Seq(Byte) /\ write_buf' \in Seq(Byte)
      /\ bytes \o write_buf' = write_buf
  BY <1>1, TakeDrop DEF TypeOK
<1> HIDE DEF bytes
<1>3. out' \in Seq(Byte)
  BY <1>1, <1>2, ConcatProperties DEF TypeOK
<1>4. out' \o write_buf' = out \o write_buf
  <2>1. out \in Seq(Byte)
    BY <1>1 DEF TypeOK
  <2>2. (out \o bytes) \o write_buf' = out \o (bytes \o write_buf')
    BY <1>2, <2>1, ByteConcat, Zenon
  <2> QED
    BY <1>1, <1>2, <2>2
<1> QED
  BY <1>1, <1>2, <1>3, <1>4
  DEF SslInv, TypeOK, CallInv, CiphertextInOrder, PlaintextInOrder

(***************************************************************************)
(* Reading the socket only moves bytes from in to rbio.                    *)
(***************************************************************************)
LEMMA SockReadStep ==
    ASSUME SslInv, NEW n \in 1 .. Len(in), SockRead(n)
    PROVE  SslInv'
<1>1. TypeOK
  BY DEF SslInv
<1>2. Take(in, n) \in Seq(Byte) /\ Drop(in, n) \in Seq(Byte)
  BY <1>1, TakeDrop DEF TypeOK
<1>3. rbio' \in Seq(Byte) /\ in' \in Seq(Byte)
  BY <1>1, <1>2, ConcatProperties DEF SockRead, BIO_write, TypeOK
<1> QED
  BY <1>1, <1>3
  DEF SslInv, SockRead, TypeOK, CallInv, CiphertextInOrder, PlaintextInOrder

(***************************************************************************)
(* What is typed comes after everything typed before.                      *)
(***************************************************************************)
LEMMA StdinStep ==
    ASSUME SslInv, do_stdin_read
    PROVE  SslInv'
<1>1. /\ TypeOK /\ CallInv /\ CiphertextInOrder /\ PlaintextInOrder
      /\ typed' = typed + 1 /\ encrypt_buf' = Append(encrypt_buf, typed + 1)
      /\ UNCHANGED <<pc, flight, rbio, wbio, write_buf, bufout, in, out, peer, made,
                     plain, shown>>
  BY DEF SslInv, do_stdin_read, send_unencrypted_bytes
<1>2. typed \in Nat /\ plain \in Seq(Nat) /\ encrypt_buf \in Seq(Nat)
  BY <1>1 DEF TypeOK
<1>3. encrypt_buf' \in Seq(Nat) /\ encrypt_buf' = encrypt_buf \o <<typed + 1>>
  <2>1. typed + 1 \in Nat
    BY <1>2
  <2>2. Append(encrypt_buf, typed + 1) \in Seq(Nat)
    BY <1>2, <2>1, AppendProperties
  <2>3. Append(encrypt_buf, typed + 1) = encrypt_buf \o <<typed + 1>>
    BY <1>2, <2>1, AppendIsConcat
  <2> QED
    BY <1>1, <2>2, <2>3
<1>4. plain \o encrypt_buf' = (plain \o encrypt_buf) \o <<typed + 1>>
  <2>1. <<typed + 1>> \in Seq(Nat)
    BY <1>2
  <2>2. (plain \o encrypt_buf) \o <<typed + 1>> = plain \o (encrypt_buf \o <<typed + 1>>)
    BY <1>2, <2>1, ItemConcat, Zenon
  <2> QED
    BY <1>3, <2>2
<1>5. PlaintextInOrder'
  <2> DEFINE s == plain \o encrypt_buf
             t == [i \in 1 .. typed + 1 |-> i]
  <2>1. s \in Seq(Nat) /\ s = [i \in 1 .. typed |-> i]
    BY <1>1, <1>2, ConcatProperties DEF PlaintextInOrder
  <2>2. Len(s) = typed /\ \A i \in 1 .. typed : s[i] = i
    BY <1>2, <2>1, LenProperties
  <2>3. /\ s \o <<typed + 1>> \in Seq(Nat)
        /\ Len(s \o <<typed + 1>>) = typed + 1
        /\ \A i \in 1 .. typed + 1 : (s \o <<typed + 1>>)[i] = i
    BY <1>2, <2>1, <2>2, ConcatProperties
  <2>4. s \o <<typed + 1>> = t
    BY <1>2, <2>3, LenProperties
  <2> QED
    BY <1>1, <1>4, <2>4 DEF PlaintextInOrder
<1> QED
  BY <1>1, <1>2, <1>3, <1>5 DEF SslInv, TypeOK, CallInv, CiphertextInOrder

LEMMA SslStep == SslInv /\ [Next]_vars => SslInv'
<1> SUFFICES ASSUME SslInv, [Next]_vars
             PROVE  SslInv'
  OBVIOUS
<1>i. TypeOK /\ CallInv /\ CiphertextInOrder /\ PlaintextInOrder
  BY DEF SslInv
<1> USE DEF SslInv
<1>1. CASE ssl_init \/ ssl_init_fails \/ ssl_client_init \/ CallFails
           \/ ssl_client_cleanup \/ do_encrypt
  BY <1>1, <1>i
  DEF ssl_init, ssl_init_fails, ssl_client_init, CallFails, ssl_client_cleanup,
      do_encrypt, TypeOK, CallInv, CiphertextInOrder, PlaintextInOrder
<1>2. CASE RecordRejected
  <2>1. /\ rbio' \in Seq(Byte) /\ wbio' \in Seq(Byte) /\ made' \in Seq(Byte)
        /\ CiphertextInOrder'
    BY <1>2, AnswerKeepsStream DEF RecordRejected
  <2> QED
    BY <1>2, <1>i, <2>1 DEF RecordRejected, TypeOK, CallInv, PlaintextInOrder
<1>3. CASE HandshakeFlight \/ ReadFlight
  <2>1. /\ Flight /\ pc' \in {"handshake", "read"}
    BY <1>3 DEF HandshakeFlight, ReadFlight, AfterFlight
  <2>2. /\ rbio' \in Seq(Byte) /\ wbio' \in Seq(Byte) /\ made' \in Seq(Byte)
        /\ CiphertextInOrder'
    BY <2>1, AnswerKeepsStream DEF Flight, NextRecord
  <2> QED
    <3>1. /\ flight' = flight + 1
          /\ UNCHANGED <<write_buf, encrypt_buf, bufout, in, out, peer, plain, typed,
                         shown>>
      BY <2>1 DEF Flight
    <3>2. TypeOK'
      BY <1>i, <2>1, <2>2, <3>1 DEF TypeOK
    <3> QED
      BY <1>i, <2>1, <2>2, <3>1, <3>2 DEF CallInv, PlaintextInOrder
<1>4. CASE HandshakeWantsMore \/ ReadWantsMore
  <2>1. /\ queue_encrypted_bytes /\ Len(rbio) < 2 /\ pc' = "idle"
        /\ UNCHANGED <<flight, rbio, encrypt_buf, bufout, in, out, peer, made, plain,
                       typed, shown>>
    BY <1>4 DEF HandshakeWantsMore, ReadWantsMore, QueueAfterRead
  <2>2. write_buf' \in Seq(Byte) /\ wbio' \in Seq(Byte) /\ CiphertextInOrder'
    BY <1>i, <2>1, QueueKeepsStream
  <2> QED
    BY <1>i, <2>1, <2>2
    DEF queue_encrypted_bytes, TypeOK, CallInv, PlaintextInOrder
<1>5. CASE ReadData
  <2>1. rbio \in Seq(Byte) /\ 2 \in 1 .. Len(rbio)
    BY <1>5, <1>i, LenProperties DEF ReadData, NextRecord, TypeOK
  <2>2. rbio' \in Seq(Byte)
    BY <1>5, <2>1, TakeDrop DEF ReadData
  <2>3. bufout' \in Seq(Nat) /\ shown' \in Seq(Nat)
    <3>1. rbio[1].rec.items \in Seq(Nat)
      <4>1. rbio[1] \in Byte
        BY <2>1, ElementOfSeq
      <4> QED
        BY <4>1 DEF Byte, Record
    <3>2. bufout' = rbio[1].rec.items /\ shown' = shown \o rbio[1].rec.items
      BY <1>5 DEF ReadData, print_unencrypted_data
    <3>3. shown \in Seq(Nat)
      BY <1>i DEF TypeOK
    <3> QED
      BY <3>1, <3>2, <3>3, ConcatType
  <2>4. pc = "read" /\ UNCHANGED <<pc, flight, wbio, write_buf, encrypt_buf, in, out,
                                   peer, made, plain, typed>>
    BY <1>5 DEF ReadData
  <2> QED
    BY <1>i, <2>2, <2>3, <2>4
    DEF TypeOK, CallInv, CiphertextInOrder, PlaintextInOrder
<1>6. CASE EncryptLoop
  BY <1>6, EncryptStep DEF EncryptLoop
<1>7. CASE do_sock_read
  BY <1>7, SockReadStep DEF do_sock_read
<1>8. CASE do_stdin_read
  BY <1>8, StdinStep
<1>9. CASE do_sock_write
  BY <1>9, SockWriteStep DEF do_sock_write
<1>10. CASE PeerFlight \/ PeerData
  <2>1. <<>> \in Seq(Nat) /\ <<peer.data + 1>> \in Seq(Nat)
    BY <1>i DEF TypeOK
  <2>2. /\ Bytes("flight", <<>>) \in Seq(Byte)
        /\ Bytes("data", <<peer.data + 1>>) \in Seq(Byte)
    BY <2>1, BytesType
  <2>3. in' \in Seq(Byte)
    <3>1. in \in Seq(Byte)
      BY <1>i DEF TypeOK
    <3>2. \/ in' = in \o Bytes("flight", <<>>)
          \/ in' = in \o Bytes("data", <<peer.data + 1>>)
      BY <1>10 DEF PeerFlight, PeerData
    <3> QED
      BY <2>2, <3>1, <3>2, ConcatType
  <2>4. peer' \in [flights : Nat, data : Nat]
    <3>1. peer \in [flights : Nat, data : Nat]
      BY <1>i DEF TypeOK
    <3>2. \/ peer' = [peer EXCEPT !.flights = @ + 1]
          \/ peer' = [peer EXCEPT !.data = @ + 1]
      BY <1>10 DEF PeerFlight, PeerData
    <3> QED
      BY <3>1, <3>2
  <2> QED
    BY <1>10, <1>i, <2>3, <2>4
    DEF PeerFlight, PeerData, TypeOK, CallInv, CiphertextInOrder, PlaintextInOrder
<1>11. CASE UNCHANGED vars
  BY <1>11, <1>i DEF vars, TypeOK, CallInv, CiphertextInOrder, PlaintextInOrder
<1> QED
  BY <1>1, <1>2, <1>3, <1>4, <1>5, <1>6, <1>7, <1>8, <1>9, <1>10, <1>11
  DEF Next, CallNext

LEMMA SslInit == Init => SslInv
<1> SUFFICES ASSUME Init PROVE SslInv
  OBVIOUS
<1>1. <<>> \in Seq(Byte) /\ <<>> \in Seq(Nat) /\ <<>> \o <<>> = <<>> /\ Len(<<>>) = 0
  BY ConcatEmptySeq, EmptySeq
<1>2. TypeOK /\ CallInv
  BY <1>1 DEF Init, TypeOK, CallInv
<1>3. CiphertextInOrder
  BY <1>1 DEF Init, CiphertextInOrder
<1>4. PlaintextInOrder
  <2>1. [i \in 1 .. 0 |-> i] = <<>>
    OBVIOUS
  <2> QED
    BY <1>1, <2>1 DEF Init, PlaintextInOrder
<1> QED
  BY <1>2, <1>3, <1>4 DEF SslInv

(***************************************************************************)
(* Types of the buffers of ssl_client.                                     *)
(***************************************************************************)
THEOREM TypeCorrect == Spec => []TypeOK
<1>1. SslInv => TypeOK
  BY DEF SslInv
<1> QED
  BY <1>1, SslInit, SslStep, PTL DEF Spec

(***************************************************************************)
(* do_sock_read, do_encrypt and do_sock_write return with wbio drained,    *)
(* whatever OpenSSL wrote, unless they fail.                               *)
(***************************************************************************)
THEOREM NoOutputStranded == Spec => []OutputQueued
<1>1. SslInv => OutputQueued
  BY DEF SslInv, CallInv, OutputQueued
<1> QED
  BY <1>1, SslInit, SslStep, PTL DEF Spec

(***************************************************************************)
(* on_read_cb returns 0 only when rbio holds no complete record.           *)
(***************************************************************************)
THEOREM NoInputStranded == Spec => []InputProcessed
<1>1. SslInv => InputProcessed
  BY DEF SslInv, CallInv, InputProcessed
<1> QED
  BY <1>1, SslInit, SslStep, PTL DEF Spec

(***************************************************************************)
(* The socket, write_buf and wbio together hold exactly the bytes OpenSSL  *)
(* produced, in order, for every split of the writes.                      *)
(***************************************************************************)
THEOREM CiphertextKept == Spec => []CiphertextInOrder
<1>1. SslInv => CiphertextInOrder
  BY DEF SslInv
<1> QED
  BY <1>1, SslInit, SslStep, PTL DEF Spec

(***************************************************************************)
(* What SSL_write was given and encrypt_buf hold exactly what was typed.   *)
(***************************************************************************)
THEOREM PlaintextKept == Spec => []PlaintextInOrder
<1>1. SslInv => PlaintextInOrder
  BY DEF SslInv
<1> QED
  BY <1>1, SslInit, SslStep, PTL DEF Spec

=============================================================================
