------------------------------ MODULE SslClient ------------------------------
(***************************************************************************)
(* struct ssl_client and the operations of ssl.cpp on it, in server mode:  *)
(* OpenSSL works on two memory BIOs, and ssl.cpp carries ciphertext from   *)
(* the socket to rbio and from wbio through write_buf to the socket, and   *)
(* plaintext from stdin through encrypt_buf to SSL_write and from SSL_read *)
(* to bufout, where the next record of the same read overwrites it.        *)
(*                                                                         *)
(* ssl.cpp is linked into 3d_server, whose calls of it are commented out:  *)
(* the loop that calls it, OpenSSL, the socket and the peer are external.  *)
(* One thread uses a client, so a call is a sequence of steps with pc away *)
(* from "idle", at which the caller has control.                           *)
(*                                                                         *)
(* A record is two bytes, so that reads and writes may split it.  The peer *)
(* and OpenSSL exchange flights, each answered by one: Flights of them     *)
(* make a handshake, after the first one more is a renegotiation.          *)
(***************************************************************************)
EXTENDS Integers, Sequences, FiniteSets

CONSTANTS
    Flights,            \* flights of a handshake, sent by the peer
    MaxFlights,         \* bound on the flights the peer sends
    MaxTyped,           \* bound on the items read from stdin
    MaxPeerData,        \* bound on the data records of the peer
    BufSize             \* DEFAULT_BUF_SIZE, in bytes of two to a record

ASSUME SslAssumption ==
    /\ Flights \in Nat \ {0}
    /\ {MaxFlights, MaxTyped, MaxPeerData} \subseteq Nat
    /\ MaxFlights % Flights = 0
    /\ BufSize \in Nat \ {0}

VARIABLES
    pc,                 \* where the thread is in ssl.cpp
    flight,             \* flights OpenSSL has processed
    rbio,
    wbio,
    write_buf,
    encrypt_buf,
    bufout,             \* what lenout counts of tmpbuf
    in,                 \* bytes of the peer not yet read from the socket
    out,                \* bytes written to the socket
    peer,               \* flights and data records the peer has sent
    made,               \* history: bytes OpenSSL has produced
    plain,              \* history: items given to SSL_write
    shown,              \* history: items given to io_on_read
    typed               \* items read from stdin; the i-th is i

buffers == <<rbio, wbio, write_buf, encrypt_buf>>
world == <<in, out, peer>>
history == <<made, plain, typed>>
reading == <<bufout, shown>>

vars == <<pc, flight, buffers, reading, world, history>>

Record == [kind : {"flight", "alert", "data"}, items : Seq(Nat)]
Byte == [rec : Record, part : {1, 2}]

Bytes(kind, items) ==
    LET record == [kind |-> kind, items |-> items] IN
    <<[rec |-> record, part |-> 1], [rec |-> record, part |-> 2]>>

Take(s, n) == SubSeq(s, 1, n)
Drop(s, n) == SubSeq(s, n + 1, Len(s))

TypeOK ==
    /\ pc \in {"start", "new", "idle", "handshake", "read", "encrypt", "failed",
               "freed", "exited"}
    /\ flight \in Nat
    /\ rbio \in Seq(Byte) /\ wbio \in Seq(Byte) /\ write_buf \in Seq(Byte)
    /\ in \in Seq(Byte) /\ out \in Seq(Byte) /\ made \in Seq(Byte)
    /\ encrypt_buf \in Seq(Nat) /\ plain \in Seq(Nat)
    /\ bufout \in Seq(Nat) /\ shown \in Seq(Nat)
    /\ peer \in [flights : Nat, data : Nat]
    /\ typed \in Nat

\* memset of the structure, and nothing sent or received.
Init ==
    /\ pc = "start"
    /\ flight = 0
    /\ rbio = <<>>
    /\ wbio = <<>>
    /\ write_buf = <<>>
    /\ encrypt_buf = <<>>
    /\ bufout = <<>>
    /\ in = <<>>
    /\ out = <<>>
    /\ peer = [flights |-> 0, data |-> 0]
    /\ made = <<>>
    /\ plain = <<>>
    /\ shown = <<>>
    /\ typed = 0

SSL_is_init_finished == flight > 0 /\ flight % Flights = 0

-----------------------------------------------------------------------------
(* Set-up, failure and clean-up. *)

ssl_init ==
    /\ pc = "start"
    /\ pc' = "new"
    /\ UNCHANGED <<flight, buffers, world, history, reading>>

\* No context, or a certificate or key that does not load or match: exit.
ssl_init_fails ==
    /\ pc = "start"
    /\ pc' = "exited"
    /\ UNCHANGED <<flight, buffers, world, history, reading>>

ssl_client_init ==
    /\ pc = "new"
    /\ pc' = "idle"
    /\ UNCHANGED <<flight, buffers, world, history, reading>>

\* A call returns -1: read, write or OpenSSL failed or the peer has closed.
CallFails ==
    /\ pc \in {"idle", "handshake", "read", "encrypt"}
    /\ pc' = "failed"
    /\ UNCHANGED <<flight, buffers, world, history, reading>>

\* OpenSSL rejects a record and leaves an alert in wbio, which is not drained.
RecordRejected ==
    /\ pc \in {"handshake", "read"}
    /\ Len(rbio) >= 2
    /\ rbio' = Drop(rbio, 2)
    /\ wbio' = wbio \o Bytes("alert", <<>>)
    /\ made' = made \o Bytes("alert", <<>>)
    /\ pc' = "failed"
    /\ UNCHANGED <<flight, write_buf, encrypt_buf, world, plain, typed, reading>>

ssl_client_cleanup ==
    /\ pc = "failed"
    /\ pc' = "freed"
    /\ UNCHANGED <<flight, buffers, world, history, reading>>

-----------------------------------------------------------------------------
(* Reading: do_sock_read and on_read_cb. *)

\* What rbio holds after a read of n bytes, and a variant that forgets the first
\* bytes of a record whose rest has come.
StartAfresh(n) == Take(in, n)

BIO_write(n) == rbio \o Take(in, n)

\* The bytes go to rbio, with tmpbuf empty; an unfinished handshake comes first.
SockRead(n) ==
    /\ pc = "idle"
    /\ n <= BufSize
    /\ rbio' = BIO_write(n)
    /\ in' = Drop(in, n)
    /\ bufout' = <<>>
    /\ pc' = IF SSL_is_init_finished THEN "read" ELSE "handshake"
    /\ UNCHANGED <<flight, wbio, write_buf, encrypt_buf, out, peer, shown, history>>

do_sock_read == \E n \in 1 .. Len(in) : SockRead(n)

\* All of wbio is queued for the socket.
queue_encrypted_bytes ==
    /\ write_buf' = write_buf \o wbio
    /\ wbio' = <<>>

NextRecord(kind) == Len(rbio) >= 2 /\ rbio[1].rec.kind = kind

\* OpenSSL takes a flight from rbio and answers it into wbio.
Flight ==
    /\ NextRecord("flight")
    /\ flight' = flight + 1
    /\ rbio' = Drop(rbio, 2)
    /\ wbio' = wbio \o Bytes("flight", <<>>)
    /\ made' = made \o Bytes("flight", <<>>)
    /\ UNCHANGED <<write_buf, encrypt_buf, world, plain, typed, reading>>

\* Where on_read_cb is after a flight, and a variant that returns as soon as the
\* handshake is finished.
ReturnWhenFinished == IF SSL_is_init_finished' THEN "idle" ELSE "handshake"

AfterFlight == IF SSL_is_init_finished' THEN "read" ELSE "handshake"

\* SSL_do_handshake.  When it succeeds wbio is not drained here, but after
\* the SSL_read that follows.
HandshakeFlight ==
    /\ pc = "handshake"
    /\ Flight
    /\ pc' = AfterFlight

HandshakeWantsMore ==
    /\ pc = "handshake"
    /\ Len(rbio) < 2
    /\ queue_encrypted_bytes
    /\ pc' = "idle"
    /\ UNCHANGED <<flight, rbio, encrypt_buf, world, history, reading>>

\* io_on_read copies to the start of bufout and overwrites lenout.
print_unencrypted_data(items) ==
    /\ bufout' = items
    /\ shown' = shown \o items

\* SSL_read: a data record goes to io_on_read, over one before it in this read.
ReadData ==
    /\ pc = "read"
    /\ NextRecord("data")
    /\ print_unencrypted_data(rbio[1].rec.items)
    /\ rbio' = Drop(rbio, 2)
    /\ UNCHANGED <<pc, flight, wbio, write_buf, encrypt_buf, world, history>>

\* SSL_read meets a flight: a renegotiation, run inside SSL_read.
ReadFlight ==
    /\ pc = "read"
    /\ Flight
    /\ UNCHANGED pc

\* SSL_read wants more: what it wrote is queued and on_read_cb returns 0.  The
\* variant queues nothing outside a renegotiation.
QueueInRenegotiation ==
    IF SSL_is_init_finished THEN UNCHANGED <<write_buf, wbio>>
    ELSE queue_encrypted_bytes

QueueAfterRead == queue_encrypted_bytes

ReadWantsMore ==
    /\ pc = "read"
    /\ Len(rbio) < 2
    /\ QueueAfterRead
    /\ pc' = "idle"
    /\ UNCHANGED <<flight, rbio, encrypt_buf, world, history, reading>>

-----------------------------------------------------------------------------
(* Writing. *)

\* What is queued after a read from stdin, and a variant that queues the -1 of a
\* failed read.
QueueAnyResult == Append(encrypt_buf, -1)

send_unencrypted_bytes == Append(encrypt_buf, typed + 1)

\* At any time; a read that fails changes nothing.
do_stdin_read ==
    /\ pc = "idle"
    /\ typed < MaxTyped
    /\ typed' = typed + 1
    /\ encrypt_buf' = send_unencrypted_bytes
    /\ UNCHANGED <<pc, flight, rbio, wbio, write_buf, world, made, plain, reading>>

\* do_encrypt returns at once during a handshake or with nothing to encrypt.
do_encrypt ==
    /\ pc = "idle"
    /\ SSL_is_init_finished
    /\ encrypt_buf # <<>>
    /\ pc' = "encrypt"
    /\ UNCHANGED <<flight, buffers, world, history, reading>>

\* What stays in a buffer after its first n entries are used (memmove and a new
\* length), and a variant without the memmove.
NoMove(s, n) == Take(s, Len(s) - n)

Remaining(s, n) == Drop(s, n)

\* SSL_write uses n items of encrypt_buf; its record is queued at once.
Encrypt(n) ==
    LET record == Bytes("data", Take(encrypt_buf, n)) IN
    /\ pc = "encrypt"
    /\ encrypt_buf' = Remaining(encrypt_buf, n)
    /\ plain' = plain \o Take(encrypt_buf, n)
    /\ made' = made \o record
    /\ write_buf' = write_buf \o wbio \o record
    /\ wbio' = <<>>
    /\ pc' = IF encrypt_buf' = <<>> THEN "idle" ELSE "encrypt"
    /\ UNCHANGED <<flight, rbio, world, typed, reading>>

EncryptLoop == \E n \in 1 .. Len(encrypt_buf) : Encrypt(n)

\* The caller asks before do_sock_write.
ssl_client_want_write == Len(write_buf) > 0

\* write takes n bytes.
SockWrite(n) ==
    /\ pc = "idle"
    /\ ssl_client_want_write
    /\ out' = out \o Take(write_buf, n)
    /\ write_buf' = Remaining(write_buf, n)
    /\ UNCHANGED <<pc, flight, rbio, wbio, encrypt_buf, in, peer, history, reading>>

do_sock_write == \E n \in 1 .. Len(write_buf) : SockWrite(n)

-----------------------------------------------------------------------------
(* The peer. *)

\* It sends a flight when all earlier ones are answered.
Answered ==
    Cardinality({i \in DOMAIN out : out[i].rec.kind = "flight" /\ out[i].part = 2})
        = peer.flights

PeerFlight ==
    /\ peer.flights < MaxFlights
    /\ Answered
    /\ peer' = [peer EXCEPT !.flights = @ + 1]
    /\ in' = in \o Bytes("flight", <<>>)
    /\ UNCHANGED <<pc, flight, buffers, out, history, reading>>

\* It sends data as soon as it has sent the last flight of a handshake: the i-th
\* record carries the item i.
PeerData ==
    /\ peer.flights > 0 /\ peer.flights % Flights = 0
    /\ peer.data < MaxPeerData
    /\ peer' = [peer EXCEPT !.data = @ + 1]
    /\ in' = in \o Bytes("data", <<peer.data + 1>>)
    /\ UNCHANGED <<pc, flight, buffers, out, history, reading>>

-----------------------------------------------------------------------------

\* OpenSSL and ssl.cpp inside a call.
CallNext ==
    \/ HandshakeFlight
    \/ HandshakeWantsMore
    \/ ReadData
    \/ ReadFlight
    \/ ReadWantsMore
    \/ EncryptLoop

Next ==
    \/ ssl_init
    \/ ssl_init_fails
    \/ ssl_client_init
    \/ CallFails
    \/ RecordRejected
    \/ ssl_client_cleanup
    \/ CallNext
    \/ do_sock_read
    \/ do_stdin_read
    \/ do_encrypt
    \/ do_sock_write
    \/ PeerFlight
    \/ PeerData

Spec == Init /\ [][Next]_vars

-----------------------------------------------------------------------------
(***************************************************************************)
(* Whenever the caller has control, everything OpenSSL has written is      *)
(* queued for the socket: also the last flight of a handshake, which       *)
(* do_ssl_handshake leaves in wbio because its status is then OK.          *)
(***************************************************************************)
OutputQueued == pc = "idle" => wbio = <<>>

(***************************************************************************)
(* Whenever the caller has control, no complete record waits in rbio: also *)
(* data that came in the same read as the last flight of a handshake.      *)
(***************************************************************************)
InputProcessed == pc = "idle" => Len(rbio) < 2

(***************************************************************************)
(* No byte of ciphertext is lost, repeated or reordered on its way from    *)
(* OpenSSL through wbio and write_buf to the socket, with partial writes   *)
(* and renegotiation flights between data records.                         *)
(***************************************************************************)
CiphertextInOrder == made = out \o write_buf \o wbio

(***************************************************************************)
(* No plaintext is lost, repeated or reordered on its way from stdin to    *)
(* SSL_write, also what is typed before the handshake has finished.        *)
(***************************************************************************)
PlaintextInOrder == plain \o encrypt_buf = [i \in 1 .. typed |-> i]

\* The items of the data records not yet read, in rbio and on the socket.
EndsData(byte) == byte.part = 2 /\ byte.rec.kind = "data"

Ahead ==
    LET ends == SelectSeq(rbio \o in, EndsData) IN
    [k \in DOMAIN ends |-> ends[k].rec.items[1]]

(***************************************************************************)
(* No data record of the peer is lost, repeated or reordered on its way    *)
(* from the socket through rbio to io_on_read, with reads that split a     *)
(* record, that bring several and that bring the last flight of a          *)
(* handshake with the first data, and renegotiations between them, until   *)
(* a call fails.  The caller finds in bufout the last record of the read,  *)
(* or nothing: the other records of the read are overwritten.              *)
(***************************************************************************)
RecordsInOrder ==
    /\ pc \notin {"failed", "freed"} => shown \o Ahead = [i \in 1 .. peer.data |-> i]
    /\ bufout = <<>> \/ bufout = <<shown[Len(shown)]>>

=============================================================================
