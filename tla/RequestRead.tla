---------------------------- MODULE RequestRead ----------------------------
(* Reading one request off a connection: the head, then the declared body,   *)
(* each under an overall deadline and an inter-byte cap that are evaluated   *)
(* between polls of the socket (homeserver/http_server.cpp, tls.cpp).  A     *)
(* unit of data is what one read takes (4096 bytes); a TLS record may hold   *)
(* several, and what OpenSSL has decrypted is no longer in the socket.  A    *)
(* read that finds nothing to return (half a TLS record, a socket that was   *)
(* readable for no reason) waits again by itself, whatever the caps say.     *)
EXTENDS Naturals, Sequences, SequencesExt, FiniteSetsExt

CONSTANTS
    Lengths,      \* Content-Length values, in units of body
    BodyCap,      \* body_size_cap, or the media upload limit
    MaxHeaders,   \* RequestLimits::max_header_count
    MaxLines,     \* bound: header lines of a head
    Cap,          \* units a head may take (header_size_cap)
    HeadDeadline, \* request_head_deadline
    BaseDeadline, \* request_body_base_deadline
    Floor,        \* request_body_min_bytes_per_second
    InterByte,    \* inter_byte_timeout
    ReceiveTimeout, \* receive_timeout_milliseconds, also the m_io_timeout_ms of both streams
    MaxWaits,     \* bound: waits inside one read
    MaxTime       \* bound: length of a run

VARIABLES
    tls,      \* the connection is a TlsConnectionStream
    phase,    \* "head", "body", "done", or why the read was given up
    polling,  \* the poll() before a read ends at this time, or 0
    inner,    \* the poll() inside a read ends at this time, or 0
    waits,    \* how often the read in progress has polled
    now, start, last,
    head,     \* units this request's head takes
    lines,    \* its header lines
    got,      \* units the reader has, of this request
    socket,   \* units in the socket, record by record
    half,     \* units of a TLS record of which only the beginning has come, or 0
    fed,      \* OpenSSL has taken that beginning out of the socket
    pending,  \* units decrypted and not yet asked for
    unsent    \* units the client has yet to write

clock == <<now, start, last>>
input == <<tls, head, lines>>
wire == <<socket, half, fed, pending, unsent>>
vars == <<input, clock, wire, phase, polling, inner, waits, got>>

\* A header line is a Content-Length, a Transfer-Encoding, any other header,
\* or text that is no header at all.
Line == [name : {"content-length"}, value : Lengths]
        \cup [name : {"transfer-encoding", "other", "malformed"}, value : {0}]

\* append_header_or_error, for the line at place i
LineError(ls, i) ==
    CASE i > MaxHeaders -> "too_many_headers"
      [] ls[i].name = "malformed" -> "malformed_request_line"
      [] ls[i].name = "transfer-encoding" -> "unsupported_transfer_encoding"
      [] \E j \in 1..(i - 1) : ls[i].name = "content-length" /\ ls[j].name = "content-length"
                               /\ ls[i].value # ls[j].value -> "duplicate_content_length"
      [] OTHER -> "none"

\* parse_request_head: the first line that is wrong decides.
ParseError(ls) ==
    LET wrong == {i \in 1..Len(ls) : LineError(ls, i) # "none"}
    IN IF wrong = {} THEN "none" ELSE LineError(ls, Min(wrong))

\* content_length of a head without errors
Body == Max({0} \cup {lines[i].value : i \in {j \in 1..Len(lines) : lines[j].name = "content-length"}})

Total == head + Body
Reading == phase \in {"head", "body"}

Init ==
    /\ tls \in BOOLEAN
    /\ phase = "head" /\ polling = 0 /\ inner = 0 /\ waits = 0
    /\ now = 1 /\ start = 1 /\ last = 1
    /\ head \in 1..(Cap + 1)
    /\ lines \in BoundedSeq(Line, MaxLines)
    /\ got = 0 /\ socket = <<>> /\ pending = 0 /\ half = 0 /\ fed = FALSE
    /\ unsent = Total

\* read_remaining_body's deadline grows with the declared length.
Deadline == start + IF phase = "head" THEN HeadDeadline ELSE BaseDeadline + Body \div Floor

\* Mutant: one poll may outlast the caps that are checked between polls.
BudgetPerRead == ReceiveTimeout

\* recv_budget_ms
Budget == Min({ReceiveTimeout, Deadline - now, (last + InterByte) - now})

\* The client writes n units; over TLS, they are one record.
Write(n) ==
    /\ Reading /\ n <= unsent /\ half = 0
    /\ unsent' = unsent - n
    /\ socket' = Append(socket, n)
    /\ UNCHANGED <<input, clock, half, fed, pending, phase, polling, inner, waits, got>>

\* The client writes the beginning of a record of n units, and later its end.
WriteHalf(n) ==
    /\ Reading /\ tls /\ n <= unsent /\ half = 0
    /\ unsent' = unsent - n
    /\ half' = n /\ fed' = FALSE
    /\ UNCHANGED <<input, clock, socket, pending, phase, polling, inner, waits, got>>

WriteRest ==
    /\ Reading /\ half > 0
    /\ socket' = Append(socket, half)
    /\ half' = 0 /\ fed' = FALSE
    /\ UNCHANGED <<input, clock, pending, unsent, phase, polling, inner, waits, got>>

\* The top of the loops of read_request_head and read_remaining_body.
Top ==
    /\ Reading /\ polling = 0 /\ inner = 0
    /\ \/ /\ now >= Deadline
          /\ phase' = "deadline"
          /\ UNCHANGED polling
       \/ /\ now < Deadline /\ now - last >= InterByte
          /\ phase' = "inter_byte"
          /\ UNCHANGED polling
       \/ /\ now < Deadline /\ now - last < InterByte
          /\ phase = "head" /\ got >= Cap
          /\ phase' = "too_large"
          /\ UNCHANGED polling
       \/ /\ now < Deadline /\ now - last < InterByte
          /\ phase = "head" => got < Cap
          /\ polling' = now + Budget
          /\ UNCHANGED phase
    /\ waits' = 0
    /\ UNCHANGED <<input, clock, wire, inner, got>>

\* ConnectionStream::read: recv() takes what fits of what is there;
\* SSL_read_ex gives what it has decrypted, or decrypts the next record.
Taken ==
    IF ~tls THEN [socket |-> IF Head(socket) = 1 THEN Tail(socket)
                             ELSE [socket EXCEPT ![1] = @ - 1],
                  pending |-> 0]
    ELSE IF pending > 0 THEN [socket |-> socket, pending |-> pending - 1]
    ELSE [socket |-> Tail(socket), pending |-> Head(socket) - 1]

\* serve_request_round, once the head is there: it is parsed, then the declared
\* length is held against the limit, then the body is waited for.
AfterHead(have) ==
    CASE ParseError(lines) # "none" -> ParseError(lines)
      [] ParseError(lines) = "none" /\ Body > BodyCap -> "body_too_large"
      [] ParseError(lines) = "none" /\ Body <= BodyCap /\ have < Total -> "body"
      [] OTHER -> "done"

\* POLLIN: bytes are in the socket, be they a whole record or not.
Readable == socket # <<>> \/ (half > 0 /\ ~fed)

\* The poll before the read (recv_with_timeout) or inside it has found the
\* socket readable, and the read has something to return.  What came behind the
\* head opens the body, whose clock starts when the head is complete.
Receive ==
    /\ polling > 0 \/ inner > 0
    /\ Readable
    /\ socket # <<>> \/ pending > 0
    /\ socket' = Taken.socket /\ pending' = Taken.pending
    /\ got' = got + 1
    /\ last' = now
    /\ polling' = 0 /\ inner' = 0
    /\ phase' = IF got' < head THEN "head" ELSE AfterHead(got')
    /\ start' = IF phase' # phase THEN now ELSE start
    /\ UNCHANGED <<input, now, half, fed, unsent, waits>>

\* TlsConnection::pump on half a record: SSL_ERROR_WANT_READ, and a poll for
\* what is left of m_io_timeout_ms since the read began.
WantRead ==
    /\ polling > 0
    /\ Readable /\ socket = <<>> /\ pending = 0
    /\ fed' = TRUE
    /\ polling' = 0
    /\ inner' = now + ReceiveTimeout
    /\ waits' = waits + 1
    /\ UNCHANGED <<input, clock, phase, got, socket, half, pending, unsent>>

\* PlainConnectionStream::read on a socket that was readable for no reason:
\* EAGAIN, and a poll with the whole of m_io_timeout_ms each time.
TryAgain ==
    /\ ~tls /\ socket = <<>> /\ waits < MaxWaits
    /\ polling > 0 \/ inner > 0
    /\ polling' = 0
    /\ inner' = now + ReceiveTimeout
    /\ waits' = waits + 1
    /\ UNCHANGED <<input, clock, wire, phase, got>>

\* The budget runs out with nothing to read: back to the top.
Expire ==
    /\ polling > 0 /\ ~Readable /\ now >= polling
    /\ polling' = 0
    /\ UNCHANGED <<input, clock, wire, phase, inner, waits, got>>

\* The client closes, the socket fails, or the poll inside a read runs out.
Fail ==
    /\ ~Readable
    /\ polling > 0 \/ inner > 0
    /\ phase' = "closed" /\ polling' = 0 /\ inner' = 0
    /\ UNCHANGED <<input, clock, wire, waits, got>>

Tick ==
    /\ ~Readable /\ now < MaxTime
    /\ now < polling \/ now < inner
    /\ now' = now + 1
    /\ UNCHANGED <<input, wire, start, last, phase, polling, inner, waits, got>>

Over == ~Reading /\ UNCHANGED vars

Next ==
    \/ \E n \in 1..Total : Write(n) \/ WriteHalf(n)
    \/ WriteRest \/ Top \/ Receive \/ WantRead \/ TryAgain \/ Expire \/ Fail \/ Tick \/ Over

Spec == Init /\ [][Next]_vars

----------------------------------------------------------------------------

\* However the bytes dribble in, the poll before a read ends no later than the
\* deadline and the inter-byte cap, so a worker is kept beyond them only inside
\* one read: over TLS for one m_io_timeout_ms at the most, however the record is
\* cut up, and on a plain socket for one each time it was readable for nothing.
EndsByItsDeadline ==
    Reading => /\ now <= Deadline + waits * ReceiveTimeout
               /\ now <= last + InterByte + waits * ReceiveTimeout
               /\ tls => waits <= 1

=============================================================================
