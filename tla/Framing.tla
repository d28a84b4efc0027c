------------------------------ MODULE Framing ------------------------------
(***************************************************************************)
(* How serve_client (src/src/socket.rs) cuts frames out of the bytes that a*)
(* client sends.  read returns some bytes, they are appended to what is    *)
(* pending, and every complete line is taken out and handled before the    *)
(* next read.  Daemon treats the frames as whole; this module shows which  *)
(* frames those are.                                                       *)
(*                                                                         *)
(* A payload is accepted when it is JSON with the fields of ClientFrame, of*)
(* the protocol and of a known type with the fields that type needs; which *)
(* payloads these are is a parameter.                                      *)
(***************************************************************************)
EXTENDS Naturals, Sequences

CONSTANTS
    Byte,         \* the bytes, Newline among them
    Newline,
    Accepted,     \* the payloads that do not end the session
    MaxFrame,     \* MAX_FRAME_BYTES
    MaxRead,      \* the size of read_buffer
    MaxBytes      \* bound: bytes that one client sends

ASSUME FramingAssumption ==
    /\ Newline \in Byte
    /\ Accepted \subseteq Seq(Byte \ {Newline})
    /\ MaxFrame \in Nat \ {0} /\ MaxRead \in Nat \ {0} /\ MaxBytes \in Nat

VARIABLES
    stage,        \* "read" in select!, "cut" in the loop over lines,
                  \* "ended" by a frame or a limit, "eof"
    pending,      \* the bytes that are not part of a handled frame
    arrived,      \* ghost: all bytes read so far
    handled       \* ghost: where in arrived the handled frames end

framingVars == <<stage, pending, arrived, handled>>

-----------------------------------------------------------------------------
\* position: p is the first newline of s.
FirstNewline(s, p) ==
    /\ p \in 1..Len(s)
    /\ s[p] = Newline
    /\ \A q \in 1..(p - 1) : s[q] # Newline

NoNewline(s) == \A q \in 1..Len(s) : s[q] # Newline

Payload(p) == SubSeq(pending, 1, p - 1)

\* Mutant: a frame of exactly the limit is refused.
FitsStrictly(length) == length < MaxFrame

\* The limit on a line, without its newline.
Fits(length) == length <= MaxFrame

-----------------------------------------------------------------------------
FramingInit ==
    /\ stage = "read"
    /\ pending = <<>>
    /\ arrived = <<>>
    /\ handled = <<>>

ReadBytes(chunk) ==
    /\ stage = "read"
    /\ Len(chunk) \in 1..MaxRead
    /\ Len(arrived) + Len(chunk) <= MaxBytes
    /\ pending' = pending \o chunk
    /\ arrived' = arrived \o chunk
    /\ stage' = "cut"
    /\ UNCHANGED handled

\* read returns 0.
ReadEof ==
    /\ stage = "read"
    /\ stage' = "eof"
    /\ UNCHANGED <<pending, arrived, handled>>

\* A line is drained, newline included, and its frame is handled.
CutFrame ==
    /\ stage = "cut"
    /\ \E p \in 1..Len(pending) :
          /\ FirstNewline(pending, p)
          /\ Fits(p - 1)
          /\ Payload(p) \in Accepted
          /\ pending' = SubSeq(pending, p + 1, Len(pending))
          /\ handled' = Append(handled, Len(arrived) - Len(pending) + p)
    /\ UNCHANGED <<stage, arrived>>

\* A line that is too long or no acceptable frame.
CutEnds ==
    /\ stage = "cut"
    /\ \E p \in 1..Len(pending) :
          /\ FirstNewline(pending, p)
          /\ ~Fits(p - 1) \/ Payload(p) \notin Accepted
    /\ stage' = "ended"
    /\ UNCHANGED <<pending, arrived, handled>>

\* Mutant: a line that does not end is kept.
CutRestUnlimited ==
    /\ stage = "cut"
    /\ NoNewline(pending)
    /\ stage' = "read"
    /\ UNCHANGED <<pending, arrived, handled>>

\* No line is left: the rest waits for more bytes unless it is too long.
CutRest ==
    /\ stage = "cut"
    /\ NoNewline(pending)
    /\ stage' = IF Fits(Len(pending)) THEN "read" ELSE "ended"
    /\ UNCHANGED <<pending, arrived, handled>>

Chunks == UNION {[1..n -> Byte] : n \in 1..MaxRead}

FramingNext ==
    \/ \E chunk \in Chunks : ReadBytes(chunk)
    \/ ReadEof
    \/ CutFrame \/ CutEnds \/ CutRest

FramingSpec == FramingInit /\ [][FramingNext]_framingVars

-----------------------------------------------------------------------------
FramingTypeOK ==
    /\ stage \in {"read", "cut", "ended", "eof"}
    /\ pending \in Seq(Byte)
    /\ arrived \in Seq(Byte)
    /\ handled \in Seq(Nat \ {0})

\* Reference: the lines of s, by the position of their newlines.
Newlines(s) == {p \in 1..Len(s) : s[p] = Newline}

\* Where the line that contains position p begins, less one.
LineStart(s, p) ==
    CHOOSE q \in {0} \cup Newlines(s) :
        q < p /\ \A r \in Newlines(s) : r < p => r <= q

LineOK(s, p) ==
    /\ p - LineStart(s, p) - 1 <= MaxFrame
    /\ SubSeq(s, LineStart(s, p) + 1, p - 1) \in Accepted

\* The lines that are handled: those up to the first that is not acceptable.
Acceptable(s) == {p \in Newlines(s) : \A q \in Newlines(s) : q <= p => LineOK(s, q)}

\* The session ends: a line is not acceptable, or the last, open one is too
\* long already.
Broken(s) ==
    \/ Acceptable(s) # Newlines(s)
    \/ Len(s) - LineStart(s, Len(s) + 1) > MaxFrame

(* Frames do not depend on how the bytes were split over reads: whenever   *)
(* the session waits for bytes or has been ended, the frames it handled are*)
(* the lines of everything that arrived, in order, each once, up to the    *)
(* first that is not acceptable, and it was ended exactly when there is    *)
(* one (docs/SOCKET_API.md, "Framing": "limited to 8192 bytes before the   *)
(* newline").                                                              *)
CutsByLine ==
    /\ \A i, j \in DOMAIN handled : i < j => handled[i] < handled[j]
    /\ stage # "cut" =>
          /\ {handled[i] : i \in DOMAIN handled} = Acceptable(arrived)
          /\ stage = "ended" <=> Broken(arrived)

(* However a client splits what it sends, the buffer of a session never    *)
(* grows past the longest frame and one read.                              *)
BufferBounded ==
    /\ Len(pending) <= MaxFrame + MaxRead
    /\ stage \in {"read", "eof"} => Len(pending) <= MaxFrame

=============================================================================
