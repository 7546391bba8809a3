-------------------------------- MODULE Wire --------------------------------
(***************************************************************************)
(* protocol.py: one direction of a connection.  build_frame puts frames on *)
(* it, read_frame takes them off, and it may break at any character.       *)
(*                                                                         *)
(* A string is a sequence of characters; a number and `content-length' are *)
(* one character each.  A frame is a record of command, headers and body;  *)
(* the headers of a frame that is sent are its pairs of name and value in  *)
(* their order, of one that is read a function on names.                   *)
(*                                                                         *)
(* Escape_colonFirst, put in the place of Escape, must make FramesSurvive  *)
(* fail; the model uses it nowhere.                                        *)
(***************************************************************************)
EXTENDS SequencesExt, Integers

CONSTANTS
  Characters,     \* what a string is a sequence of
  MaxFrameSize,   \* MAX_FRAME_SIZE, of the header part and of the body
  LineLimit,      \* what readline and readuntil take at most, a limit of asyncio
  Decimal,        \* what str makes of the length of a body, and int undoes
  Frames,         \* what may be sent
  MaxSent         \* frames sent, a bound of the model

VARIABLES
  wire,      \* characters on their way
  conn,      \* "open" or "broken"; "refused" or "ended" once read_frame has given up
  sent, got, \* frames given to build_frame, and returned by read_frame
  reading    \* local variables of read_frame

wireVars == <<wire, conn, sent, got, reading>>

ContentLength == <<"content-length">>
NUL == "\\0"

\* A command is a word; the keys of a dict are distinct.
ASSUME WireConstantsOK ==
  /\ {"n", "c", "\\", "\n", "\r", ":", NUL, "content-length"} \subseteq Characters
  /\ {MaxFrameSize, LineLimit, MaxSent} \subseteq Nat
  /\ DOMAIN Decimal \subseteq Nat
  /\ \A n \in DOMAIN Decimal : Decimal[n] \in Characters \ {"\\", "\n", "\r", ":"}
  /\ \A m, n \in DOMAIN Decimal : Decimal[m] = Decimal[n] => m = n
  /\ \A f \in Frames :
       /\ f = [command |-> f.command, headers |-> f.headers, body |-> f.body]
       /\ f.command \in Seq(Characters \ {"\n", "\r"}) /\ f.command # <<>>
       /\ f.headers \in Seq(Seq(Characters) \X Seq(Characters))
       /\ \A i, j \in DOMAIN f.headers : f.headers[i][1] = f.headers[j][1] => i = j
       /\ f.body \in Seq(Characters) /\ Len(f.body) \in DOMAIN Decimal
-----------------------------------------------------------------------------
Escapes ==
  [e \in {"n", "c", "\\"} |-> IF e = "n" THEN "\n" ELSE IF e = "c" THEN ":" ELSE "\\"]

\* From left to right; a backslash that begins no escape stands for itself.
Unescape(v) ==
  LET from[i \in 1..Len(v) + 1] ==
        IF i > Len(v) THEN <<>>
        ELSE IF v[i] = "\\" /\ i < Len(v) /\ v[i + 1] \in DOMAIN Escapes
        THEN <<Escapes[v[i + 1]]>> \o from[i + 2]
        ELSE <<v[i]>> \o from[i + 1]
  IN  from[1]

Replace(v, c, e) == FlattenSeq([i \in 1..Len(v) |-> IF v[i] = c THEN <<"\\", e>> ELSE <<v[i]>>])
Escape_colonFirst(v) == Replace(Replace(Replace(v, ":", "c"), "\\", "\\"), "\n", "n")
Escape(v) == Replace(Replace(Replace(v, "\\", "\\"), "\n", "n"), ":", "c")

\* Only a frame with a body is given its length, in the place of the caller's
\* if the caller has named one.
Named(hs) == {i \in DOMAIN hs : hs[i][1] = ContentLength}
Length(n) == <<ContentLength, <<Decimal[n]>>>>
HeadersOf(f) ==
  IF f.body = <<>> THEN f.headers
  ELSE IF Named(f.headers) = {} THEN Append(f.headers, Length(Len(f.body)))
  ELSE [i \in DOMAIN f.headers |->
          IF i \in Named(f.headers) THEN Length(Len(f.body)) ELSE f.headers[i]]

HeaderLine(h) == Escape(h[1]) \o <<":">> \o Escape(h[2]) \o <<"\n">>
HeaderLines(hs) == [i \in 1..Len(hs) |-> HeaderLine(hs[i])]
BuildFrame(f) ==
  f.command \o <<"\n">> \o FlattenSeq(HeaderLines(HeadersOf(f))) \o <<"\n">> \o f.body \o <<NUL>>
-----------------------------------------------------------------------------
StripStart(v, chars) ==
  SubSeq(v, Min({i \in 1..Len(v) : v[i] \notin chars} \cup {Len(v) + 1}), Len(v))
StripEnd(v, chars) == SubSeq(v, 1, Max({i \in 1..Len(v) : v[i] \notin chars} \cup {0}))
\* size, the length that readline limits, is of the line as it came.
Line(s) ==
  LET end == Min({i \in 1..Len(s) : s[i] = "\n"} \cup {Len(s)})
  IN  [raw  |-> StripEnd(SubSeq(s, 1, end), {"\r", "\n"}), rest |-> SubSeq(s, end + 1, Len(s)),
       size |-> IF s[end] = "\n" THEN end - 1 ELSE end]

\* headers[_unescape(key)] = _unescape(value)
Put(headers, key, value) ==
  [k \in DOMAIN headers \cup {key} |-> IF k = key THEN value ELSE headers[k]]
PutHeader(headers, raw) ==
  LET colon == Min({i \in 1..Len(raw) : raw[i] = ":"} \cup {Len(raw) + 1})
  IN  Put(headers, Unescape(SubSeq(raw, 1, colon - 1)), Unescape(SubSeq(raw, colon + 1, Len(raw))))

\* A length that readexactly is called with.
Readable(v, n) == n \in DOMAIN Decimal /\ v = <<Decimal[n]>> /\ n <= MaxFrameSize

\* Where in s a body ends: at the length given or at the first NUL, if it does.
BodyEnds(s, headers) ==
  {i \in 1..Len(s) :
     IF ContentLength \in DOMAIN headers
     THEN Readable(headers[ContentLength], i - 1)
     ELSE s[i] = NUL /\ NUL \notin Range(SubSeq(s, 1, i - 1)) /\ i - 1 <= LineLimit}

\* More characters may bring the end of a body that has none in s.
MayEnd(s, headers) ==
  IF ContentLength \in DOMAIN headers
  THEN \E n \in DOMAIN Decimal : Readable(headers[ContentLength], n)
  ELSE NUL \notin Range(s) /\ Len(s) <= LineLimit

Start == [at |-> "command", frame |-> [command |-> <<>>, headers |-> <<>>, body |-> <<>>], total |-> 0]
Reading(phase) == conn \in {"open", "broken"} /\ reading.at = phase

\* readline returns a line, what is left at the end of the stream, or an error.
HasLine == wire # <<>> /\ (conn = "broken" \/ "\n" \in Range(wire) \/ Len(wire) > LineLimit)
HasBody ==
  LET headers == reading.frame.headers
  IN  conn = "broken" \/ BodyEnds(wire, headers) # {} \/ ~MayEnd(wire, headers)

\* None and an exception are the same to the callers: they close.
GiveUp ==
  /\ conn' = IF conn = "open" THEN "refused" ELSE "ended"
  /\ UNCHANGED <<wire, sent, got, reading>>

WireInit == wire = <<>> /\ conn = "open" /\ sent = <<>> /\ got = <<>> /\ reading = Start

\* On an open connection read_frame waits for the rest of a line or a body, so
\* a frame may as well arrive as a whole.
Send(f) ==
  /\ conn = "open" /\ Len(sent) < MaxSent
  /\ wire' = wire \o BuildFrame(f) /\ sent' = Append(sent, f)
  /\ UNCHANGED <<conn, got, reading>>

\* What comes before the break can still be read.
Break ==
  /\ conn = "open" /\ conn' = "broken"
  /\ \E n \in 0..Len(wire) : wire' = SubSeq(wire, 1, n)
  /\ UNCHANGED <<sent, got, reading>>

\* Blank lines before a command are skipped.
ReadCommand ==
  /\ Reading("command") /\ HasLine
  /\ LET line == Line(wire)
         command == StripStart(line.raw, {"\r", "\n"})
     IN  IF line.size > LineLimit THEN GiveUp
         ELSE /\ wire' = line.rest
              /\ reading' = IF command = <<>> THEN reading
                            ELSE [at |-> "headers", total |-> Len(command),
                                  frame |-> [Start.frame EXCEPT !.command = command]]
              /\ UNCHANGED <<conn, sent, got>>

ReadHeader ==
  /\ Reading("headers") /\ HasLine
  /\ LET line == Line(wire)
         total == reading.total + Len(line.raw) + 1
     IN  IF line.size > LineLimit \/ total > MaxFrameSize THEN GiveUp
         ELSE /\ wire' = line.rest
              /\ reading' = IF line.raw = <<>> THEN [reading EXCEPT !.at = "body"]
                            ELSE [reading EXCEPT !.total = total,
                                                 !.frame.headers = PutHeader(@, line.raw)]
              /\ UNCHANGED <<conn, sent, got>>

ReadBody ==
  /\ Reading("body") /\ HasBody
  /\ LET ends == BodyEnds(wire, reading.frame.headers)
     IN  IF ends = {} THEN GiveUp
         ELSE /\ got' = Append(got, [reading.frame EXCEPT !.body = SubSeq(wire, 1, Min(ends) - 1)])
              /\ wire' = SubSeq(wire, Min(ends) + 1, Len(wire))
              /\ reading' = Start
              /\ UNCHANGED <<conn, sent>>

EndOfStream == conn = "broken" /\ wire = <<>> /\ reading.at # "body" /\ GiveUp

WireNext ==
  \/ \E f \in Frames : Send(f)
  \/ Break \/ ReadCommand \/ ReadHeader \/ ReadBody \/ EndOfStream

WireSpec == WireInit /\ [][WireNext]_wireVars
-----------------------------------------------------------------------------
\* A frame as it is read: with its length, and without carriage returns at the
\* end of a value, which `rstrip' takes for a part of the end of the line.
StripValues(hs) == [i \in 1..Len(hs) |-> <<hs[i][1], StripEnd(hs[i][2], {"\r"})>>]
AsRead(f) ==
  LET hs == StripValues(HeadersOf(f))
  IN  [f EXCEPT !.headers = [k \in {hs[i][1] : i \in DOMAIN hs} |->
                               hs[CHOOSE i \in DOMAIN hs : hs[i][1] = k][2]]]

Fits(f) ==
  LET lines == HeaderLines(HeadersOf(f))
      read == HeaderLines(StripValues(HeadersOf(f)))
  IN  /\ Len(f.command) <= LineLimit
      /\ \A i \in DOMAIN lines : Len(lines[i]) - 1 <= LineLimit
      /\ Len(f.command) + 1 + Len(FlattenSeq(read)) <= MaxFrameSize
      /\ Len(f.body) <= MaxFrameSize

\* A length that the caller of a frame without a body names is the right one;
\* build_frame leaves it as it is.
Stated(f) == f.body = <<>> => \A i \in Named(f.headers) : f.headers[i] = Length(0)

\* Frames are read in the order they were written in, and as they were written
\* but for carriage returns at the end of a header's value, which read_frame
\* takes away (AsRead), whatever characters are in their headers and bodies.  A
\* frame that is too large ends the connection and no part of it is taken for a
\* frame; no other does, nor does read_frame wait for more of it; and of a frame
\* in which the connection breaks nothing is read.  All this until a caller names
\* a wrong length for a frame without a body, which build_frame lets through.
FramesSurvive ==
  (\A i \in DOMAIN sent : Stated(sent[i])) =>
    /\ IsPrefix(got, [i \in DOMAIN sent |-> AsRead(sent[i])])
    /\ \A i \in DOMAIN got : Fits(sent[i])
    /\ conn = "open" /\ (IF reading.at = "body" THEN ~HasBody ELSE ~HasLine)
         => Len(got) = Len(sent)
    /\ conn = "refused" => Len(got) < Len(sent) /\ ~Fits(sent[Len(got) + 1])
=============================================================================
