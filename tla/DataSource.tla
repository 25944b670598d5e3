----------------------------- MODULE DataSource -----------------------------
(***************************************************************************)
(* The live data source of config.cpp: Slurp, which backs Read(path), and *)
(* GetCmdLineParam over ReadCmdLine, which backs CmdLineParam(key).  Both   *)
(* are pure functions of the file contents, so each query is a state of    *)
(* its own.  A file is a sequence of characters; Space stands for every    *)
(* character std::isspace accepts, which is all that operator>> looks at.  *)
(***************************************************************************)
EXTENDS Integers, SequencesExt

CONSTANTS
    None,            \* std::nullopt
    Space,           \* a whitespace character
    Eq,              \* '='
    Letters,         \* the other characters
    ReadBufferSize,  \* Evaluator::ReadBufferSize, the chunk Slurp reads
    MaxLen           \* the longest file the queries enumerate

ASSUME DataSourceAssumption ==
    /\ ReadBufferSize \in Nat \ {0}
    /\ MaxLen \in Nat
    /\ Space # Eq /\ Space \notin Letters /\ Eq \notin Letters

Chars == Letters \cup {Space, Eq}

\* Files that cannot be opened read as None.
Unopenable == None

-----------------------------------------------------------------------------
(* Slurp(path, max_bytes).                                                 *)

MinOf(a, b) == IF a < b THEN a ELSE b

\* Mutant: the last chunk is appended whole, past max_bytes.
RECURSIVE SlurpLoopNoClamp(_, _, _, _)
SlurpLoopNoClamp(file, maxBytes, out, total) ==
    LET got == MinOf(ReadBufferSize, Len(file) - total)
    IN  IF got <= 0 THEN out
        ELSE LET out2 == out \o SubSeq(file, total + 1, total + got)
             IN  IF total + got >= maxBytes \/ got < ReadBufferSize THEN out2
                 ELSE SlurpLoopNoClamp(file, maxBytes, out2, total + got)

\* while (ifs.good()): ifs.read(buf, sizeof(buf)) gives the next chunk, or
\* fewer bytes at end of file, after which good() is false.  A chunk that
\* would pass max_bytes is cut to max_bytes - total, and the loop breaks
\* once total >= max_bytes.  The stream position equals total while the
\* loop goes on: it is only cut on the last iteration.
RECURSIVE SlurpLoop(_, _, _, _)
SlurpLoop(file, maxBytes, out, total) ==
    LET read == MinOf(ReadBufferSize, Len(file) - total)
        got  == IF total + read > maxBytes THEN maxBytes - total ELSE read
        out2 == out \o SubSeq(file, total + 1, total + got)
    IN  IF read <= 0 THEN out
        ELSE IF total + got >= maxBytes \/ read < ReadBufferSize THEN out2
        ELSE SlurpLoop(file, maxBytes, out2, total + got)

\* std::ifstream ifs(path); if (!ifs.is_open()) return std::nullopt.
Slurp(file, maxBytes) ==
    IF file = Unopenable THEN None ELSE SlurpLoop(file, maxBytes, <<>>, 0)

-----------------------------------------------------------------------------
(* GetCmdLineParam(key).                                                   *)

\* std::istringstream iss(cmd); while (iss >> tok): skip whitespace, then
\* read up to the next whitespace.
RECURSIVE Words(_)
Words(s) ==
    LET start == SelectInSeq(s, LAMBDA c : c # Space)
        rest  == SubSeq(s, start, Len(s))
        stop  == SelectInSeq(rest, LAMBDA c : c = Space)
    IN  IF start = 0 THEN <<>>
        ELSE IF stop = 0 THEN <<rest>>
        ELSE <<SubSeq(rest, 1, stop - 1)>> \o Words(SubSeq(rest, stop, Len(rest)))

\* tok.find('=').
EqAt(tok) == SelectInSeq(tok, LAMBDA c : c = Eq)

\* Mutant: a token matches when it merely starts with the key.
MatchesNoBoundary(tok, key) == IsPrefix(key, tok)

\* A token with no '=' matches when it is the key; otherwise the text
\* before the first '=' must be the key.
Matches(tok, key) ==
    IF EqAt(tok) = 0 THEN tok = key ELSE SubSeq(tok, 1, EqAt(tok) - 1) = key

\* std::string{} for a flag, tok.substr(eq + 1) for key=value.
Value(tok) == IF EqAt(tok) = 0 THEN <<>> ELSE SubSeq(tok, EqAt(tok) + 1, Len(tok))

\* The first matching token decides; no match is std::nullopt, and so is
\* an unreadable /proc/cmdline (ReadCmdLine is Slurp("/proc/cmdline")).
GetCmdLineParam(cmdline, maxBytes, key) ==
    LET cmd == Slurp(cmdline, maxBytes)
        ws  == IF cmd = None THEN <<>> ELSE Words(cmd)
        i   == SelectInSeq(ws, LAMBDA t : Matches(t, key))
    IN  IF cmd = None \/ i = 0 THEN None ELSE Value(ws[i])

-----------------------------------------------------------------------------
(* What the spec says of read(path) and cmdline_param(key) (section 3).    *)

\* read(path): the contents, up to a bounded size.
SpecRead(file, maxBytes) ==
    IF file = Unopenable THEN None ELSE SubSeq(file, 1, MinOf(Len(file), maxBytes))

\* The tokens of s: its maximal runs of non-whitespace, left to right.
SpecTokens(s) ==
    LET starts == {i \in DOMAIN s : s[i] # Space /\ (i = 1 \/ s[i - 1] = Space)}
        End(i) == CHOOSE j \in i..Len(s) :
                      /\ \A k \in i..j : s[k] # Space
                      /\ (j = Len(s) \/ s[j + 1] = Space)
    IN  [n \in 1..Cardinality(starts) |->
            LET i == CHOOSE i \in starts :
                         Cardinality({k \in starts : k < i}) = n - 1
            IN  SubSeq(s, i, End(i))]

\* "for each token, if it equals key return empty string, if it starts
\* with key= return the suffix, else continue.  Returns None if the key is
\* absent."
SpecCmdLineParam(cmd, key) ==
    LET ts  == IF cmd = None THEN <<>> ELSE SpecTokens(cmd)
        Hit(t) == t = key \/ IsPrefix(key \o <<Eq>>, t)
        hits == {n \in DOMAIN ts : Hit(ts[n])}
    IN  IF hits = {} THEN None
        ELSE LET t == ts[CHOOSE n \in hits : \A m \in hits : n <= m]
             IN  IF t = key THEN <<>> ELSE SubSeq(t, Len(key) + 2, Len(t))

-----------------------------------------------------------------------------
(* The queries: a file, with or without a cap below its length, or a      *)
(* command line and a key.  Keys have no whitespace and no '=', like every *)
(* key the checks ask for.                                                 *)

Files == BoundedSeq(Chars, MaxLen)

Keys == BoundedSeq(Letters, 2) \ {<<>>}

Queries ==
    [kind : {"read"}, file : Files \cup {Unopenable}, max : 0..(MaxLen + 1)]
    \cup [kind : {"param"}, file : Files \cup {Unopenable}, key : Keys]

VARIABLE query

DSTypeOK == query \in Queries

-----------------------------------------------------------------------------
(* Properties.                                                             *)

\* Read(path) returns the file's first max_bytes bytes, in order, or the
\* whole file when it is shorter: the clamp in Slurp's loop cuts the last
\* chunk exactly at the cap, whatever the chunk size.
SlurpReadsPrefix ==
    query.kind = "read" => Slurp(query.file, query.max) = SpecRead(query.file, query.max)

\* CmdLineParam(key) is what section 3 says cmdline_param is: "" for a
\* bare flag, the text after "key=" for the first token that has it, None
\* when no token names the key (or the command line cannot be read).
CmdLineParamAsSpecified ==
    query.kind = "param" =>
        GetCmdLineParam(query.file, MaxLen, query.key)
            = SpecCmdLineParam(SpecRead(query.file, MaxLen), query.key)

=============================================================================
