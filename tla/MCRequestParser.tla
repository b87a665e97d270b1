-------------------------- MODULE MCRequestParser --------------------------
(***************************************************************************)
(* Requests with all short pathnames, all short block numbers and all      *)
(* numbers of words, parsed once each and compared with what a request     *)
(* should look like.                                                       *)
(***************************************************************************)
EXTENDS RequestParser

CONSTANTS
    MaxPath,    \* bound: characters of a pathname
    MaxNumber,  \* bound: characters of a block number
    Digits      \* digits that occur in block numbers

VARIABLES
    request,  \* the words of the request
    outcome   \* the command it was parsed into

vars == <<request, outcome>>

Words(chars, n) == SeqOf(chars, n) \ {<<>>}
U == <<"u">>
PathOfA == <<Slash, "a">>

PathRequests == {<<<<"FS_DELETE">>, U, p>> : p \in Words({Slash, "a", "b"}, MaxPath)}
BlockRequests ==
    {<<<<"FS_READBLOCK">>, U, PathOfA, w>> : w \in Words(Digits \cup {"+", "-", "x"}, MaxNumber)}
ShapeRequests ==
    {<<<<cmd>>>> \o rest : cmd \in (DOMAIN CommandTypes) \cup {"FS_OTHER"},
       rest \in SeqOf({U, <<"u", "u">>, PathOfA, <<"f">>, <<"d", "d">>, <<"0">>}, 4)}

Unparsed == [op |-> "unparsed"]
Throws == [op |-> "throws"]

Init == /\ request \in PathRequests \cup BlockRequests \cup ShapeRequests \cup {<<>>}
        /\ outcome = Unparsed

Parse ==
    /\ outcome = Unparsed
    /\ \/ \E c \in parse_message(request) : outcome' = c
       \/ MayThrow(request) /\ outcome' = Throws
    /\ UNCHANGED request

Spec == Init /\ [][Parse]_vars

-----------------------------------------------------------------------------
(* Properties.                                                             *)

Accepted == outcome.op \in {"read", "write", "create", "delete"}

Render(names) == FlattenSeq([i \in DOMAIN names |-> <<Slash>> \o names[i]])
LegalNames == Words({"a", "b"}, FS_MAXFILENAME)
LegalPaths == {p \in {Render(names) : names \in Words(LegalNames, MaxPath \div 2)} :
                 Len(p) <= FS_MAXPATHNAME}

(* is_valid_pathname, which looks at characters, accepts exactly the       *)
(* pathnames that are written from one or more names of a legal length     *)
(* with a slash before each, and these names are what the command means.   *)
PathsExact ==
    /\ Accepted => request[3] \in LegalPaths /\ Render(outcome.pathname) = request[3]
    /\ outcome.op = "throws" /\ request \in PathRequests => request[3] \notin LegalPaths

(* The file system takes a pathname apart twice, into the target and the   *)
(* parent, and the parent into the directories on the way: together they   *)
(* are the names of the path, none of them empty (the asserts of           *)
(* get_parent_dir and get_target hold).                                    *)
PathSplit ==
    Accepted =>
        LET p == request[3] IN
        /\ p # <<>> /\ p[Len(p)] # Slash /\ Slashes(p) # {}
        /\ Append(Components(get_parent_dir(p)), get_target(p)) = outcome.pathname

Canonical(b) == IF b < 10 THEN <<DigitChars[b + 1]>>
                ELSE <<DigitChars[(b \div 10) + 1], DigitChars[(b % 10) + 1]>>

(* Every block number a file can have, written in the usual way, is        *)
(* accepted, and read as itself through stoul, the conversion to 32 bits   *)
(* and the tests of parse_message.                                         *)
BlocksRead ==
    request \in BlockRequests /\ outcome # Unparsed =>
        \A b \in 0 .. FS_MAXFILEBLOCKS - 1 :
            request[4] = Canonical(b) => Accepted /\ outcome.block = b

(* Nothing else is: parse_message "should throw runtime error if not       *)
(* properly convertible" (network_server.cpp:244), so the number of the    *)
(* block is what the client wrote.                                         *)
OnlyNumbersAccepted ==
    outcome.op \in {"read", "write"} => request[4] = Canonical(outcome.block)
=============================================================================
