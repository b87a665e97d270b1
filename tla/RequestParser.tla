--------------------------- MODULE RequestParser ---------------------------
(***************************************************************************)
(* How filesys/network_server.cpp reads a request: parse_command,          *)
(* parse_message and is_valid_pathname, and how file_system.cpp takes a    *)
(* pathname apart.  A request is the sequence of its words, as operator>>  *)
(* finds them; a word is a sequence of characters, and the name of a       *)
(* command counts as one character.                                        *)
(***************************************************************************)
EXTENDS Integers, SequencesExt

CONSTANTS
    FS_MAXUSERNAME,    \* characters of a user name
    FS_MAXPATHNAME,    \* characters of a pathname
    FS_MAXFILENAME,    \* characters of a name in a pathname
    FS_MAXFILEBLOCKS,  \* blocks of a file
    UINT32_MAX,        \* the largest value of Command::block
    ULONG_MAX          \* the largest unsigned long

ASSUME ParserAssumption ==
    /\ {FS_MAXUSERNAME, FS_MAXPATHNAME, FS_MAXFILENAME, FS_MAXFILEBLOCKS} \subseteq Nat \ {0}
    /\ UINT32_MAX \in Nat /\ ULONG_MAX \in Nat
    /\ FS_MAXFILEBLOCKS <= UINT32_MAX /\ UINT32_MAX <= ULONG_MAX

-----------------------------------------------------------------------------
(* Pathnames.                                                              *)

Slash == "/"
Slashes(p) == {i \in DOMAIN p : p[i] = Slash}

(* getline(..., '/') over a path that starts with a slash, after the empty *)
(* first line: the names between the slashes.                              *)
Components(p) ==
    LET at == SetToSortSeq(Slashes(p), <)
        end(k) == IF k < Len(at) THEN at[k + 1] - 1 ELSE Len(p)
    IN  [k \in DOMAIN at |-> SubSeq(p, at[k] + 1, end(k))]

last_slash(p) == CHOOSE i \in Slashes(p) : \A j \in Slashes(p) : j <= i

(* Mutant: the parent's path ends one character early. *)
ParentShortMutant(p) == SubSeq(p, 1, last_slash(p) - 2)

get_parent_dir(p) == SubSeq(p, 1, last_slash(p) - 1)
get_target(p) == SubSeq(p, last_slash(p) + 1, Len(p))

(* Mutant: no test for the end of the pathname. *)
SlashAtEndMutant(p) == p[1] = Slash

Delimited(p) == p[1] = Slash /\ p[Len(p)] # Slash

(* The pathname is not empty; a word has no white space. *)
is_valid_pathname(p) ==
    /\ Len(p) <= FS_MAXPATHNAME
    /\ Delimited(p)
    /\ \A i \in 1 .. Len(p) - 1 : ~(p[i] = Slash /\ p[i + 1] = Slash)
    /\ \A name \in ToSet(Components(p)) : Len(name) <= FS_MAXFILENAME

-----------------------------------------------------------------------------
(* Block numbers.                                                          *)

DigitChars == <<"0", "1", "2", "3", "4", "5", "6", "7", "8", "9">>
IsDigit(ch) == ch \in ToSet(DigitChars)
DigitValue(ch) == (CHOOSE i \in DOMAIN DigitChars : DigitChars[i] = ch) - 1
Numeral(s) == FoldLeft(LAMBDA n, ch : 10 * n + DigitValue(ch), 0, s)

(* std::stoul: an optional sign and as many digits as there are, whatever  *)
(* follows; the values it returns, {} if it throws.                        *)
stoul(w) ==
    LET signed == w[1] \in {"+", "-"}
        body == IF signed THEN Tail(w) ELSE w
        ends == {k \in 0 .. Len(body) : /\ \A i \in 1 .. k : IsDigit(body[i])
                                        /\ k < Len(body) => ~IsDigit(body[k + 1])}
        value == Numeral(SubSeq(body, 1, CHOOSE k \in ends : TRUE))
    IN  IF ends = {0} \/ value > ULONG_MAX THEN {}
        ELSE IF w[1] = "-" THEN {(ULONG_MAX + 1 - value) % (ULONG_MAX + 1)} ELSE {value}

(* Mutant: the number 0 has a leading zero. *)
ZeroAloneMutant(w) == w[1] = "0"

LeadingZero(w) == Len(w) > 1 /\ w[1] = "0"

(* The block numbers parse_message gets out of a word: one or none.  What  *)
(* is compared with the bound is the value in 32 bits.                     *)
BlockNumbers(w) ==
    IF w = <<>> \/ LeadingZero(w) THEN {}
    ELSE {v % (UINT32_MAX + 1) : v \in stoul(w)} \cap (0 .. FS_MAXFILEBLOCKS - 1)

-----------------------------------------------------------------------------
(* Requests.                                                               *)

CommandTypes == [FS_READBLOCK |-> "read", FS_WRITEBLOCK |-> "write",
                 FS_CREATE |-> "create", FS_DELETE |-> "delete"]

Word(words, i) == IF i <= Len(words) THEN words[i] ELSE <<>>

parse_command(words) ==
    LET w == Word(words, 1)
    IN  IF Len(w) = 1 /\ w[1] \in DOMAIN CommandTypes THEN CommandTypes[w[1]] ELSE "invalid"

(* Command::type is not initialised, and operator>> leaves it alone when   *)
(* nothing is left to read.                                                *)
Types(w) == {"f", "d"} \cap (IF w = <<>> THEN {"f", "d"} ELSE {w[1]})

WellNamed(words) ==
    /\ Len(Word(words, 2)) \in 1 .. FS_MAXUSERNAME
    /\ Word(words, 3) # <<>> /\ is_valid_pathname(Word(words, 3))

(* Nothing is left after the arguments of the command.  A create reads one *)
(* character as its type, so more characters in that word are too many.    *)
NothingLeft(words) ==
    LET op == parse_command(words)
    IN  /\ Len(words) <= (IF op = "delete" THEN 3 ELSE 4)
        /\ op = "create" => Len(Word(words, 4)) <= 1

(* The commands parse_message may return; it throws if there is none, and  *)
(* may throw if it uses a type it has not read.                            *)
parse_message(words) ==
    LET op == parse_command(words)
        user == Word(words, 2)
        path == Components(Word(words, 3))
    IN  IF op = "invalid" \/ ~WellNamed(words) \/ ~NothingLeft(words) THEN {}
        ELSE CASE op \in {"read", "write"} ->
                    {[op |-> op, username |-> user, pathname |-> path, block |-> b] :
                       b \in BlockNumbers(Word(words, 4))}
               [] op = "create" ->
                    {[op |-> op, username |-> user, pathname |-> path, type |-> t] :
                       t \in Types(Word(words, 4))}
               [] op = "delete" -> {[op |-> op, username |-> user, pathname |-> path]}

TypeUnread(words) == parse_command(words) = "create" /\ Word(words, 4) = <<>>
MayThrow(words) == parse_message(words) = {} \/ TypeUnread(words)
=============================================================================
