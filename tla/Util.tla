-------------------------------- MODULE Util --------------------------------
\* Stateless helpers: integers and addresses, and the stripping of command lines.
EXTENDS Integers, Sequences, SequencesExt

(***************************************************************************)
(* Integer helpers: averages and medians (fd_math lib.rs), bit positions   *)
(* and byte order (fd_bits lib.rs, fd_net lib.rs bits), and addresses      *)
(* (fd_net lib.rs).                                                        *)
(*                                                                         *)
(* A machine word has Bits bits and is made of bytes of ByteBits bits, so  *)
(* that every value at the limits of the type can be tried.  The state is  *)
(* one question: two words, a list and an address, each chosen in turn.    *)
(***************************************************************************)

CONSTANTS Bits,     \* of a word (64 in the code)
          ByteBits, \* of a byte of a word (8 in the code)
          ListMax,  \* length of a list of values
          Octets    \* octets tried in an address

ASSUME NumericAssumption == Bits \in Nat \ {0} /\ ByteBits \in 1..Bits /\ Bits % ByteBits = 0
                            /\ ListMax \in Nat /\ Octets \subseteq 0..255

VARIABLES wordx, wordy, \* two words
          list,         \* values to take the median of
          addr          \* the octets of an address as it was typed

nuVars == <<wordx, wordy, list, addr>>

Word == 0..(2^Bits - 1)
SignedWord == (-2^(Bits - 1))..(2^(Bits - 1) - 1)
Bytes == Bits \div ByteBits

(***************************************************************************)
(* avg::avg2_*.  The narrow types are widened before they are added; the   *)
(* widest cannot be, and is halved first.  >> is \div, which rounds down.  *)
(***************************************************************************)
Avg2Widened(x, y) == (x + y) \div 2
Avg2Halves(x, y) == (x \div 2) + (y \div 2) + (x % 2) * (y % 2)
Avg2HalvesSigned(x, y) == (x \div 2) + (y \div 2) + (x % 2) * (y % 2)

(***************************************************************************)
(* find::msb_*, find::lsb_*: None (here -1) for 0.                         *)
(***************************************************************************)
LeadingZeros(v) == CHOOSE n \in 0..Bits : v < 2^(Bits - n) /\ (n = Bits \/ v >= 2^(Bits - n - 1))
TrailingZeros(v) == CHOOSE n \in 0..Bits : v % 2^n = 0 /\ (n = Bits \/ v % 2^(n + 1) # 0)
Msb(v) == IF v = 0 THEN -1 ELSE (Bits - 1) - LeadingZeros(v)
Lsb(v) == IF v = 0 THEN -1 ELSE TrailingZeros(v)

\* bswap::u*, hton, ntoh on a little-endian machine
ByteOf(v, i) == (v \div 2^(ByteBits * i)) % 2^ByteBits
FromBytes(b) == FoldLeft(LAMBDA acc, i : acc + b[i] * 2^(ByteBits * (i - 1)), 0, [i \in 1..Len(b) |-> i])
SwapBytes(v) == FromBytes([i \in 1..Bytes |-> ByteOf(v, Bytes - i)])
Hton(v) == SwapBytes(v)
Ntoh(v) == SwapBytes(v)

(***************************************************************************)
(* stat::median*.                                                          *)
(***************************************************************************)
Sorted(v) == SortSeq(v, <)
\* None (-1) when empty; of an even number of values the lower middle one
Median(v) ==
  LET mid == Len(v) \div 2
  IN CASE v = <<>> -> -1
       [] v # <<>> /\ Len(v) % 2 = 1 -> Sorted(v)[mid + 1]
       [] OTHER -> Sorted(v)[mid]

(***************************************************************************)
(* ipv4::parse_ipv4_addr: the C parser leaves the octets in memory in the  *)
(* order they were typed; read as a word and swapped, the first is the     *)
(* highest, which is how Ipv4Addr takes a number.                          *)
(***************************************************************************)
InMemory(o) == FromBytes(o)
ParsedOctets(o) ==
  LET n == SwapBytes(InMemory(o)) IN [i \in 1..Bytes |-> ByteOf(n, Bytes - i)]
IsPrivateAddr(o) ==
  \/ o[1] = 10
  \/ o[1] = 172 /\ o[2] >= 16 /\ o[2] <= 31
  \/ o[1] = 192 /\ o[2] = 168

NuInit == wordx = 0 /\ wordy = 0 /\ list = <<>> /\ addr = <<0, 0>>

NuNext ==
  \/ \E x, y \in Word : wordx' = x /\ wordy' = y /\ UNCHANGED <<list, addr>>
                        /\ list = <<>> /\ addr = <<0, 0>>
  \/ \E n \in 1..ListMax : \E v \in [1..n -> 0..2] : list' = v /\ UNCHANGED <<wordx, wordy, addr>>
                        /\ wordx = 0 /\ wordy = 0 /\ addr = <<0, 0>>
  \/ \E a, b \in Octets : addr' = <<a, b>> /\ UNCHANGED <<wordx, wordy, list>>
                        /\ wordx = 0 /\ wordy = 0 /\ list = <<>>

NuSpec == NuInit /\ [][NuNext]_nuVars

NuTypeOK == wordx \in Word /\ wordy \in Word /\ Len(list) <= ListMax /\ Len(addr) = 2

Signed(w) == IF w < 2^(Bits - 1) THEN w ELSE w - 2^Bits

(***************************************************************************)
(* The averages of fd_math are the exact mean rounded down, signed ones    *)
(* too, and computing them never leaves the type: for the widest type at   *)
(* its limits, where the sum would.                                        *)
(***************************************************************************)
AveragesExact ==
  LET sx == Signed(wordx) sy == Signed(wordy)
  IN /\ Avg2Halves(wordx, wordy) = Avg2Widened(wordx, wordy) /\ Avg2Halves(wordx, wordy) \in Word
     /\ (wordx \div 2) + (wordy \div 2) \in Word
     /\ Avg2HalvesSigned(sx, sy) = Avg2Widened(sx, sy)
     /\ Avg2HalvesSigned(sx, sy) \in SignedWord /\ (sx \div 2) + (sy \div 2) \in SignedWord

(***************************************************************************)
(* Bit positions and byte order of fd_bits and fd_net: the highest and     *)
(* lowest set bit bound the value, swapping twice is the identity, host to *)
(* network and back too.                                                   *)
(***************************************************************************)
BitsExact ==
  /\ wordx # 0 => /\ 2^Msb(wordx) <= wordx /\ wordx < 2^(Msb(wordx) + 1)
                  /\ wordx % 2^Lsb(wordx) = 0 /\ (wordx \div 2^Lsb(wordx)) % 2 = 1
  /\ SwapBytes(SwapBytes(wordx)) = wordx /\ Ntoh(Hton(wordx)) = wordx

(***************************************************************************)
(* fd_math's median has no more than half of the values on either side.    *)
(***************************************************************************)
ListsExact ==
  list # <<>> =>
       /\ 2 * Len(SelectSeq(list, LAMBDA x : x < Median(list))) <= Len(list)
       /\ 2 * Len(SelectSeq(list, LAMBDA x : x > Median(list))) <= Len(list)

(***************************************************************************)
(* fd_net's private ranges are the three prefixes its comment names        *)
(* (10/8, 172.16/12, 192.168/16), and a parsed address has the octets that *)
(* were typed, in that order.                                              *)
(***************************************************************************)
Prefix(o, len) == (o[1] * 256 + o[2]) \div 2^(16 - len)
AddressesExact ==
  /\ IsPrivateAddr(addr) <=> \/ Prefix(addr, 8) = Prefix(<<10, 0>>, 8)
                             \/ Prefix(addr, 12) = Prefix(<<172, 16>>, 12)
                             \/ Prefix(addr, 16) = Prefix(<<192, 168>>, 16)
  /\ \A o \in [1..Bytes -> 0..(2^ByteBits - 1)] : ParsedOctets(o) = o

NumbersExact == AveragesExact /\ BitsExact /\ ListsExact /\ AddressesExact

-----------------------------------------------------------------------------
(***************************************************************************)
(* Stripping options from a command line (fd_env lib.rs cmdline).          *)
(*                                                                         *)
(* A CommandLine owns its arguments and an array of pointers to them, which*)
(* the C library compacts in place: a strip removes every occurrence of a  *)
(* key with the value behind it, and answers the value of the last one,    *)
(* else of the environment variable, else the default.  The array keeps    *)
(* its length; argc says how much of it counts.                            *)
(***************************************************************************)

CONSTANTS Words,   \* what an argument may be: keys and values
          OptKeys, \* the keys among them
          ArgMax   \* arguments of a command line

ASSUME CmdLineAssumption == OptKeys \subseteq Words /\ ArgMax \in Nat

VARIABLES args,  \* the arguments the program was given: the memory it owns
          argv,  \* the pointer array: indices into args, 0 is null
          argc,
          got    \* the answers so far, one per strip

clVars == <<args, argv, argc, got>>

Default == "default"
FromEnv == "environment"

\* CommandLine::new: one pointer for each argument and a null at the end; an
\* argument with a NUL inside becomes the empty one
NewCommandLine(a) ==
  /\ args = <<>>
  /\ args' = [i \in 1..Len(a) |-> IF a[i] = "nul" THEN "" ELSE a[i]]
  /\ argv' = [i \in 1..(Len(a) + 1) |-> IF i <= Len(a) THEN i ELSE 0]
  /\ argc' = Len(a)
  /\ got' = <<>>

ToVec == [i \in 1..argc |-> args[argv[i]]]
IsEmpty == argc = 0

(***************************************************************************)
(* The C compaction (external) goes through the arguments once.  It keeps  *)
(* the pointers to what is neither the key nor its value, and the values   *)
(* of the key; pairs says whether the key takes a value, which is then the *)
(* argument behind it, whatever that is ("" when there is none).           *)
(***************************************************************************)
ScanStep(s, pointer, key, pairs) ==
  IF s.owed THEN [s EXCEPT !.values = Append(Front(@), args[pointer]), !.owed = FALSE]
  ELSE IF args[pointer] = key THEN [s EXCEPT !.values = Append(@, ""), !.owed = pairs]
  ELSE [s EXCEPT !.kept = Append(@, pointer)]

Scan(key, pairs) ==
  LET scan[n \in 0..argc] ==
        IF n = 0 THEN [kept |-> <<>>, values |-> <<>>, owed |-> FALSE]
        ELSE ScanStep(scan[n - 1], argv[n], key, pairs)
  IN scan[argc]

Compact(scanned) ==
  /\ argc' = Len(scanned.kept)
  /\ argv' = [i \in 1..Len(argv) |-> IF i <= Len(scanned.kept) THEN scanned.kept[i]
                                     ELSE IF i = Len(scanned.kept) + 1 THEN 0 ELSE argv[i]]
  /\ UNCHANGED args

\* strip_ulong, strip_uint, strip_int, strip_long, strip_float: the text is parsed by C
Strip(key, env) ==
  LET scanned == Scan(key, TRUE)
  IN /\ argv # <<>> /\ Len(got) < 2
     /\ Compact(scanned)
     /\ got' = Append(got, IF scanned.values # <<>> THEN Last(scanned.values)
                           ELSE IF env THEN FromEnv ELSE Default)

\* strip_cstr: a null answer (a key without a value) is the default
StripCstr(key, env) ==
  LET scanned == Scan(key, TRUE)
  IN /\ argv # <<>> /\ Len(got) < 2
     /\ Compact(scanned)
     /\ got' = Append(got, IF scanned.values # <<>> /\ Last(scanned.values) # "" THEN Last(scanned.values)
                           ELSE IF env /\ scanned.values = <<>> THEN FromEnv ELSE Default)

ContainsAndStrip(key) ==
  LET scanned == Scan(key, FALSE)
  IN /\ argv # <<>> /\ Len(got) < 2
     /\ Compact(scanned)
     /\ got' = Append(got, IF scanned.values # <<>> THEN "true" ELSE "false")

ClInit == args = <<>> /\ argv = <<>> /\ argc = 0 /\ got = <<>>

ClNext ==
  \/ \E n \in 0..ArgMax : \E a \in [1..n -> Words] : NewCommandLine(a)
  \/ \E key \in OptKeys, env \in BOOLEAN : (Strip(key, env) \/ StripCstr(key, env))
  \/ \E key \in OptKeys : ContainsAndStrip(key)

ClSpec == ClInit /\ [][ClNext]_clVars

ClTypeOK == argc \in 0..Len(args) /\ Len(argv) \in {0, Len(args) + 1} /\ Len(got) <= 2

(***************************************************************************)
(* After any sequence of strips the pointers that count are distinct, in   *)
(* the order of the arguments, end in null and name arguments that are     *)
(* still owned (to_vec reads through them); and an argument goes only with *)
(* its key: what stays in front of another argument that stays was not cut *)
(* from between (the strip functions of fd_env lib.rs).                    *)
(***************************************************************************)
ArgumentsSound ==
  /\ \A i \in 1..argc : argv[i] \in 1..Len(args)
  /\ \A i, j \in 1..argc : i < j => argv[i] < argv[j]
  /\ argv # <<>> => argv[argc + 1] = 0
  /\ \A k \in 1..Len(args) :
       k \notin { argv[i] : i \in 1..argc } =>
         args[k] \in OptKeys \/ (k > 1 /\ k - 1 \notin { argv[i] : i \in 1..argc })
  /\ \A k \in 1..Len(got) : got[k] \in Words \cup {"", Default, FromEnv, "true", "false"}
  /\ got = <<>> => ToVec = args
=============================================================================
