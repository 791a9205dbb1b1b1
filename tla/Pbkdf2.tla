------------------------------- MODULE Pbkdf2 -------------------------------
(***************************************************************************)
(* Pbkdf2Compute of both providers of AppCrypto.c: the key is derived      *)
(* block by block, each block from `rounds' chained HMACs that are xored   *)
(* together.  A clone h1 of the keyed hash is made for every HMAC and      *)
(* destroyed after it; any call may fail.  The value of an HMAC is a       *)
(* symbol <<block, depth>>, an xor of such symbols the set of those left   *)
(* over, the output the sequence of pieces copied to the caller's buffer.  *)
(***************************************************************************)
EXTENDS Naturals, Sequences, FiniteSets

CONSTANTS HashSize,   \* SHA256_HASH_SIZE
          Lengths,    \* lengths of the keys asked for
          Rounds      \* numbers of rounds asked for

VARIABLES
  args,      \* provider, keyLength, rounds; fits: the password is short enough
  pc,        \* the call to be made next
  open,      \* open[h]: handles opened through variable h and not destroyed
  count,     \* st.count
  i,         \* the inner loop's counter
  obuf,      \* st.obuf
  okey,      \* st.okey
  keyLength, \* bytes still to be derived
  key,       \* what was copied to the caller's buffer
  result

vars == <<args, pc, open, count, i, obuf, okey, keyLength, key, result>>

CNG == args.api = "CNG"
Cleared == <<0, 0>>

\* The blocks and handles: st exists with CNG only, hKey with CryptoAPI only.
Handles == {"st", "hKey", "hHash", "h1"}
Opened(h) == open' = [open EXCEPT ![h] = @ + 1]
Destroyed(h) == open' = [open EXCEPT ![h] = @ - 1]

Fail == pc' = "cleanup" /\ UNCHANGED <<args, open, count, i, obuf, okey, keyLength, key, result>>

\* The checks of the arguments, which return at once.
CheckArguments ==
  /\ pc = "args"
  /\ pc' = IF args.keyLength = 0 \/ args.rounds = 0 THEN "done"
           ELSE IF CNG THEN "st" ELSE "hKey"
  /\ UNCHANGED <<args, open, count, i, obuf, okey, keyLength, key, result>>

\* CNG: the object length is read and the state with two hash objects allocated.
AllocState ==
  /\ pc = "st"
  /\ \/ Opened("st") /\ pc' = "hHash"
        /\ UNCHANGED <<args, count, i, obuf, okey, keyLength, key, result>>
     \/ Fail

\* CryptoAPI: the password becomes a key, if it fits into the blob.
CryptImportHmacSha256Key ==
  /\ pc = "hKey"
  /\ \/ args.fits /\ Opened("hKey") /\ pc' = "hHash"
        /\ UNCHANGED <<args, count, i, obuf, okey, keyLength, key, result>>
     \/ Fail

CreateHmac ==
  /\ pc = "hHash"
  /\ \/ Opened("hHash") /\ pc' = "first" /\ count' = 1
        /\ UNCHANGED <<args, i, obuf, okey, keyLength, key, result>>
     \/ Fail

\* A clone of the keyed hash for one HMAC; at is the place in the loop.
CloneHash(at, next) ==
  /\ pc = at
  /\ \/ Opened("h1") /\ pc' = next
        /\ UNCHANGED <<args, count, i, obuf, okey, keyLength, key, result>>
     \/ Fail

\* The first HMAC of a block: of the salt and the block's number.
FirstHmac ==
  /\ pc = "salt"
  /\ \/ /\ obuf' = <<count, 1>> /\ okey' = {<<count, 1>>}
        /\ i' = 1
        /\ Destroyed("h1") /\ pc' = "next"
        /\ UNCHANGED <<args, count, keyLength, key, result>>
     \/ Fail

Xor(S, x) == IF x \in S THEN S \ {x} ELSE S \cup {x}

\* The others: of the one before.
NextHmac ==
  /\ pc = "round"
  /\ \/ /\ obuf' = <<obuf[1], obuf[2] + 1>>
        /\ okey' = Xor(okey, <<obuf[1], obuf[2] + 1>>)
        /\ i' = i + 1
        /\ Destroyed("h1") /\ pc' = "next"
        /\ UNCHANGED <<args, count, keyLength, key, result>>
     \/ Fail

\* Mutant: one round too many.
MoreRounds_OneMore == i <= args.rounds

MoreRounds == i < args.rounds

AnotherRound ==
  /\ MoreRounds
  /\ CloneHash("next", "round")

Smaller(a, b) == IF a < b THEN a ELSE b
Offset == IF key = <<>> THEN 0 ELSE key[Len(key)].at + key[Len(key)].n

\* The end of a block: it goes to the caller's buffer, the last one cut short.
CopyBlock ==
  /\ pc = "next" /\ ~MoreRounds
  /\ LET r == Smaller(keyLength, HashSize) IN
     /\ key' = Append(key, [at |-> Offset, n |-> r, xor |-> okey])
     /\ keyLength' = keyLength - r
     /\ IF keyLength - r = 0
        THEN result' = TRUE /\ pc' = "cleanup" /\ UNCHANGED count
        ELSE pc' = "first" /\ count' = count + 1 /\ UNCHANGED result
  /\ UNCHANGED <<args, open, i, obuf, okey>>

\* Each variable that holds a handle is destroyed once, and the state wiped.
Cleanup ==
  /\ pc = "cleanup"
  /\ pc' = "done"
  /\ open' = [h \in Handles |-> IF open[h] > 0 THEN open[h] - 1 ELSE 0]
  /\ obuf' = Cleared /\ okey' = {}
  /\ UNCHANGED <<args, count, i, keyLength, key, result>>

Init ==
  /\ args \in [api : {"CNG", "CryptoAPI"}, keyLength : Lengths, rounds : Rounds, fits : BOOLEAN]
  /\ pc = "args" /\ result = FALSE
  /\ open = [h \in Handles |-> 0]
  /\ count = 0 /\ i = 0
  /\ obuf = Cleared /\ okey = {}
  /\ keyLength = args.keyLength /\ key = <<>>

Next ==
  \/ CheckArguments \/ AllocState \/ CryptImportHmacSha256Key \/ CreateHmac
  \/ CloneHash("first", "salt") \/ FirstHmac
  \/ AnotherRound \/ NextHmac \/ CopyBlock
  \/ Cleanup

Spec == Init /\ [][Next]_vars /\ WF_vars(Next)

-----------------------------------------------------------------------------
(* Properties *)

TypeOK ==
  /\ args \in [api : {"CNG", "CryptoAPI"}, keyLength : Lengths, rounds : Rounds, fits : BOOLEAN]
  /\ pc \in {"args", "st", "hKey", "hHash", "first", "salt", "next", "round", "cleanup", "done"}
  /\ open \in [Handles -> Nat]
  /\ count \in Nat /\ i \in Nat /\ keyLength \in Nat
  /\ obuf \in Nat \X Nat /\ okey \in SUBSET (Nat \X Nat)
  /\ key \in Seq([at : Nat, n : Nat, xor : SUBSET (Nat \X Nat)])
  /\ result \in BOOLEAN

\* The definition of PBKDF2: block b is the xor of `rounds' chained HMACs.
T(b) == {<<b, j>> : j \in 1..args.rounds}

\* TRUE comes with the key of the definition: the blocks in order, side by side,
\* each the xor of all its rounds, all of them whole but the last, and exactly
\* the bytes asked for.
DerivesDefinition ==
  result =>
    /\ key # <<>> /\ Offset = args.keyLength
    /\ key[1].at = 0
    /\ \A b \in 1..Len(key) :
         /\ key[b].xor = T(b)
         /\ b < Len(key) => key[b].n = HashSize /\ key[b + 1].at = key[b].at + HashSize

\* The caller's buffer is never overrun, not even by an attempt that fails.
NoOverrun == \A b \in 1..Len(key) : key[b].at + key[b].n <= args.keyLength

\* Whatever call failed, nothing stays open and the state is wiped.
NothingLeft ==
  pc = "done" => open = [h \in Handles |-> 0] /\ obuf = Cleared /\ okey = {}

\* No two clones exist at a time: with CNG they share one hash object.
OneClone == open["h1"] <= 1 /\ (pc \in {"first", "next"} => open["h1"] = 0)
=============================================================================
