--------------------------- MODULE CryptoHandles ---------------------------
(***************************************************************************)
(* The objects of AppCrypto.c and the handles of Windows they are made of: *)
(* a provider (CNG, or CryptoAPI where CNG cannot be set up) and the keys  *)
(* the codec of SQLite makes from it, clones, uses and releases.  Every    *)
(* function acquires its handles one by one and any call may fail; what    *)
(* was acquired must be given back, by Release, by a helper or by the      *)
(* function itself.  The functions are given as the sequence of calls they *)
(* make, named for the field or variable that holds the handle.            *)
(***************************************************************************)
EXTENDS Naturals, Sequences

CONSTANTS Keys,   \* memory blocks for ICryptoKey objects
          Data,   \* contents of a key's extra bytes (salt and the like)
          NULL    \* no provider, no data

\* NULL is no content and no name of a provider.

VARIABLES
  prov,   \* __CryptoCtx: the API of the provider object, or NULL
  keys,   \* the keys the codec holds
  extra,  \* contents of the extra bytes in each block, freed or not
  open,   \* handles and blocks that exist: <<object, field>>
  call    \* the function that is running

vars == <<prov, keys, extra, open, call>>

-----------------------------------------------------------------------------
(* The functions, as the calls that may fail.  "use" gives no handle. *)

ICngProv_Init == <<"use", "use", "block", "rngAlg", "hmacSha256Alg", "aes256Alg", "use">>
ICryptoApiProv_Init == <<"use", "use", "block", "prov">>

AllocICngKey == <<"block">>
ICngProv_InitKey == <<"use", "use">> \o AllocICngKey \o <<"aes256Key", "sha256">>
ICngKey_Clone == AllocICngKey \o <<"aes256Key", "sha256">>

CryptImportAes256Key == <<"aes256Key">>
CryptImportHmacSha256Key == <<"sha256Key">>
CryptCreateHmacSha256Hash == <<"sha256", "use">>
ICryptoApiProv_InitKey ==
  <<"block">> \o CryptImportAes256Key \o CryptImportHmacSha256Key \o CryptCreateHmacSha256Hash
ICryptoApiKey_Clone == <<"block", "aes256Key", "sha256Key", "sha256">>

ICngKey_EncryptOrDecryptPage == <<"hKeyTmp", "use">>
ICngKey_SignPage == <<"hHashTmp", "use", "use", "use">>
ICryptoApiKey_EncryptOrDecryptPage == <<"hKeyTmp", "use">>
ICryptoApiKey_SignPage == <<"hHashTmp", "use", "use", "use">>

Steps(api, fn) ==
  CASE fn = "Init"    -> IF api = "CNG" THEN ICngProv_Init ELSE ICryptoApiProv_Init
    [] fn = "InitKey" -> IF api = "CNG" THEN ICngProv_InitKey ELSE ICryptoApiProv_InitKey
    [] fn = "Clone"   -> IF api = "CNG" THEN ICngKey_Clone ELSE ICryptoApiKey_Clone
    [] fn = "Page"    -> IF api = "CNG" THEN ICngKey_EncryptOrDecryptPage
                                        ELSE ICryptoApiKey_EncryptOrDecryptPage
    [] fn = "Sign"    -> IF api = "CNG" THEN ICngKey_SignPage ELSE ICryptoApiKey_SignPage

\* The fields each Release destroys before it frees the block.
ICngProv_Release == {"rngAlg", "hmacSha256Alg", "aes256Alg"}
ICryptoApiProv_Release == {"prov"}
ICngKey_Release == {"sha256", "aes256Key"}

ICryptoApiKey_Release == {"aes256Key", "sha256Key", "sha256"}

Release(api, o) ==
  IF o = "prov" THEN IF api = "CNG" THEN ICngProv_Release ELSE ICryptoApiProv_Release
                ELSE IF api = "CNG" THEN ICngKey_Release ELSE ICryptoApiKey_Release

Fields == {"block", "rngAlg", "hmacSha256Alg", "aes256Alg", "prov", "aes256Key",
           "sha256Key", "sha256", "hKeyTmp", "hHashTmp"}

-----------------------------------------------------------------------------
Idle == [fn |-> "none", api |-> NULL, o |-> NULL, from |-> NULL, pc |-> 0]
Running == call # Idle

Begin(fn, api, o, from) == call' = [fn |-> fn, api |-> api, o |-> o, from |-> from, pc |-> 1]

\* The next call of the running function.
Current == Steps(call.api, call.fn)[call.pc]
MoreSteps == call.pc <= Len(Steps(call.api, call.fn))

\* Handles the running function holds for its object, or in its own variables.
Own == {h \in open : h[1] = call.o}
Temporary == {"hKeyTmp", "hHashTmp"}

StepSucceeds ==
  /\ Running /\ MoreSteps
  /\ open' = open \cup (IF Current = "use" THEN {} ELSE {<<call.o, Current>>})
  /\ call' = [call EXCEPT !.pc = @ + 1]
  /\ UNCHANGED <<prov, keys, extra>>

\* CryptCreateHmacSha256Hash still holds the hash when its parameter is set: the
\* field of the object is not assigned yet.
InHelper ==
  IF call.fn = "InitKey" /\ call.api = "CryptoAPI"
     /\ call.pc = Len(ICryptoApiProv_InitKey) THEN {"sha256"} ELSE {}

\* Mutant: the helper just returns NULL.
HelperCleanup_Missing == {}

HelperCleanup == InHelper

Assigned == {f \in Fields : <<call.o, f>> \in open} \ InHelper

\* The object that could not be completed: destroyed by Release once its block
\* exists.
Destroyed ==
  {<<call.o, f>> : f \in HelperCleanup}
  \cup IF <<call.o, "block">> \in open
       THEN {<<call.o, f>> : f \in (Assigned \cap Release(call.api, call.o)) \cup {"block"}}
       ELSE {}

\* A page function destroys its temporary handle, whether it could use it or not.
TemporaryGone == {<<call.o, f>> : f \in Temporary}

\* InitCryptoProv tries the next provider.
InitCryptoProv ==
  IF call.fn = "Init" /\ call.api = "CNG" THEN Begin("Init", "CryptoAPI", "prov", NULL)
  ELSE call' = Idle

StepFails ==
  /\ Running /\ MoreSteps
  /\ open' = open \ (IF call.fn \in {"Page", "Sign"} THEN TemporaryGone ELSE Destroyed)
  /\ InitCryptoProv
  /\ UNCHANGED <<prov, keys, extra>>

InitDone ==
  /\ call.fn = "Init"
  /\ prov' = call.api
  /\ UNCHANGED <<keys, extra, open>>

\* InitKey copies the extra bytes when it is given some, Clone always does.
KeyDone ==
  /\ call.fn \in {"InitKey", "Clone"}
  /\ keys' = keys \cup {call.o}
  /\ extra' = [extra EXCEPT ![call.o] =
                 IF call.fn = "Clone" THEN extra[call.from] ELSE call.from]
  /\ UNCHANGED <<prov, open>>

PageDone ==
  /\ call.fn \in {"Page", "Sign"}
  /\ open' = open \ TemporaryGone
  /\ UNCHANGED <<prov, keys, extra>>

Return ==
  /\ Running /\ ~MoreSteps
  /\ call' = Idle
  /\ InitDone \/ KeyDone \/ PageDone

-----------------------------------------------------------------------------
(* The callers: wWinMain and the codec of SQLite *)

CryptInit ==
  /\ ~Running /\ prov = NULL /\ open = {}
  /\ Begin("Init", "CNG", "prov", NULL)
  /\ UNCHANGED <<prov, keys, extra, open>>

CryptoProvInitKey(k, d) ==
  /\ ~Running /\ prov # NULL /\ k \notin keys
  /\ Begin("InitKey", prov, k, d)
  /\ UNCHANGED <<prov, keys, extra, open>>

CryptoKeyClone(k, from) ==
  /\ ~Running /\ from \in keys /\ k \notin keys
  /\ Begin("Clone", prov, k, from)
  /\ UNCHANGED <<prov, keys, extra, open>>

CryptoKeyPage(fn, k) ==
  /\ ~Running /\ k \in keys
  /\ Begin(fn, prov, k, NULL)
  /\ UNCHANGED <<prov, keys, extra, open>>

Freed(api, o) == {<<o, f>> : f \in Release(api, o) \cup {"block"}}

\* Release overwrites the extra bytes before it frees the block.
CryptoKeyRelease(k) ==
  /\ ~Running /\ k \in keys
  /\ keys' = keys \ {k}
  /\ extra' = [extra EXCEPT ![k] = NULL]
  /\ open' = open \ Freed(prov, k)
  /\ UNCHANGED <<prov, call>>

\* At the end of wWinMain, when the data store is closed.
CryptRelease ==
  /\ ~Running /\ prov # NULL /\ keys = {}
  /\ prov' = NULL
  /\ open' = open \ Freed(prov, "prov")
  /\ UNCHANGED <<keys, extra, call>>

Init ==
  /\ prov = NULL /\ keys = {} /\ open = {} /\ call = Idle
  /\ extra = [k \in Keys |-> NULL]

Next ==
  \/ StepSucceeds \/ StepFails \/ Return
  \/ CryptInit \/ CryptRelease
  \/ \E k \in Keys, d \in Data \cup {NULL} : CryptoProvInitKey(k, d)
  \/ \E k, from \in Keys : CryptoKeyClone(k, from)
  \/ \E k \in Keys, fn \in {"Page", "Sign"} : CryptoKeyPage(fn, k)
  \/ \E k \in Keys : CryptoKeyRelease(k)

Spec == Init /\ [][Next]_vars /\ WF_vars(StepSucceeds \/ StepFails \/ Return)

-----------------------------------------------------------------------------
(* Properties *)

TypeOK ==
  /\ prov \in {"CNG", "CryptoAPI", NULL}
  /\ keys \subseteq Keys
  /\ extra \in [Keys -> Data \cup {NULL}]
  /\ open \subseteq (Keys \cup {"prov"}) \X Fields
  /\ call.pc \in 0..8

\* What a complete object consists of.
KeyFields(api) ==
  IF api = "CNG" THEN {"block", "aes256Key", "sha256"}
  ELSE {"block", "aes256Key", "sha256Key", "sha256"}
ProvFields(api) ==
  CASE api = "CNG" -> {"block", "rngAlg", "hmacSha256Alg", "aes256Alg"}
    [] api = "CryptoAPI" -> {"block", "prov"}
    [] OTHER -> {}

\* Between two calls exactly the handles of the complete objects exist:
\* whichever step of whichever function failed before, nothing leaked, nothing
\* that is still used was closed, and a clone shares nothing with its original.
NoHandleLeft ==
  ~Running => open = ({"prov"} \X ProvFields(prov)) \cup (keys \X KeyFields(prov))

\* A key's handles only exist while the provider they came from is complete.
KeysUnderProvider ==
  \A h \in open : h[1] # "prov" =>
    prov # NULL /\ {"prov"} \X ProvFields(prov) \subseteq open

\* Extra bytes (they hold the salt) do not stay behind in freed memory.
WipedWhenFreed == \A k \in Keys : <<k, "block">> \notin open => extra[k] = NULL

\* Start-up always ends with a provider or with none, and when CNG cannot be
\* set up it is CryptoAPI's turn, with nothing of CNG left open.
FallsBack ==
  [][call.fn = "Init" /\ call'.fn # "Init" /\ prov' # "CNG" =>
       /\ call.api = "CryptoAPI"
       /\ \A h \in open' : h[2] \notin ICngProv_Release]_vars
InitEnds == (call.fn = "Init") ~> (call.fn = "none")
=============================================================================
