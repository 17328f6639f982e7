------------------------ MODULE TelegramSetupProofs ------------------------
(***************************************************************************)
(* Proofs about setup_telegram_bot (module TelegramSetup), over any number *)
(* of reruns and runs that die at any step.                                *)
(***************************************************************************)
EXTENDS TelegramSetup, TLAPS

(* What the model's constants are: bounds are natural numbers, getMe       *)
(* accepts some of the tokens, and a missing or truncated file is neither  *)
(* a token nor a chat id.                                                  *)
ConstantsOK ==
  /\ MaxTypos \in Nat /\ MaxFaults \in Nat
  /\ ValidTokens \subseteq Tokens
  /\ NoFile \notin Tokens \cup Chats /\ Empty \notin Tokens \cup Chats

(***************************************************************************)
(* A configuration written by json.dump holds a token and a chat id, as    *)
(* opposed to the missing or truncated file.                               *)
(***************************************************************************)
Written(cfg) == cfg \notin {NoFile, Empty}

(***************************************************************************)
(* The webhook configuration is only ever written with a token getMe       *)
(* accepted (line 117's check before line 197): a token file left empty by *)
(* a run killed at line 110, or a typo saved at line 111, makes every      *)
(* later run exit before writing it.                                       *)
(***************************************************************************)
ConfigVerified == Written(configFile) => configFile.token \in ValidTokens

(***************************************************************************)
(* The inductive invariant: after getMe in a run, the run's token is       *)
(* valid.                                                                  *)
(***************************************************************************)
Verified ==
  pc \in {"chat", "truncChat", "writeChat", "send", "truncConfig",
          "writeConfig", "done"} => botToken \in ValidTokens

IInv == TypeOK /\ Verified /\ ConfigVerified

LEMMA InitIInv == ConstantsOK => (Init => IInv)
BY DEF ConstantsOK, Init, IInv, TypeOK, Verified, ConfigVerified, Written

LEMMA NextIInv == ConstantsOK => (IInv /\ [Next]_vars => IInv')
<1> SUFFICES ASSUME ConstantsOK, IInv, [Next]_vars PROVE IInv'
  OBVIOUS
<1> USE DEF ConstantsOK, IInv, TypeOK, Verified, ConfigVerified, Written
<1>1. CASE ReadToken
  BY <1>1 DEF ReadToken
<1>2. CASE PromptToken
  BY <1>2 DEF PromptToken
<1>3. CASE TruncateToken
  BY <1>3 DEF TruncateToken
<1>4. CASE WriteToken
  BY <1>4 DEF WriteToken
<1>5. CASE Verify
  BY <1>5 DEF Verify
<1>6. CASE GetChat
  BY <1>6 DEF GetChat
<1>7. CASE TruncateChat
  BY <1>7 DEF TruncateChat
<1>8. CASE WriteChat
  BY <1>8 DEF WriteChat
<1>9. CASE SendTest
  BY <1>9 DEF SendTest
<1>10. CASE TruncateConfig
  BY <1>10 DEF TruncateConfig
<1>11. CASE WriteConfig
  BY <1>11 DEF WriteConfig, Config
<1>12. CASE Die
  BY <1>12 DEF Die
<1>13. CASE Rerun
  BY <1>13 DEF Rerun
<1>14. CASE UNCHANGED vars
  BY <1>14 DEF vars
<1>15. QED
  BY <1>1, <1>2, <1>3, <1>4, <1>5, <1>6, <1>7, <1>8, <1>9, <1>10, <1>11,
     <1>12, <1>13, <1>14 DEF Next, Step

(***************************************************************************)
(* Type correctness of setup_telegram_bot: the three files hold a token, a *)
(* chat id and a configuration or are missing or empty, and the counters   *)
(* stay within their bounds, over any history of reruns and deaths.        *)
(***************************************************************************)
THEOREM TypeCorrect == ConstantsOK => (Spec => []TypeOK)
<1> SUFFICES ASSUME ConstantsOK PROVE Spec => []TypeOK
  OBVIOUS
<1>1. IInv => TypeOK
  BY DEF IInv
<1>2. QED
  BY <1>1, InitIInv, NextIInv, PTL DEF Spec

(***************************************************************************)
(* The webhook configuration the script saves always holds a token that    *)
(* getMe accepted, over any history of reruns, typos and killed runs.      *)
(***************************************************************************)
THEOREM ConfigHasVerifiedToken == ConstantsOK => (Spec => []ConfigVerified)
<1> SUFFICES ASSUME ConstantsOK PROVE Spec => []ConfigVerified
  OBVIOUS
<1>1. IInv => ConfigVerified
  BY DEF IInv
<1>2. QED
  BY <1>1, InitIInv, NextIInv, PTL DEF Spec

=============================================================================
