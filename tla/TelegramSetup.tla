--------------------------- MODULE TelegramSetup ---------------------------
(***************************************************************************)
(* setup_telegram_bot of src/telegram-auto-setup.py, run again and again   *)
(* by a user until it has written the webhook configuration.  Three files  *)
(* under /opt/pulse outlive a run: the bot token, the chat id and the      *)
(* configuration.  Each is written by open(.., 'w'), which truncates it,   *)
(* then write, and a run may die between the two.                          *)
(*                                                                         *)
(* A token is a model value; getMe accepts exactly ValidTokens.  A chat id *)
(* is a model value; getUpdates reports some set of the chats that sent    *)
(* the bot a message.  Prompts, banners and the payload text are output    *)
(* only and are left out.                                                  *)
(***************************************************************************)
EXTENDS Naturals

CONSTANTS Tokens,       \* what the user or BotFather may hand over
          ValidTokens,  \* the tokens of Tokens getMe answers ok for
          Chats,        \* chat ids
          MaxTypos,     \* invalid tokens the user types before a valid one
          MaxFaults,    \* runs that die: Ctrl-C, a kill, a request that raises
          NoFile,       \* a file os.path.exists says is absent
          Empty         \* the text of a file truncated and never written,
                        \* neither a token nor a chat id

VARIABLES tokenFile,   \* .telegram_bot_token
          chatFile,    \* .telegram_chat_id
          configFile,  \* telegram-webhook.json
          pc,          \* where the current run is; "exit" after sys.exit or a death
          botToken,    \* bot_token
          chatId,      \* chat_id
          typos,       \* invalid tokens typed so far
          faults       \* runs that died so far

vars == <<tokenFile, chatFile, configFile, pc, botToken, chatId, typos, faults>>

Config == [token : Tokens \cup {Empty}, chat : Chats \cup {Empty}]

Init ==
  /\ tokenFile = NoFile /\ chatFile = NoFile /\ configFile = NoFile
  /\ pc = "start" /\ botToken = Empty /\ chatId = Empty
  /\ typos = 0 /\ faults = 0

(* Lines 39-43: an existing token file is read back, stripped, and used.   *)
ReadToken ==
  /\ pc = "start" /\ tokenFile # NoFile
  /\ botToken' = tokenFile
  /\ pc' = "verify"
  /\ UNCHANGED <<tokenFile, chatFile, configFile, chatId, typos, faults>>

(***************************************************************************)
(* Lines 44-106: no token file.  Option 1 reads a token; option 2 has      *)
(* BotFather make one and falls back to reading one when the reply has no  *)
(* token.  Either way the user ends up with some token, a typo included.   *)
(***************************************************************************)
PromptToken ==
  /\ pc = "start" /\ tokenFile = NoFile
  /\ \E t \in Tokens :
       /\ t \notin ValidTokens => typos < MaxTypos
       /\ botToken' = t
       /\ typos' = IF t \in ValidTokens THEN typos ELSE typos + 1
  /\ pc' = "truncToken"
  /\ UNCHANGED <<tokenFile, chatFile, configFile, chatId, faults>>

(* Lines 109-111: open(token_file, 'w'), then f.write(bot_token).          *)
TruncateToken ==
  /\ pc = "truncToken"
  /\ tokenFile' = Empty
  /\ pc' = "writeToken"
  /\ UNCHANGED <<chatFile, configFile, botToken, chatId, typos, faults>>

WriteToken ==
  /\ pc = "writeToken"
  /\ tokenFile' = botToken
  /\ pc' = "verify"
  /\ UNCHANGED <<chatFile, configFile, botToken, chatId, typos, faults>>

(* Lines 115-123: getMe; an invalid token ends the run with sys.exit(1).   *)
Verify ==
  /\ pc = "verify"
  /\ pc' = IF botToken \in ValidTokens THEN "chat" ELSE "exit"
  /\ UNCHANGED <<tokenFile, chatFile, configFile, botToken, chatId, typos, faults>>

(***************************************************************************)
(* Lines 125-161: an existing chat file is used as it is.  Else getUpdates *)
(* reports the chats that wrote to the bot; the script takes               *)
(* list(chat_ids)[0] of a non-empty set and saves it, and otherwise reads  *)
(* an id from the user that it does not save.                              *)
(***************************************************************************)
GetChat ==
  /\ pc = "chat"
  /\ \/ chatFile # NoFile /\ chatId' = chatFile /\ pc' = "send"
     \/ chatFile = NoFile
        /\ \E updates \in SUBSET Chats :
             \/ updates # {} /\ \E c \in updates : chatId' = c /\ pc' = "truncChat"
             \/ updates = {} /\ \E c \in Chats : chatId' = c /\ pc' = "send"
  /\ UNCHANGED <<tokenFile, chatFile, configFile, botToken, typos, faults>>

(* Lines 153-155: open(chat_file, 'w'), then f.write(str(chat_id)).        *)
TruncateChat ==
  /\ pc = "truncChat"
  /\ chatFile' = Empty
  /\ pc' = "writeChat"
  /\ UNCHANGED <<tokenFile, configFile, botToken, chatId, typos, faults>>

WriteChat ==
  /\ pc = "writeChat"
  /\ chatFile' = chatId
  /\ pc' = "send"
  /\ UNCHANGED <<tokenFile, configFile, botToken, chatId, typos, faults>>

(* Lines 163-181: the test message; a failed one is printed, not acted on. *)
SendTest ==
  /\ pc = "send"
  /\ pc' = "truncConfig"
  /\ UNCHANGED <<tokenFile, chatFile, configFile, botToken, chatId, typos, faults>>

(* Lines 197-208: open(config_file, 'w'), then json.dump(config, f).       *)
TruncateConfig ==
  /\ pc = "truncConfig"
  /\ configFile' = Empty
  /\ pc' = "writeConfig"
  /\ UNCHANGED <<tokenFile, chatFile, botToken, chatId, typos, faults>>

WriteConfig ==
  /\ pc = "writeConfig"
  /\ configFile' = [token |-> botToken, chat |-> chatId]
  /\ pc' = "done"
  /\ UNCHANGED <<tokenFile, chatFile, botToken, chatId, typos, faults>>

(* The run dies at any step: Ctrl-C at a prompt, a kill, or a request that *)
(* raises; the files stay as they are.                                     *)
Die ==
  /\ pc \notin {"done", "exit"} /\ faults < MaxFaults
  /\ pc' = "exit"
  /\ faults' = faults + 1
  /\ UNCHANGED <<tokenFile, chatFile, configFile, botToken, chatId, typos>>

(* The user runs the script again after a run that ended without a         *)
(* configuration; the variables of the run start afresh.                   *)
Rerun ==
  /\ pc = "exit"
  /\ pc' = "start" /\ botToken' = Empty /\ chatId' = Empty
  /\ UNCHANGED <<tokenFile, chatFile, configFile, typos, faults>>

Step == ReadToken \/ PromptToken \/ TruncateToken \/ WriteToken \/ Verify
          \/ GetChat \/ TruncateChat \/ WriteChat \/ SendTest
          \/ TruncateConfig \/ WriteConfig \/ Rerun

Next == Step \/ Die

Spec == Init /\ [][Next]_vars

(* The script is sequential and never waits on anything but the user, and  *)
(* the user reruns it after a failure: while a step can be taken, one is.  *)
FairSpec == Spec /\ WF_vars(Step)

-----------------------------------------------------------------------------
TypeOK ==
  /\ tokenFile \in Tokens \cup {NoFile, Empty}
  /\ chatFile \in Chats \cup {NoFile, Empty}
  /\ configFile \in Config \cup {NoFile, Empty}
  /\ botToken \in Tokens \cup {Empty}
  /\ chatId \in Chats \cup {Empty}
  /\ typos \in 0 .. MaxTypos /\ faults \in 0 .. MaxFaults

(***************************************************************************)
(* The wizard's promise ("creates a bot and configures it automatically"): *)
(* a user who reruns it after each failure, and who after a few typos      *)
(* enters a valid token, ends with the webhook configuration written.      *)
(***************************************************************************)
EventuallyConfigured == <>(pc = "done")

=============================================================================
