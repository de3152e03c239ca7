------------------------------ MODULE LangFile ------------------------------
(***************************************************************************)
(* The language file that SendCode collects messages in (ws/context_lang.go, *)
(* ws/context_i18n.go, ws/context_send.go, utils/createfile.go).  A request  *)
(* has no other language than the default one, so that SendCode never        *)
(* translates; in development mode it adds what it sends to the file.        *)
(*                                                                         *)
(* An entry of the file is <<action, hash>> and the message: the hash of a   *)
(* message has four digits, and different messages may share it.             *)
(***************************************************************************)
EXTENDS Naturals, Sequences

CONSTANTS
    Senders,     \* the Request goroutines
    Actions,
    Messages,    \* the codes and messages that are sent
    HashOf,      \* getMsgHashKey, with the code
    MaxInfos     \* bound: the times that the file is read

ASSUME HashAssumption == DOMAIN HashOf = Messages /\ MaxInfos \in Nat

NoEntries == <<>>

VARIABLES
    exists,    \* the file is there
    file,      \* its entries
    infos,     \* the langInfo values: their Action and langData
    langMap,   \* the langInfo that is kept, by its index, 0 for none
    sender,    \* where a SendCode is, and its locals
    sent,      \* history: what SendCode is done with
    filed,     \* history: the entries that the file has had, each as a pair
    careless   \* history: two at a time, or the process died in a write
langVars == <<exists, file, infos, langMap, sender, sent, filed, careless>>

Out == [pc |-> "idle", action |-> "", msg |-> "", info |-> 0]

LangInit == /\ exists \in BOOLEAN /\ file = NoEntries /\ infos = <<>> /\ langMap = 0
            /\ sender = [p \in Senders |-> Out]
            /\ sent = {} /\ filed = {} /\ careless = FALSE

At(p, pc) == sender[p].pc = pc
Step(p, pc) == sender' = [sender EXCEPT ![p].pc = pc]
Key(action, m) == <<action, HashOf[m]>>
With(entries, k, m) ==
    [j \in DOMAIN entries \union {k} |-> IF j = k THEN m ELSE entries[j]]

-----------------------------------------------------------------------------
(* languageInit                                                             *)

SendCode(p) ==
    /\ At(p, "idle")
    /\ \E a \in Actions, m \in Messages :
         sender' = [sender EXCEPT ![p] =
                      [pc |-> IF langMap = 0 THEN "stat" ELSE "set",
                       action |-> a, msg |-> m, info |-> langMap]]
    /\ UNCHANGED <<exists, file, infos, langMap, sent>>

StatFile(p) ==
    /\ At(p, "stat") /\ Step(p, IF exists THEN "read" ELSE "create")
    /\ UNCHANGED <<exists, file, infos, langMap, sent>>

CreateFile(p) ==
    /\ At(p, "create") /\ Step(p, "read")
    /\ exists' = TRUE /\ file' = NoEntries
    /\ UNCHANGED <<infos, langMap, sent>>

\* What is read is kept, with the context of this request, unless the file
\* is empty.
ReadLang(p) ==
    /\ At(p, "read") /\ Len(infos) < MaxInfos
    /\ infos' = Append(infos, [action |-> sender[p].action, data |-> file])
    /\ langMap' = IF file = NoEntries THEN langMap ELSE Len(infos) + 1
    /\ sender' = [sender EXCEPT ![p].pc = "set", ![p].info = Len(infos) + 1]
    /\ UNCHANGED <<exists, file, sent>>

-----------------------------------------------------------------------------
(* set                                                                      *)

\* The key has the action of the request that the langInfo was made for.
SetKey(p) == Key(infos[sender[p].info].action, sender[p].msg)

Finished(p) == /\ sender' = [sender EXCEPT ![p] = Out]
               /\ sent' = sent \union {[action |-> sender[p].action, msg |-> sender[p].msg]}

\* Mutant: an entry that is there is written over.
SetEntryAlways(p) ==
    /\ At(p, "set")
    /\ LET i == sender[p].info
       IN  /\ infos' = [infos EXCEPT ![i].data = With(@, SetKey(p), sender[p].msg)]
           /\ Step(p, "truncate") /\ UNCHANGED sent
    /\ UNCHANGED <<exists, file, langMap>>

SetEntry(p) ==
    /\ At(p, "set")
    /\ LET i == sender[p].info
       IN  IF SetKey(p) \in DOMAIN infos[i].data
           THEN Finished(p) /\ UNCHANGED infos
           ELSE /\ infos' = [infos EXCEPT ![i].data = With(@, SetKey(p), sender[p].msg)]
                /\ Step(p, "truncate") /\ UNCHANGED sent
    /\ UNCHANGED <<exists, file, langMap>>

\* writeLangFile: os.Create, and the entries of the langInfo.
Truncate(p) ==
    /\ At(p, "truncate") /\ Step(p, "write") /\ exists' = TRUE /\ file' = NoEntries
    /\ UNCHANGED <<infos, langMap, sent>>

\* Mutant: the new entry is written alone.
WriteEntryOnly(p) ==
    /\ At(p, "write") /\ Finished(p)
    /\ file' = [k \in {SetKey(p)} |-> sender[p].msg]
    /\ UNCHANGED <<exists, infos, langMap>>

WriteLangFile(p) ==
    /\ At(p, "write") /\ Finished(p)
    /\ file' = infos[sender[p].info].data
    /\ UNCHANGED <<exists, infos, langMap>>

\* The process ends and is started again.
RestartLang ==
    /\ infos' = <<>> /\ langMap' = 0 /\ sender' = [p \in Senders |-> Out]
    /\ UNCHANGED <<exists, file, sent>>

-----------------------------------------------------------------------------
Writing == \E p \in Senders : At(p, "write")

\* Two are in SendCode at once, or one leaves the file truncated.
Careless == \/ \E p, q \in Senders : p # q /\ sender'[p].pc # "idle" /\ sender'[q].pc # "idle"
            \/ \E p \in Senders : At(p, "write") /\ sender'[p].pc = "idle"
                                  /\ sent' = sent /\ infos' = <<>>

LangNext ==
    /\ \/ RestartLang
       \/ \E p \in Senders :
            \/ SendCode(p) \/ StatFile(p) \/ CreateFile(p) \/ ReadLang(p)
            \/ SetEntry(p) \/ Truncate(p) \/ WriteLangFile(p)
    /\ careless' = (careless \/ Careless)
    /\ filed' = IF Writing' THEN filed ELSE filed \union {<<k, file'[k]>> : k \in DOMAIN file'}

LangSpec == LangInit /\ [][LangNext]_langVars

-----------------------------------------------------------------------------
(* Properties.                                                              *)

Keys == Actions \X {HashOf[m] : m \in Messages}
Entries == UNION {[D -> Messages] : D \in SUBSET Keys}
Infos == [action : Actions, data : Entries]
SendSteps == {"idle", "stat", "create", "read", "set", "truncate", "write"}
Sending == [pc : SendSteps, action : Actions \union {""}, msg : Messages \union {""}, info : Nat]

\* A SendCode has an action and a message, and a langInfo when it sets.
LangTypeOK ==
    /\ exists \in BOOLEAN /\ careless \in BOOLEAN
    /\ file \in Entries /\ (~exists => file = NoEntries)
    /\ infos \in Seq(Infos)
    /\ langMap \in 0..Len(infos)
    /\ sender \in [Senders -> Sending]
    /\ \A p \in Senders : sender[p].info \in 0..Len(infos)
    /\ \A p \in Senders :
         /\ ~At(p, "idle") => sender[p].action \in Actions /\ sender[p].msg \in Messages
         /\ sender[p].pc \in {"set", "truncate", "write"} => sender[p].info # 0
         /\ At(p, "write") => exists
    /\ sent \subseteq [action : Actions, msg : Messages]
    /\ filed \subseteq (Keys \X Messages)

\* What was collected stays: every message that SendCode is done with has an
\* entry, through restarts and further messages, unless two requests were in
\* SendCode at once or the process died between os.Create and the write.  The
\* entry may be that of a message with the same hash, and it may be under
\* another action than those that send the message: the langInfo that is kept
\* has the context of the request that has read the file (context_lang.go:41).
MessagesStay ==
    ~careless /\ ~Writing =>
        \A s \in sent : \E t \in sent : Key(t.action, s.msg) \in DOMAIN file

\* No entry is lost or overwritten: the first message of a key keeps it, so
\* that what a translator finds in the file stays there, with the same
\* exceptions.
EntriesStay ==
    ~careless /\ ~Writing =>
        \A e \in filed : e[1] \in DOMAIN file /\ file[e[1]] = e[2]

\* The file collects: what SendCode is done with is in it, and what was in it
\* stays, through restarts and further messages.
FileCollects == MessagesStay /\ EntriesStay
=============================================================================
