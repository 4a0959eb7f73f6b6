------------------------------ MODULE Channels ------------------------------
(***************************************************************************)
(* Messaging channels: from a provider's delivery to the reply in the chat.*)
(*                                                                         *)
(* A delivery is verified and parsed by its adapter, its sender is mapped  *)
(* to an account, a command is executed or its files are stored, a skill   *)
(* chosen and run, and the reply is cut into chunks and sent.  Several     *)
(* deliveries are in flight, of one user or of several; a provider may     *)
(* deliver a message twice.  Beside them the migration of old mappings     *)
(* runs, and the server is replaced: a new one registers the slash         *)
(* commands of a Discord guild before it serves.                           *)
(***************************************************************************)
EXTENDS Integers, SequencesExt

CONSTANTS
  Deliveries,   \* bound on the deliveries
  Messages,     \* what providers may deliver, see Message
  Users,        \* channel-native user ids
  Registered,   \* channels whose credentials are in the environment
  Catalog,      \* skill ids that exist
  Readable,     \* those a channel user, an account without e-mail, may run
  TitleOf(_),   \* the title of a listed skill
  General,      \* "general-assistant"
  Replies,      \* texts a skill may answer with, as sequences over Chars
  MaxLength,    \* length limit of the chunking channels
  Planned,      \* users the migration has a mapping for
  Known,        \* users whose row may have been written by hand
  Blank,        \* what a row without firebase_uid names
  None

Space == " "
Chars == {"x", "y", Space}
ChannelNames == {"telegram", "whatsapp", "email", "discord"}
Files == {"good", "unsupported", "declared_big", "big", "unfetchable", "nameless"}
Names == Catalog \cup {TitleOf(s) : s \in Catalog} \cup {"nonsense"}

\* What a user wrote: nothing, a sentence, or a command in slash or bracket form.
Text(form, cmd, name) == [form |-> form, cmd |-> cmd, name |-> name]
NoText == Text("none", "none", None)
Texts ==
  {NoText, Text("plain", "none", None)} \cup
  [form : {"/", "["}, cmd : {"skill"}, name : Names \cup {None}] \cup
  [form : {"/"}, cmd : {"skills", "help", "clear"}, name : {None}]

\* _slash_command_spec: /ask with a sentence, /skill with a name, /skills and
\* /help.  What has no command of its own cannot be chosen in Discord.
SlashTexts ==
  {Text("plain", "none", None)} \cup
  {t \in Texts : t.form = "/" /\ (t.cmd = "skill" <=> t.name # None) /\ t.cmd # "clear"}

\* subject is the skill named in an e-mail subject, guild that of a Discord message.
Message ==
  [channel : ChannelNames, user : Users, kind : {"message", "slash", "dm", "other"},
   signed : BOOLEAN, guild : {"guild", None}, text : Texts,
   subject : Names \cup {None}, files : Seq(Files)]

ASSUME ChannelsAssumption ==
  /\ Messages \subseteq Message
  /\ \A m \in Messages : m.kind = "slash" => m.text \in SlashTexts
  /\ Registered \subseteq ChannelNames
  /\ Readable \subseteq Catalog /\ Planned \subseteq Users
  /\ Replies \subseteq Seq(Chars) \ {<< >>}
  /\ MaxLength \in Nat \ {0}

VARIABLES
  identity,   \* channel_identities: the account a user's row names, if any
  settings,   \* user_settings: default skill of an account
  allowed,    \* channel_routes: allowlist of the guild, None without a route
  blobs,      \* attachments in storage
  library,    \* parsed_documents, with their owner
  delivery,   \* the handlers in flight
  migration,  \* the migration script: what it read of each planned row
  lock,       \* bot_state: a registration younger than the TTL is recorded
  server,     \* serving, or where it is in register_slash_commands
  commands    \* whether Discord knows the guild's commands

userVars == <<identity, settings, allowed>>
fileVars == <<blobs, library>>
startVars == <<lock, server, commands>>
vars == <<userVars, fileVars, delivery, migration, startVars>>

DiscordUsers == {m.user : m \in {m \in Messages : m.channel = "discord"}}

Derived(u) == <<"channel", u>>
Accounts == {Derived(u) : u \in Users} \cup {<<"linked", u>> : u \in Users}
Documents == Deliveries \X Nat

ASSUME NoneAssumption == None \notin Accounts /\ Blank \notin Accounts

Pcs == {"idle", "resolve", "admit", "route", "upload", "select", "run", "send",
        "ok", "skipped", "rejected", "unauthorized", "failed", "lost"}
Ended == {"ok", "skipped", "rejected", "unauthorized", "failed", "lost"}
Running == Pcs \ (Ended \cup {"idle"})

Handler ==
  [msg : Messages \cup {None}, pc : Pcs, uid : Accounts \cup {None},
   files : Seq(Files), docs : SUBSET Documents, skill : Catalog \cup {General, None},
   reply : Seq(Chars), left : Seq(Seq(Chars)), sent : Seq(Seq(Chars))]

Idle == [msg |-> None, pc |-> "idle", uid |-> None, files |-> << >>, docs |-> {},
         skill |-> None, reply |-> << >>, left |-> << >>, sent |-> << >>]

\* What a handler leaves when it returns: who it served and over what.
Returned(h, how) == [Idle EXCEPT !.msg = h.msg, !.pc = how, !.uid = h.uid]

\* The types of the state.
TypeOK ==
  /\ identity \in [Users -> Accounts \cup {Blank, None}]
  /\ settings \in [Accounts -> Catalog \cup {None}]
  /\ allowed \in (SUBSET Users) \cup {None}
  /\ blobs \subseteq Documents
  /\ library \subseteq [doc : Documents, owner : Accounts]
  /\ delivery \in [Deliveries -> Handler]
  /\ migration \in [Planned -> {"planned", "absent", "handled"}]
  /\ lock \in BOOLEAN
  /\ server \in {"starting", "putting", "locking", "serving"}
  /\ commands \in BOOLEAN

\* Rows may name no account, or one an operator linked by hand.
Init ==
  /\ identity \in {f \in [Users -> Accounts \cup {None, Blank}] :
                    \A u \in Users : \/ f[u] = None
                                     \/ u \in Known /\ f[u] \in {Blank, <<"linked", u>>}}
  /\ settings = [a \in Accounts |-> None]
  /\ allowed \in {None, DiscordUsers}
  /\ blobs = {} /\ library = {}
  /\ delivery = [d \in Deliveries |-> Idle]
  /\ migration = [u \in Planned |-> "planned"]
  /\ lock = FALSE /\ commands = FALSE
  /\ server = "starting"

-----------------------------------------------------------------------------
(* The adapters: verification *)

\* fast_api_app registers an adapter when its credentials are set.
Mounted(m) == m.channel \in Registered

\* Each adapter compares the provider's secret or signature, and fails closed.
TelegramVerified(m) == m.signed
WhatsAppVerified(m) == m.signed
EmailVerified(m) == m.signed
\* Interactions are signed; gateway messages come over the bot's own socket.
DiscordVerified(m) == m.kind = "slash" => m.signed

Verified(m) ==
  CASE m.channel = "telegram" -> TelegramVerified(m)
    [] m.channel = "whatsapp" -> WhatsAppVerified(m)
    [] m.channel = "email" -> EmailVerified(m)
    [] m.channel = "discord" -> DiscordVerified(m)

(* The adapters: parsing *)

\* The elements of a sequence that a set has, in their order.
Only(s, S) ==
  LET kept[n \in 0..Len(s)] ==
        IF n = 0 THEN << >>
        ELSE IF s[n] \in S THEN Append(kept[n - 1], s[n]) ELSE kept[n - 1]
  IN kept[Len(s)]

\* Files whose metadata has no address are left out by every adapter.
Named(files) == Only(files, Files \ {"nameless"})

\* A file needs a file_id that getFile resolves.
TelegramFiles(m) == Named(m.files)
\* Twilio numbers its media urls; an index without one is skipped.
WhatsAppFiles(m) == Named(m.files)
\* Mailgun sends a json object per file; malformed ones are skipped.
EmailFiles(m) == Named(m.files)

FilesOf(m) ==
  CASE m.channel = "telegram" -> TelegramFiles(m)
    [] m.channel = "whatsapp" -> WhatsAppFiles(m)
    [] m.channel = "email" -> EmailFiles(m)
    [] m.channel = "discord" -> << >>

\* Only a message with text or a file is acted upon, not an edit.
TelegramActionable(m) ==
  m.kind = "message" /\ (m.text # NoText \/ TelegramFiles(m) # << >>)
WhatsAppActionable(m) == m.text # NoText \/ WhatsAppFiles(m) # << >>
EmailActionable(m) == m.text # NoText \/ EmailFiles(m) # << >>
\* Webhook: application commands; gateway: direct messages and mentions.
DiscordInteraction(m) == m.kind = "slash" /\ m.text # NoText
DiscordGateway(m) == m.kind = "dm" \/ (m.kind = "message" /\ m.guild # None)

Actionable(m) ==
  CASE m.channel = "telegram" -> TelegramActionable(m)
    [] m.channel = "whatsapp" -> WhatsAppActionable(m)
    [] m.channel = "email" -> EmailActionable(m)
    [] m.channel = "discord" -> DiscordInteraction(m) \/ DiscordGateway(m)

(* Commands *)

\* command_prefix of the adapters.
Prefix(channel) == IF channel = "email" THEN "[" ELSE "/"

\* CommandParser.parse: a command in another channel's form is a sentence.
IsCommand(text, prefix) ==
  /\ text.form = prefix
  /\ prefix = "[" => text.name # None

\* _resolve_skill_by_name_or_id: an id, else the title of a listed skill.
Resolved(name) ==
  IF name \in Catalog THEN name
  ELSE IF \E s \in Catalog : TitleOf(s) = name
       THEN CHOOSE s \in Catalog : TitleOf(s) = name
       ELSE None

(* Chunks *)

\* The rightmost space among the first MaxLength + 1 characters after i, as its
\* offset; 0 when there is none or it is the first character.
Boundary(t, i) ==
  Max({0} \cup {b \in 1..MaxLength : i + b <= Len(t) /\ t[i + b] = Space})

\* Mutant: one character is dropped with the spaces.
SkipSpacesAndOne(t, i) == Min({j \in (i + 1)..Len(t) : t[j] # Space} \cup {Len(t) + 1})

\* Where the continuation starts: spaces at its head are dropped.
SkipSpaces(t, i) ==
  Min({j \in i..Len(t) : t[j] # Space} \cup {Len(t) + 1})

\* Where the chunk that starts at i ends: with the rest of the text if it fits.
LastOf(t, i) ==
  IF Len(t) - i + 1 <= MaxLength THEN Len(t)
  ELSE IF Boundary(t, i) = 0 THEN i + MaxLength - 1
  ELSE i + Boundary(t, i) - 1

\* Where the next one starts: a boundary is consumed.
NextOf(t, i) ==
  SkipSpaces(t, IF Boundary(t, i) = 0 THEN LastOf(t, i) + 1 ELSE LastOf(t, i) + 2)

\* The loop of chunk_message, on the rest of the text from each position.
CutsFrom(t) ==
  LET cut[i \in 1..(Len(t) + 1)] ==
        IF i > Len(t) THEN << >>
        ELSE <<[from |-> i, to |-> LastOf(t, i)]>> \o cut[NextOf(t, i)]
  IN cut

Cuts(t) == IF \A i \in DOMAIN t : t[i] = Space THEN << >> ELSE CutsFrom(t)[1]

\* chunk_message.
Chunks(t) ==
  LET cuts == Cuts(t) IN [n \in DOMAIN cuts |-> SubSeq(t, cuts[n].from, cuts[n].to)]

-----------------------------------------------------------------------------
(* BaseChannel: one delivery *)

Put(d, h) == delivery' = [delivery EXCEPT ![d] = h]
Return(d, how) == Put(d, Returned(delivery[d], how))

\* handle_webhook up to the dispatch, or a gateway message; the same message
\* may be delivered again and again.
Arrive(d, m) ==
  /\ delivery[d].pc = "idle" /\ server = "serving"
  /\ Mounted(m)
  /\ LET h == [Idle EXCEPT !.msg = m] IN
     Put(d, IF ~Verified(m) THEN Returned(h, "unauthorized")
            ELSE IF ~Actionable(m) THEN Returned(h, "skipped")
            ELSE [h EXCEPT !.pc = "resolve"])
  /\ UNCHANGED <<userVars, fileVars, migration, startVars>>

\* Mutant: a row that names no account is a hit.
ResolveTakesBlank(d) ==
  /\ delivery[d].pc = "resolve"
  /\ LET row == identity[delivery[d].msg.user] IN
     Put(d, IF row = None THEN [delivery[d] EXCEPT !.pc = "admit"]
            ELSE [delivery[d] EXCEPT !.pc = "route", !.uid = row])
  /\ UNCHANGED <<userVars, fileVars, migration, startVars>>

\* IdentityResolver.resolve: a row that names no account counts as a miss.
Resolve(d) ==
  /\ delivery[d].pc = "resolve"
  /\ LET row == identity[delivery[d].msg.user] IN
     Put(d, IF row \in {None, Blank} THEN [delivery[d] EXCEPT !.pc = "admit"]
            ELSE [delivery[d] EXCEPT !.pc = "route", !.uid = row])
  /\ UNCHANGED <<userVars, fileVars, migration, startVars>>

\* on_unknown_user of Discord: only listed users of a guild with a route.
DiscordAdmits(m) == m.guild # None /\ allowed # None /\ m.user \in allowed

Admits(m) == m.channel = "discord" => DiscordAdmits(m)

\* auto_create: the row is set whatever stands there by now.
AutoCreated(u) == identity' = [identity EXCEPT ![u] = Derived(u)]

\* on_unknown_user: create the mapping or reject.
Admit(d) ==
  LET m == delivery[d].msg IN
  /\ delivery[d].pc = "admit"
  /\ \/ /\ Admits(m)
        /\ AutoCreated(m.user)
        /\ Put(d, [delivery[d] EXCEPT !.pc = "route", !.uid = Derived(m.user)])
     \/ /\ ~Admits(m)
        /\ Return(d, "rejected")
        /\ UNCHANGED identity
  /\ UNCHANGED <<settings, allowed, fileVars, migration, startVars>>

\* What each adapter's send sets out to send: nothing when the chat cannot be
\* resolved or the credentials to send with are not set.
TelegramPieces(text) == {Chunks(text)}
WhatsAppPieces(text) == {<< >>, Chunks(text)}
EmailPieces(text) == {<< >>, <<text>>}
DiscordPieces(text) == {<< >>, Chunks(text)}

Outgoing(m, text) ==
  CASE m.channel = "telegram" -> TelegramPieces(text)
    [] m.channel = "whatsapp" -> WhatsAppPieces(text)
    [] m.channel = "email" -> EmailPieces(text)
    [] m.channel = "discord" -> DiscordPieces(text)

Answer(d, text) ==
  \E pieces \in Outgoing(delivery[d].msg, text) :
    Put(d, [delivery[d] EXCEPT !.pc = "send", !.reply = text, !.left = pieces])

\* execute_command: /skill stores the skill it resolves; the others only reply.
ExecuteCommand(d) ==
  LET h == delivery[d] IN
  /\ settings' =
       IF h.msg.text.cmd = "skill" /\ Resolved(h.msg.text.name) # None
       THEN [settings EXCEPT ![h.uid] = Resolved(h.msg.text.name)]
       ELSE settings
  /\ Answer(d, <<"x">>)

\* _dispatch_inbound after the identity: commands come before everything else.
Route(d) ==
  LET h == delivery[d] IN
  /\ h.pc = "route"
  /\ IF IsCommand(h.msg.text, Prefix(h.msg.channel))
     THEN ExecuteCommand(d)
     ELSE /\ Put(d, [h EXCEPT !.pc = "upload", !.files = FilesOf(h.msg)])
          /\ UNCHANGED settings
  /\ UNCHANGED <<identity, allowed, fileVars, migration, startVars>>

\* _process_one: extension and declared size before the download, size again
\* after it, then storage, then the record; any of the calls may raise.
FileFate(f) ==
  IF f = "good" THEN {"refused", "stored", "registered"} ELSE {"refused"}

\* Mutant: a file that failed stays first in the queue.
UploadRetries(d) ==
  LET h == delivery[d] IN
  LET doc == <<d, Len(h.files)>> IN
  /\ h.pc = "upload" /\ h.files # << >>
  /\ \E fate \in FileFate(Head(h.files)) :
       /\ blobs' = IF fate = "refused" THEN blobs ELSE blobs \cup {doc}
       /\ library' = IF fate = "registered"
                     THEN library \cup {[doc |-> doc, owner |-> h.uid]} ELSE library
       /\ Put(d, IF fate = "registered"
                 THEN [h EXCEPT !.files = Tail(@), !.docs = @ \cup {doc}] ELSE h)
  /\ UNCHANGED <<userVars, migration, startVars>>

\* Mutant: a stored file is named to the skill before it is recorded.
UploadKeepsStored(d) ==
  LET h == delivery[d] IN
  LET doc == <<d, Len(h.files)>> IN
  /\ h.pc = "upload" /\ h.files # << >>
  /\ \E fate \in FileFate(Head(h.files)) :
       /\ blobs' = IF fate = "refused" THEN blobs ELSE blobs \cup {doc}
       /\ library' = IF fate = "registered"
                     THEN library \cup {[doc |-> doc, owner |-> h.uid]} ELSE library
       /\ Put(d, [h EXCEPT !.files = Tail(@),
                           !.docs = IF fate = "refused" THEN @ ELSE @ \cup {doc}])
  /\ UNCHANGED <<userVars, migration, startVars>>

\* AttachmentPipeline.upload, one file: a bad one does not stop the rest.
Upload(d) ==
  LET h == delivery[d] IN
  LET doc == <<d, Len(h.files)>> IN
  /\ h.pc = "upload" /\ h.files # << >>
  /\ \E fate \in FileFate(Head(h.files)) :
       /\ blobs' = IF fate = "refused" THEN blobs ELSE blobs \cup {doc}
       /\ library' = IF fate = "registered"
                     THEN library \cup {[doc |-> doc, owner |-> h.uid]} ELSE library
       /\ Put(d, [h EXCEPT !.files = Tail(@),
                           !.docs = IF fate = "registered" THEN @ \cup {doc} ELSE @])
  /\ UNCHANGED <<userVars, migration, startVars>>

\* select_skill of the base: the stored default.
BaseSelected(h) == IF settings[h.uid] = None THEN General ELSE settings[h.uid]

\* select_skill of e-mail: a skill named in the subject, else the default.
SubjectSkill(m) == IF m.subject = None THEN None ELSE Resolved(m.subject)
EmailSelected(h) ==
  IF SubjectSkill(h.msg) = None THEN BaseSelected(h) ELSE SubjectSkill(h.msg)

SelectSkill(d) ==
  LET h == delivery[d] IN
  /\ h.pc = "upload" /\ h.files = << >>
  /\ Put(d, [h EXCEPT !.pc = "run",
                      !.skill = IF h.msg.channel = "email"
                                THEN EmailSelected(h) ELSE BaseSelected(h)])
  /\ UNCHANGED <<userVars, fileVars, migration, startVars>>

\* invoke_skill_collected: the text deltas joined, whatever else the stream
\* holds; of a skill that is not there, or not for this user, that it is not.
Collected(skill) == IF skill \in Readable THEN Replies ELSE {<<"x">>}

\* _invoke_skill, and the send that follows; any other exception is not caught.
InvokeSkill(d) ==
  LET h == delivery[d] IN
  /\ h.pc = "run"
  /\ (\E text \in Collected(h.skill) : Answer(d, text)) \/ Return(d, "failed")
  /\ UNCHANGED <<userVars, fileVars, migration, startVars>>

\* The chunk loops: Telegram and WhatsApp go on after a failed chunk, e-mail
\* logs it, Discord lets it raise.
SendChunk(d) ==
  LET h == delivery[d] IN
  /\ h.pc = "send" /\ h.left # << >>
  /\ \/ Put(d, [h EXCEPT !.left = Tail(@), !.sent = Append(@, Head(h.left))])
     \/ h.msg.channel # "discord" /\ Put(d, [h EXCEPT !.left = Tail(@)])
     \/ h.msg.channel = "discord" /\ Return(d, "failed")
  /\ UNCHANGED <<userVars, fileVars, migration, startVars>>

Acknowledge(d) ==
  /\ delivery[d].pc = "send" /\ delivery[d].left = << >>
  /\ Return(d, "ok")
  /\ UNCHANGED <<userVars, fileVars, migration, startVars>>

-----------------------------------------------------------------------------
(* Around the deliveries *)

\* An operator edits the guild's allowlist.
Relist(users) ==
  /\ allowed # None /\ allowed' = users
  /\ UNCHANGED <<identity, settings, fileVars, delivery, migration, startVars>>

\* apply_plan: a planned row that exists is skipped; a call that fails counts
\* as an error and the script goes on.
MigrationRead(u) ==
  /\ migration[u] = "planned"
  /\ migration' = [migration EXCEPT ![u] =
                     IF identity[u] = None THEN "absent" ELSE "handled"]
  /\ UNCHANGED <<userVars, fileVars, delivery, startVars>>

\* Mutant: the row names the account of the mapping's e-mail address.
MigrationWriteByEmail(u) ==
  /\ migration[u] = "absent"
  /\ migration' = [migration EXCEPT ![u] = "handled"]
  /\ identity' \in {identity, [identity EXCEPT ![u] = <<"linked", u>>]}
  /\ UNCHANGED <<settings, allowed, fileVars, delivery, startVars>>

MigrationWrite(u) ==
  /\ migration[u] = "absent"
  /\ migration' = [migration EXCEPT ![u] = "handled"]
  /\ identity' \in {identity, [identity EXCEPT ![u] = Derived(u)]}
  /\ UNCHANGED <<settings, allowed, fileVars, delivery, startVars>>

\* Mutant: the lock is taken before the commands are put.
RegisterStartLocks ==
  /\ server = "starting" /\ lock' = TRUE
  /\ server' = IF lock THEN "serving" ELSE "putting"
  /\ UNCHANGED <<userVars, fileVars, delivery, migration, commands>>

\* register_slash_commands: nothing to do under a fresh lock; else the commands
\* are put, and the lock is written after the put succeeded.
RegisterStart ==
  /\ server = "starting"
  /\ server' = IF lock THEN "serving" ELSE "putting"
  /\ UNCHANGED <<userVars, fileVars, delivery, migration, lock, commands>>

RegisterPut ==
  /\ server = "putting"
  /\ \/ commands' = TRUE /\ server' = "locking"
     \/ UNCHANGED commands /\ server' = "serving"
  /\ UNCHANGED <<userVars, fileVars, delivery, migration, lock>>

RegisterLock ==
  /\ server = "locking" /\ server' = "serving"
  /\ lock' = TRUE
  /\ UNCHANGED <<userVars, fileVars, delivery, migration, commands>>

LockExpires ==
  /\ lock /\ lock' = FALSE
  /\ UNCHANGED <<userVars, fileVars, delivery, migration, server, commands>>

\* The server is replaced at any point of its start or of its handlers.
Redeploy ==
  /\ server # "starting" /\ server' = "starting"
  /\ delivery' = [d \in Deliveries |->
                   IF delivery[d].pc \in Running
                   THEN Returned(delivery[d], "lost") ELSE delivery[d]]
  /\ UNCHANGED <<userVars, fileVars, migration, lock, commands>>

-----------------------------------------------------------------------------
Handle(d) ==
  \/ Resolve(d) \/ Admit(d) \/ Route(d) \/ Upload(d) \/ SelectSkill(d)
  \/ InvokeSkill(d) \/ SendChunk(d) \/ Acknowledge(d)

Next ==
  \/ \E d \in Deliveries : Handle(d) \/ \E m \in Messages : Arrive(d, m)
  \/ \E users \in SUBSET DiscordUsers : Relist(users)
  \/ \E u \in Planned : MigrationRead(u) \/ MigrationWrite(u)
  \/ RegisterStart \/ RegisterPut \/ RegisterLock \/ LockExpires \/ Redeploy

\* A handler that can go on goes on: a task of the server's event loop.
Spec == Init /\ [][Next]_vars /\ \A d \in Deliveries : WF_vars(Handle(d))

-----------------------------------------------------------------------------
(* What the channels promise *)

\* Whatever the order in which a message is resolved, its sender's row created,
\* created again by a second delivery, or imported by the migration: all
\* deliveries of one user run under one account.
OneAccountPerUser ==
  \A d, e \in Deliveries :
    delivery[d].uid # None /\ delivery[e].uid # None
    /\ delivery[d].msg.user = delivery[e].msg.user => delivery[d].uid = delivery[e].uid

\* AttachmentPipeline.upload hands a skill only documents that are stored and
\* recorded for the account it runs under: a file whose storage or record
\* failed half way is never named to the agent.
DocsAreOwn ==
  \A d \in Deliveries : \A doc \in delivery[d].docs :
    doc \in blobs /\ [doc |-> doc, owner |-> delivery[d].uid] \in library

\* The words of a text, as the places of their first and last characters.
IsWord(t, i, j) ==
  /\ i <= j /\ \A k \in i..j : t[k] # Space
  /\ i = 1 \/ t[i - 1] = Space
  /\ j = Len(t) \/ t[j + 1] = Space

\* Pieces of a text in its order: none longer than the channel takes and none
\* empty, nothing but spaces between them, and no word cut that fits one (of a
\* text that does not start with a space: there the code cuts at the limit).
FaithfulCuts(t) ==
  LET cuts == Cuts(t)
      Within(i, j) == \E n \in DOMAIN cuts : cuts[n].from <= i /\ j <= cuts[n].to IN
  /\ \A n \in DOMAIN cuts : cuts[n].to - cuts[n].from + 1 \in 1..MaxLength
  /\ \A n \in DOMAIN cuts : n > 1 => cuts[n - 1].to < cuts[n].from
  /\ \A i \in DOMAIN t : t[i] # Space => Within(i, i)
  /\ t[1] # Space =>
       \A i, j \in DOMAIN t : IsWord(t, i, j) /\ j - i + 1 <= MaxLength => Within(i, j)

\* A sequence holds elements of another, each at most once and in its order.
InOrder(some, all) ==
  \E place \in [DOMAIN some -> DOMAIN all] :
    \A n \in DOMAIN some :
      some[n] = all[place[n]] /\ \A k \in DOMAIN some : k < n => place[k] < place[n]

\* The chunk loops: what is sent and still to send are chunks of the reply in
\* its order, and the chunks are the reply but for spaces.
ReplyFaithful ==
  \A d \in Deliveries :
    LET h == delivery[d] IN
    h.pc = "send" /\ h.msg.channel # "email" =>
      InOrder(h.sent \o h.left, Chunks(h.reply)) /\ FaithfulCuts(h.reply)

\* register_slash_commands: the lock stands only over commands Discord has,
\* wherever a server is replaced before it has registered them all.
LockMeansRegistered == lock => commands

\* Every delivery whose handler runs is answered, rejected, failed or lost with
\* its server: no file, chunk or command keeps it.
DeliveriesEnd ==
  \A d \in Deliveries : delivery[d].pc \in Running ~> delivery[d].pc \in Ended
=============================================================================
