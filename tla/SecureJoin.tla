----------------------------- MODULE SecureJoin -----------------------------
(***************************************************************************)
(* Joining by QR code (src/securejoin.rs, securejoin/bob.rs, token.rs, the *)
(* withdraw and revive parts of qr.rs, the token items of sync.rs).        *)
(*                                                                         *)
(* Alice has several Devices that read one mailbox and keep one `tokens'   *)
(* table each; the tables are brought together by self-sent sync messages. *)
(* Bob has one device.  A handshake message in Alice's mailbox is fetched  *)
(* by each of her devices until one of them deletes it from the server.    *)
(* Receiving is not atomic: a device that stops between the effects of a   *)
(* message and its tombstone receives the message again.                   *)
(***************************************************************************)
EXTENDS Naturals, Sequences, FiniteSetsExt

CONSTANTS Devices,        \* Alice's devices
          Qrs,            \* QR codes Alice may generate; names the auth token of the code
          Fk,             \* Fk[q]: foreign key of the code's tokens, "" for setup-contact
          V3,             \* the codes with v=3: the key is requested with vc-request-pubkey
          Timeout,        \* VERIFICATION_TIMEOUT_SECONDS
          MaxTime,        \* bound on the clock
          Budgets,        \* bounds, one chosen per behaviour: numbers of codes, scans, changes
                          \* of mind (withdrawals, revivals, blocks) and faults (losses, crashes)
          None

VARIABLES now,       \* time()
          tokens,    \* tokens[d]: rows of the tokens table
          code,      \* code[q]: the invite number printed in q, None before q exists
          sync,      \* sync[d]: sync items of the other devices, not yet executed by d
          verified,  \* verified[d]: Bob has a verifier on d
          member,    \* member[d]: foreign keys of the chats Bob is in, on d
          blocked,   \* blocked[d]: Bob is blocked on d
          mail,      \* mail[m]: devices that have yet to fetch handshake message m
          doomed,    \* messages of the mailbox with a pending deletion on the server
          selfSent,  \* selfSent[d]: BCC-self copies d has yet to see
          inbox,     \* handshake messages in Bob's mailbox
          bobstate,  \* codes in Bob's bobstate table
          bobKey,    \* Bob knows Alice's key
          asked,     \* codes Bob scanned
          joined,    \* foreign keys of the chats Bob was told he is in
          admitted,  \* history: foreign keys of the chats Alice let Bob into
          fresh,     \* history: a device accepted an auth token younger than Timeout
          gone,      \* history: codes withdrawn by Alice
          revived,   \* history: codes she revived
          lost,      \* history: a handshake message was lost
          left       \* what is left of the budget

tokenVars == <<tokens, code, sync, gone, revived>>
aliceVars == <<verified, member, blocked, selfSent, admitted, fresh>>
mailVars  == <<mail, doomed, lost>>
bobVars   == <<inbox, bobstate, bobKey, asked, joined>>
vars == <<now, tokenVars, aliceVars, mailVars, bobVars, left>>

Spend(what) == left[what] > 0 /\ left' = [left EXCEPT ![what] = @ - 1]

ToAlice == {"request", "request-pubkey", "request-with-auth"}
ToBob   == {"auth-required", "pubkey", "contact-confirm", "member-added"}
Row     == [id : Nat, ns : {"inv", "auth"}, of : Qrs, ts : 0..MaxTime]
Item    == [op : {"add", "del"}, inv : Qrs, auth : Qrs, ts : 0..MaxTime]
Keys    == {Fk[q] : q \in Qrs}

SameFk(p, q) == Fk[p] = Fk[q]

\* token::exists
Exists(d, ns, q) == \E r \in tokens[d] : r.ns = ns /\ r.of = q

\* The id of the next row, an INTEGER PRIMARY KEY
NextId(rows) == 1 + Max({0} \union {r.id : r \in rows})

\* token::save: INSERT OR IGNORE on the UNIQUE token
Save(rows, ns, q, ts) ==
  IF \E r \in rows : r.ns = ns /\ r.of = q
  THEN rows ELSE rows \union {[id |-> NextId(rows), ns |-> ns, of |-> q, ts |-> ts]}

\* token::lookup: the token with the greatest id of a namespace and foreign key
Lookup(rows, ns, q) ==
  LET hits == {r \in rows : r.ns = ns /\ SameFk(r.of, q)}
      newest == {r \in hits : \A h \in hits : h.id <= r.id}
  IN IF newest = {} THEN None ELSE (CHOOSE r \in newest : TRUE).of

\* token::delete
DeleteFk(rows, q) == {r \in rows : ~SameFk(r.of, q)}

\* Context::add_sync_item: the item reaches every other device, in mailbox order.
SyncToOthers(d, item) == sync' = [e \in Devices |-> IF e = d THEN sync[e] ELSE Append(sync[e], item)]

\* Context::sync_qr_code_tokens
SyncTokens(d, rows, q) ==
  LET inv == Lookup(rows, "inv", q)  auth == Lookup(rows, "auth", q)
  IN IF inv = None \/ auth = None THEN UNCHANGED sync
     ELSE SyncToOthers(d, [op |-> "add", inv |-> inv, auth |-> auth, ts |-> now])

Init ==
  /\ now = 0
  /\ tokens = [d \in Devices |-> {}] /\ sync = [d \in Devices |-> <<>>]
  /\ code = [q \in Qrs |-> None]
  /\ verified = [d \in Devices |-> FALSE] /\ blocked = [d \in Devices |-> FALSE]
  /\ member = [d \in Devices |-> {}] /\ selfSent = [d \in Devices |-> {}]
  /\ mail = [m \in ToAlice \X Qrs |-> {}] /\ doomed = {} /\ lost = FALSE
  /\ inbox = {} /\ bobstate = {} /\ asked = {} /\ joined = {}
  /\ bobKey \in BOOLEAN
  /\ admitted = {} /\ fresh = FALSE /\ gone = {} /\ revived = {}
  /\ left \in Budgets

----------------------------------------------------------------------------
(* Alice's codes                                                          *)

\* get_securejoin_qr: the invite number is reused, the auth token is always new.
NewQr(d, q) ==
  /\ code[q] = None /\ Spend("codes")
  /\ LET inv  == IF Lookup(tokens[d], "inv", q) = None THEN q ELSE Lookup(tokens[d], "inv", q)
         rows == Save(Save(tokens[d], "inv", inv, now), "auth", q, now)
     IN /\ code' = [code EXCEPT ![q] = inv]
        /\ tokens' = [tokens EXCEPT ![d] = rows]
        /\ SyncTokens(d, rows, q)
  /\ UNCHANGED <<now, gone, revived, aliceVars, mailVars, bobVars>>

\* set_config_from_qr(WithdrawVerify*): offered when the auth token is known here.
Withdraw(d, q) ==
  /\ Spend("steps") /\ code[q] # None /\ Exists(d, "auth", q)
  /\ tokens' = [tokens EXCEPT ![d] = DeleteFk(@, q)]
  /\ SyncToOthers(d, [op |-> "del", inv |-> code[q], auth |-> q, ts |-> now])
  /\ gone' = gone \union {q}
  /\ UNCHANGED <<now, code, revived, aliceVars, mailVars, bobVars>>

\* set_config_from_qr(ReviveVerify*)
Revive(d, q) ==
  /\ Spend("steps") /\ code[q] # None /\ ~Exists(d, "auth", q)
  /\ LET rows == Save(Save(tokens[d], "inv", code[q], now), "auth", q, now)
     IN /\ tokens' = [tokens EXCEPT ![d] = rows]
        /\ SyncTokens(d, rows, q)
  /\ revived' = revived \union {q}
  /\ UNCHANGED <<now, code, gone, aliceVars, mailVars, bobVars>>

\* add_qr_token
AddQrToken(rows, it) == Save(Save(rows, "inv", it.inv, it.ts), "auth", it.auth, it.ts)

\* A plausible bug: the deletion is keyed by the invite number alone.
DeleteInvOnly(rows, it) == {r \in rows : r.ns = "inv" => r.of # it.inv}

\* delete_qr_token: every token of a foreign key that has the invite number, or the
\* auth token if it is not younger than the item.
Touched(rows, it) ==
  {r.of : r \in {h \in rows :
     \/ h.ns = "inv" /\ h.of = it.inv
     \/ h.ns = "auth" /\ h.of = it.auth /\ h.ts <= it.ts}}
DeleteQrToken(rows, it) == {r \in rows : \A q \in Touched(rows, it) : ~SameFk(q, r.of)}

\* execute_sync_items for one item
ExecuteSync(d) ==
  /\ sync[d] # <<>>
  /\ LET it == Head(sync[d])
     IN tokens' = [tokens EXCEPT ![d] = IF it.op = "add" THEN AddQrToken(@, it)
                                        ELSE DeleteQrToken(@, it)]
  /\ sync' = [sync EXCEPT ![d] = Tail(@)]
  /\ UNCHANGED <<now, code, gone, revived, aliceVars, mailVars, bobVars, left>>

\* Contact::block on one device
Block(d) ==
  /\ Spend("steps") /\ ~blocked[d]
  /\ blocked' = [blocked EXCEPT ![d] = TRUE]
  /\ UNCHANGED <<now, tokenVars, verified, member, selfSent, admitted, fresh, mailVars, bobVars>>

----------------------------------------------------------------------------
(* Bob                                                                    *)

Post(step, q) == mail' = [mail EXCEPT ![<<step, q>>] = Devices]

\* bob::send_handshake_message(BobHandshakeMsg::Request)
FirstStep(q) == IF q \in V3 THEN "request-pubkey" ELSE "request"

\* bob::start_protocol.  Already in the chat: nothing is sent.  Alice's key is known: the
\* shortcut sends the auth token and keeps no state.  Otherwise the key is asked for and
\* the invite is kept in bobstate.
Scan(q) ==
  /\ code[q] # None /\ q \notin asked /\ Spend("scans")
  /\ asked' = asked \union {q}
  /\ IF Fk[q] # "" /\ Fk[q] \in joined THEN UNCHANGED <<mail, bobstate>>
     ELSE IF bobKey THEN Post("request-with-auth", q) /\ UNCHANGED bobstate
     ELSE Post(FirstStep(q), q) /\ bobstate' = bobstate \union {q}
  /\ UNCHANGED <<now, tokenVars, aliceVars, doomed, lost, inbox, bobKey, joined>>

\* A plausible bug: the invites are deleted before they are answered.
BobGetsKeyForgets(m) ==
  /\ m \in inbox /\ m[1] \in {"auth-required", "pubkey"}
  /\ bobKey' = TRUE
  /\ bobstate' = {} /\ inbox' = inbox \ {m}
  /\ UNCHANGED <<now, tokenVars, aliceVars, mail, doomed, lost, asked, joined, left>>

\* handle_auth_required_or_pubkey: every row of bobstate is answered and deleted.
BobGetsKey(m) ==
  /\ m \in inbox /\ m[1] \in {"auth-required", "pubkey"}
  /\ bobKey' = TRUE
  /\ mail' = [n \in DOMAIN mail |-> IF n[1] = "request-with-auth" /\ n[2] \in bobstate
                                    THEN Devices ELSE mail[n]]
  /\ bobstate' = {} /\ inbox' = inbox \ {m}
  /\ UNCHANGED <<now, tokenVars, aliceVars, doomed, lost, asked, joined, left>>

\* The same, stopped after the answers were queued and before the rows and the message
\* were dealt with: everything is done again.
BobGetsKeyInterrupted(m) ==
  /\ Spend("faults")
  /\ m \in inbox /\ m[1] \in {"auth-required", "pubkey"}
  /\ bobKey' = TRUE
  /\ mail' = [n \in DOMAIN mail |-> IF n[1] = "request-with-auth" /\ n[2] \in bobstate
                                    THEN Devices ELSE mail[n]]
  /\ UNCHANGED <<now, tokenVars, aliceVars, doomed, lost, inbox, bobstate, asked, joined>>

\* ContactConfirm, and MemberAdded with our address: JoinerProgress::Succeeded, and for a
\* group the message is propagated and makes Bob a member.
BobSucceeds(m) ==
  /\ m \in inbox /\ m[1] \in {"contact-confirm", "member-added"}
  /\ joined' = joined \union {Fk[m[2]]}
  /\ inbox' = inbox \ {m}
  /\ UNCHANGED <<now, tokenVars, aliceVars, mailVars, bobstate, bobKey, asked, left>>

----------------------------------------------------------------------------
(* Alice's side of the handshake                                          *)

\* The device is through with message m.  Done deletes it from the server later, Ignore
\* leaves it to the other devices.  An interrupted reception keeps it for d.
Through(d, m, done, again) ==
  /\ IF again THEN Spend("faults") /\ UNCHANGED mailVars
     ELSE /\ UNCHANGED left
          /\ mail' = [mail EXCEPT ![m] = @ \ {d}]
          /\ doomed' = IF done THEN doomed \union {m} ELSE doomed
          /\ UNCHANGED lost

Reply(step, q) == inbox' = inbox \union {<<step, q>>}

\* Request: answered when the invite number is known, whoever it is from.
HandleRequest(d, q, again) ==
  /\ d \in mail[<<"request", q>>]
  /\ LET ok == Exists(d, "inv", code[q])
     IN /\ IF ok THEN Reply("auth-required", q) ELSE UNCHANGED inbox
        /\ Through(d, <<"request", q>>, ok, again)
  /\ UNCHANGED <<now, tokenVars, aliceVars, bobstate, bobKey, asked, joined>>

\* RequestPubkey: answered when the auth token is known and the sender not blocked.
HandleRequestPubkey(d, q, again) ==
  /\ d \in mail[<<"request-pubkey", q>>]
  /\ LET ok == Exists(d, "auth", q) /\ ~blocked[d]
     IN /\ IF ok THEN Reply("pubkey", q) ELSE UNCHANGED inbox
        /\ Through(d, <<"request-pubkey", q>>, ok, again)
  /\ UNCHANGED <<now, tokenVars, aliceVars, bobstate, bobKey, asked, joined>>

\* A plausible bug: any code that was ever printed is accepted.
AnyAuth(d, q) == code[q] # None

\* The auth token is the one of the code and is in the table.
AuthValid(d, q) == Exists(d, "auth", q)

\* time() < timestamp + VERIFICATION_TIMEOUT_SECONDS
NotExpired(d, q) == \E r \in tokens[d] :
                      r.ns = "auth" /\ r.of = q /\ now < r.ts + Timeout

\* RequestWithAuth with a bad token: Ignore.
RefuseAuth(d, q) ==
  /\ d \in mail[<<"request-with-auth", q>>] /\ ~AuthValid(d, q)
  /\ Through(d, <<"request-with-auth", q>>, FALSE, FALSE)
  /\ UNCHANGED <<now, tokenVars, aliceVars, bobVars>>

\* RequestWithAuth: verify while the token is fresh, ignore a blocked sender only after
\* that, then confirm the contact (and leave the message to the other devices) or add the
\* member (and delete the message so that no other device adds him again).
AcceptAuth(d, q, again) ==
  /\ d \in mail[<<"request-with-auth", q>>] /\ AuthValid(d, q)
  /\ verified' = [verified EXCEPT ![d] = @ \/ NotExpired(d, q)]
  /\ fresh' = (fresh \/ NotExpired(d, q))
  /\ LET group == Fk[q] # ""
         step  == IF group THEN "member-added" ELSE "contact-confirm"
         m     == <<"request-with-auth", q>>
     IN IF blocked[d]
        THEN /\ Through(d, m, FALSE, again)
             /\ UNCHANGED <<member, selfSent, admitted, inbox>>
        ELSE /\ member' = [member EXCEPT ![d] = IF group THEN @ \union {Fk[q]} ELSE @]
             /\ admitted' = admitted \union {Fk[q]}
             /\ Reply(step, q)
             /\ selfSent' = [e \in Devices |-> IF e = d THEN selfSent[e]
                                               ELSE selfSent[e] \union {<<step, q>>}]
             /\ Through(d, m, group, again)
  /\ UNCHANGED <<now, tokenVars, blocked, bobstate, bobKey, asked, joined>>

\* observe_securejoin_on_other_device: a self-sent confirmation marks Bob as verified here
\* too; a blocked Bob stops only the event, and member-added is propagated either way.
Observe(d, m) ==
  /\ m \in selfSent[d]
  /\ selfSent' = [selfSent EXCEPT ![d] = @ \ {m}]
  /\ verified' = [verified EXCEPT ![d] = TRUE]
  /\ member' = [member EXCEPT ![d] = IF m[1] = "member-added" THEN @ \union {Fk[m[2]]} ELSE @]
  /\ UNCHANGED <<now, tokenVars, blocked, admitted, fresh, mailVars, bobVars, left>>

----------------------------------------------------------------------------
(* The server and the clock                                               *)

\* needs_delete_job: the message disappears from the server for all devices.
Expunge(m) ==
  /\ m \in doomed
  /\ doomed' = doomed \ {m} /\ mail' = [mail EXCEPT ![m] = {}]
  /\ UNCHANGED <<lost, now, tokenVars, aliceVars, bobVars, left>>

LoseToAlice(m) ==
  /\ Spend("faults") /\ lost' = TRUE
  /\ mail[m] = Devices
  /\ mail' = [mail EXCEPT ![m] = {}]
  /\ UNCHANGED <<now, tokenVars, aliceVars, doomed, bobVars>>

LoseToBob(m) ==
  /\ Spend("faults") /\ lost' = TRUE
  /\ m \in inbox /\ inbox' = inbox \ {m}
  /\ UNCHANGED <<now, tokenVars, aliceVars, mail, doomed, bobstate, bobKey, asked, joined>>

Tick == /\ now < MaxTime /\ now' = now + 1
        /\ UNCHANGED <<tokenVars, aliceVars, mailVars, bobVars, left>>

Next ==
  \/ \E d \in Devices, q \in Qrs :
       \/ NewQr(d, q) \/ Withdraw(d, q) \/ Revive(d, q) \/ RefuseAuth(d, q)
       \/ \E again \in BOOLEAN : \/ HandleRequest(d, q, again)
                                 \/ HandleRequestPubkey(d, q, again)
                                 \/ AcceptAuth(d, q, again)
  \/ \E d \in Devices : ExecuteSync(d) \/ Block(d) \/ \E m \in selfSent[d] : Observe(d, m)
  \/ \E q \in Qrs : Scan(q)
  \/ \E m \in inbox : BobGetsKey(m) \/ BobGetsKeyInterrupted(m) \/ BobSucceeds(m) \/ LoseToBob(m)
  \/ \E m \in ToAlice \X Qrs : Expunge(m) \/ LoseToAlice(m)
  \/ Tick

\* Mail is fetched, sync items are executed and doomed messages are deleted eventually:
\* the inbox loop of every device runs again and again while IO is started.
Fairness ==
  /\ \A d \in Devices : /\ WF_vars(ExecuteSync(d))
                        /\ WF_vars(\E m \in selfSent[d] : Observe(d, m))
                        /\ WF_vars(\E q \in Qrs : \/ HandleRequest(d, q, FALSE)
                                                  \/ HandleRequestPubkey(d, q, FALSE)
                                                  \/ RefuseAuth(d, q)
                                                  \/ AcceptAuth(d, q, FALSE))
  /\ WF_vars(\E m \in inbox : BobGetsKey(m) \/ BobSucceeds(m))

Spec == Init /\ [][Next]_vars /\ Fairness

----------------------------------------------------------------------------
TypeOK ==
  /\ now \in 0..MaxTime
  /\ tokens \in [Devices -> SUBSET Row] /\ sync \in [Devices -> Seq(Item)]
  /\ code \in [Qrs -> Qrs \union {None}]
  /\ verified \in [Devices -> BOOLEAN] /\ blocked \in [Devices -> BOOLEAN]
  /\ member \in [Devices -> SUBSET Keys]
  /\ mail \in [ToAlice \X Qrs -> SUBSET Devices] /\ doomed \subseteq ToAlice \X Qrs
  /\ selfSent \in [Devices -> SUBSET (ToBob \X Qrs)] /\ inbox \subseteq ToBob \X Qrs
  /\ bobstate \subseteq Qrs /\ asked \subseteq Qrs
  /\ joined \subseteq Keys /\ admitted \subseteq Keys

(* A code that Alice withdrew and never revived is honoured by none of her *)
(* devices once the devices have executed each other's sync items          *)
(* (sync_qr_code_token_deletion: "so that the token also gets deleted on   *)
(* the other devices"), whatever other codes of the same chat were made,   *)
(* revived or withdrawn meanwhile on either device.                        *)
WithdrawnGone ==
  (\A d \in Devices : sync[d] = <<>>) =>
     \A d \in Devices, q \in gone \ revived : ~Exists(d, "auth", q)

(* Only new QR codes cause a verification on Alice's side: no device of    *)
(* hers considers Bob verified unless some device accepted an auth token   *)
(* younger than VERIFICATION_TIMEOUT_SECONDS.  Does not hold, see README.   *)
OnlyNewCodesVerify == (\E d \in Devices : verified[d]) => fresh

(* Whoever scans a code that stays honoured gets in: as long as no message *)
(* is lost and Alice neither withdraws codes nor blocks, the handshake of  *)
(* each scanned code ends with Bob told that he is in.                     *)
JoinCompletes == \A q \in Qrs :
  (q \in asked) ~> (\/ Fk[q] \in joined
                     \/ lost \/ gone # {} \/ \E d \in Devices : blocked[d])

(* The handshake implements an invitation: printed codes are honoured or   *)
(* not, and Bob gets in only with a scanned code honoured at that moment.  *)
Inv == INSTANCE Invitation
         WITH Codes <- Qrs, PlaceOf <- Fk,
              printed <- {q \in Qrs : code[q] # None},
              honoured <- {q \in Qrs : \E d \in Devices : Exists(d, "auth", q)},
              presented <- asked, let_in <- admitted, inside <- joined
ImplementsInvitation == Inv!ASpec
=============================================================================
