--------------------------- MODULE AccountsProps ---------------------------
(***************************************************************************)
(* What the way from the login page to the chat page must get right.       *)
(***************************************************************************)
EXTENDS Accounts

\* The state is what the code takes it for: the timer runs exactly while a
\* session is being set up, a page has a session or a notice when it is the
\* chat page, a request that is awaited was made by this client, and a code
\* or token that anybody holds was drawn before.
TypeOK ==
    /\ \A r \in users : r.email \in Emails /\ r.name \in Names /\ r.pwd \in Passwords
    /\ rowLock # 0 => rowLock \in DOMAIN job /\ At(rowLock, "insert")
    /\ \A e \in Emails : code[e] <= lastCode /\ \A k \in mailbox[e] : k <= lastCode
    /\ \A c \in Clients :
         /\ replies[c] \subseteq DOMAIN job
         /\ timer[c] <=> phase[c] = "connecting"
         /\ (conn[c] = "closed") <=> (phase[c] = "off")
         /\ notice[c] => page[c] = "chat" /\ phase[c] = "off"
         /\ (page[c] = "chat") <=> (notice[c] \/ phase[c] = "ready")

\* No two accounts share an address or a uid, and an answered registration has
\* its row, however many registrations for one address run at once: reg_user's
\* checks lock nothing, the unique keys and the row lock of user_id decide.
OneAccountPerEmail ==
    /\ UniqueKeys(users)
    /\ \A r \in DOMAIN job :
         job[r].op = "register" /\ job[r].ok =>
            \E q \in users : q.uid = job[r].uid /\ q.email = job[r].email /\ q.name = job[r].name

\* The code that arrives by mail is the one in Redis, and asking again brings
\* no other (docs/04-data-model.md, reuse of the code): GetVerifyCode reads,
\* draws, stores and mails in four steps.  Not so for an address whose code
\* expired or could not be read, or that was asked for twice at once.
CodeIsStable == \A e \in Emails \ disturbed : mailbox[e] \subseteq {code[e]}

\* The session a client ends up in is the one of the address its user typed
\* last: answers that come after the transfer timer, a session that timed out
\* and a login begun again do not put the user into another account.
ReadyAsSubmitted ==
    \A c \in Clients : phase[c] = "ready" =>
        \E r \in users : r.uid = pending[c].uid /\ r.email = wanted[c]

\* A result on the search page is a user with the uid or the name that was
\* searched last, though answers carry no trace of their question: a search
\* that was cleared, or that another connection asked, answers no later one.
SearchAnswersText ==
    \A c \in Clients : search[c].state = "found" =>
        \E r \in users : r.uid = search[c].result /\ search[c].text \in {r.uid, r.name}

\* No page stays busy, whatever the servers and the network do: each request
\* has its transfer timer, and connecting and logging in have the session's.
FormsAreFreed ==
    \A c \in Clients : (form[c].busy \/ form[c].codeBusy) ~> (~form[c].busy /\ ~form[c].codeBusy)
=============================================================================
