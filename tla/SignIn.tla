------------------------------- MODULE SignIn -------------------------------
(***************************************************************************)
(* Signing in with a six-digit code sent by e-mail (accountsController.js, *)
(* accounts/store.js), for one address: the code's row in login_codes, the *)
(* wrong codes counted per code, per client and per day over windows that  *)
(* start again, the account, its sessions and the browsers' cookies.       *)
(*                                                                         *)
(* Every handler is synchronous between its first read and its last write, *)
(* so a handler is one step; what varies is the order of the requests and  *)
(* the time between them.  Time is counted in ticks; several requests may  *)
(* fall in one tick.  A code is the number of its sending: a client types  *)
(* any code sent so far, or Wrong digits.  The purge, run by the sign-in   *)
(* of any address, may come at any moment.                                 *)
(***************************************************************************)
EXTENDS Integers, Sequences, FiniteSets, Functions

CONSTANTS
  Clients,      \* the browsers, each behind an address of its own (req.ip)
  Ttl,          \* LOGIN_CODE_TTL_MS, in ticks
  Resend,       \* LOGIN_CODE_RESEND_MS
  Hour,         \* the window of the codes sent
  Day,          \* DAY_MS, the window of the wrong codes
  MaxAttempts,  \* LOGIN_CODE_MAX_ATTEMPTS
  MaxSends,     \* LOGIN_CODE_MAX_SENDS_PER_HOUR
  PerClient,    \* LOGIN_CODE_MAX_FAILURES_PER_DAY
  PerAddress,   \* LOGIN_CODE_MAX_FAILURES_PER_DAY_TOTAL
  MaxTime,      \* bound: the last tick
  MaxCodes,     \* bound: codes sent in a behaviour
  None

ASSUME LimitsAssumption ==
  /\ {Ttl, Resend, Hour, Day, MaxAttempts, MaxSends, PerClient, PerAddress} \subseteq Nat \ {0}
  /\ {MaxTime, MaxCodes} \subseteq Nat

\* The windows nest as in the source: a minute, ten minutes, an hour, a day.
ASSUME WindowsAssumption == Resend <= Ttl /\ Ttl <= Hour /\ Hour <= Day

ASSUME NoneAssumption == None \notin Clients /\ None \notin Nat

VARIABLES
  now,       \* Date.now()
  row,       \* login_codes' row of the address, or None
  failed,    \* client -> login_failures' row of the address and client
  account,   \* users' row: "none", "open" or "disabled"
  sessions,  \* the account's rows of user_sessions
  cookie,    \* client -> the session its cookie names, or None
  sent,      \* history: the number of codes sent
  opened,    \* history: the codes that signed somebody in, in order
  tries,     \* history: the wrong codes checked against the last code sent
  wrongAt,   \* history: client -> tick of the last day -> wrong codes checked then
  missedAt,  \* history: tick of the last day -> wrong codes since the last right one
  sentAt     \* history: tick of the last hour -> codes sent since then

vars == <<now, row, failed, account, sessions, cookie, sent, opened, tries, wrongAt, missedAt, sentAt>>
history == <<opened, tries, wrongAt, missedAt, sentAt>>

Times == 0 .. MaxTime
Codes == 1 .. MaxCodes
Wrong == 0
Never == [t \in Times |-> 0]

\* A row of login_codes.
Rows == [code : Codes, expires : Nat, attempts : 0 .. MaxAttempts, sentAt : Times,
         sends : 1 .. MaxSends, windowStart : Times,
         failures : 0 .. PerAddress, failuresSince : Times \cup {None}]

ASSUME NoneIsNoRow == None \notin Rows

\* A window of counted wrong codes: how many, and since when (None: no window).
NoWindow == [failures |-> 0, since |-> None]

Init ==
  /\ now = 0
  /\ row = None
  /\ failed = [c \in Clients |-> NoWindow]
  /\ account = "none"
  /\ sessions = {}
  /\ cookie = [c \in Clients |-> None]
  /\ sent = 0
  /\ opened = << >>
  /\ tries = 0
  /\ wrongAt = [c \in Clients |-> Never]
  /\ missedAt = Never
  /\ sentAt = Never

-----------------------------------------------------------------------------
\* dailyFailuresOf: a window a day old counts for nothing.
DailyFailures(w) ==
  IF w.since = None \/ now - w.since >= Day THEN NoWindow ELSE w

\* The row's own window; an address without a row has none.
RowWindow == IF row = None THEN NoWindow ELSE [failures |-> row.failures, since |-> row.failuresSince]

\* lockOf: the address takes PerAddress wrong codes a day, a client PerClient.
Locked(c) ==
  \/ DailyFailures(RowWindow).failures >= PerAddress
  \/ DailyFailures(failed[c]).failures >= PerClient

\* One more wrong code in a window, which the first one of a day opens.
CountedIn(w) ==
  LET daily == DailyFailures(w)
  IN  [failures |-> daily.failures + 1, since |-> IF daily.since = None THEN now ELSE daily.since]

\* The hour's window of codes sent: the one open, or a new one.
SendWindow ==
  IF row # None /\ now - row.windowStart < Hour
  THEN [start |-> row.windowStart, sends |-> row.sends + 1]
  ELSE [start |-> now, sends |-> 1]

\* Mutation: the new code's row replaces the last one whole.
RequestCodeForgets(c) ==
  /\ sent < MaxCodes
  /\ account # "disabled"
  /\ ~Locked(c)
  /\ row # None => now - row.sentAt >= Resend
  /\ SendWindow.sends <= MaxSends
  /\ sent' = sent + 1
  /\ row' = [code |-> sent + 1, expires |-> now + Ttl, attempts |-> 0, sentAt |-> now,
             sends |-> SendWindow.sends, windowStart |-> SendWindow.start,
             failures |-> 0, failuresSince |-> None]
  /\ tries' = 0
  /\ sentAt' = [sentAt EXCEPT ![now] = @ + 1]
  /\ UNCHANGED <<now, failed, account, sessions, cookie, opened, wrongAt, missedAt>>

\* requestCode with issueLoginCode: a new code replaces the last, its tries start from
\* zero, the day's wrong codes stay.  The mail may fail to leave: the row is written all the same.
RequestCode(c) ==
  /\ sent < MaxCodes
  /\ account # "disabled"
  /\ ~Locked(c)
  /\ row # None => now - row.sentAt >= Resend
  /\ SendWindow.sends <= MaxSends
  /\ sent' = sent + 1
  /\ row' = [code |-> sent + 1, expires |-> now + Ttl, attempts |-> 0, sentAt |-> now,
             sends |-> SendWindow.sends, windowStart |-> SendWindow.start,
             failures |-> RowWindow.failures, failuresSince |-> RowWindow.since]
  /\ tries' = 0
  /\ sentAt' = [sentAt EXCEPT ![now] = @ + 1]
  /\ UNCHANGED <<now, failed, account, sessions, cookie, opened, wrongAt, missedAt>>

\* Mutation: the code's tries are left to the day's counts.
CheckedByTheDay(c) == row # None /\ row.expires > now /\ ~Locked(c)

\* verifyLoginCode gets as far as comparing the code.
Checked(c) == row # None /\ row.expires > now /\ row.attempts < MaxAttempts /\ ~Locked(c)

\* A wrong code, or one replaced since: counted for the code, the address and the client.
WrongCode(c, g) ==
  /\ Checked(c)
  /\ g # row.code
  /\ LET address == CountedIn(RowWindow)
     IN  row' = [row EXCEPT !.attempts = @ + 1, !.failures = address.failures, !.failuresSince = address.since]
  /\ failed' = [failed EXCEPT ![c] = CountedIn(@)]
  /\ tries' = tries + 1
  /\ wrongAt' = [wrongAt EXCEPT ![c][now] = @ + 1]
  /\ missedAt' = [missedAt EXCEPT ![now] = @ + 1]
  /\ UNCHANGED <<now, account, sessions, cookie, sent, opened, sentAt>>

-----------------------------------------------------------------------------
\* Mutation: the session the new one replaces stays.
OpenAnotherSession(c, g) ==
  /\ sessions' = sessions \cup {g}
  /\ cookie' = [cookie EXCEPT ![c] = g]

\* openSession: the session the cookie names is deleted, a new one replaces it.
OpenSession(c, g) ==
  /\ sessions' = (sessions \ {cookie[c]}) \cup {g}
  /\ cookie' = [cookie EXCEPT ![c] = g]

\* purgeExpiredLoginCodes, for a client's wrong codes: a window over for a day goes.
Swept(w) == IF w.since # None /\ w.since < now - Day THEN NoWindow ELSE w

\* The right code signs in: the first one creates the account, a new session replaces the
\* browser's, named here by the code's number.
Admit(c, g) ==
  /\ account' = "open"
  /\ OpenSession(c, g)
  /\ opened' = Append(opened, g)
  /\ failed' = [d \in Clients |-> Swept(failed[d])]

\* Refused with the right code: a disabled account, or the console asked for by an address
\* that is no operator's.
TurnAway == UNCHANGED <<account, sessions, cookie, opened, failed>>

\* Mutation: the code is spent by a sign-in of an account that exists only.
RightCodeStays(c, g) ==
  /\ Checked(c)
  /\ g = row.code
  /\ row' = IF account = "open" THEN None ELSE row
  /\ missedAt' = Never
  /\ sentAt' = Never
  /\ (account # "disabled" /\ Admit(c, g)) \/ TurnAway
  /\ UNCHANGED <<now, sent, tries, wrongAt>>

\* The right code is spent, whether it signs in or not.
RightCode(c, g) ==
  /\ Checked(c)
  /\ g = row.code
  /\ row' = None
  /\ missedAt' = Never
  /\ sentAt' = Never
  /\ (account # "disabled" /\ Admit(c, g)) \/ TurnAway
  /\ UNCHANGED <<now, sent, tries, wrongAt>>

\* The sign-in of another address: verifyCode's purges.  A row is kept an hour past its
\* code's end, and while it still counts the day's wrong codes.
Purge ==
  /\ failed' = [c \in Clients |-> Swept(failed[c])]
  /\ row' = IF /\ row # None
               /\ row.expires < now - Hour
               /\ row.failuresSince # None => row.failuresSince < now - Day
            THEN None ELSE row
  /\ UNCHANGED <<now, account, sessions, cookie, sent, history>>

-----------------------------------------------------------------------------
\* touchSession and purgeExpiredSessions: a session nobody used for its 30 days goes, when
\* it is next named or with the next sign-in.  A month is beyond the windows' horizon, so
\* it may come at any moment.
Expire(s) ==
  /\ s \in sessions
  /\ sessions' = sessions \ {s}
  /\ UNCHANGED <<now, row, failed, account, cookie, sent, history>>

SignedIn(c) == account = "open" /\ cookie[c] \in sessions

\* logout, of this browser or of them all.
Logout(c) ==
  /\ cookie[c] # None
  /\ \/ sessions' = sessions \ {cookie[c]}
     \/ SignedIn(c) /\ sessions' = {}
  /\ cookie' = [cookie EXCEPT ![c] = None]
  /\ UNCHANGED <<now, row, failed, account, sent, history>>

\* deleteMine with deleteUser: the sessions, the code and its counts go with the account.
DeleteAccount(c) ==
  /\ SignedIn(c)
  /\ account' = "none"
  /\ sessions' = {}
  /\ cookie' = [cookie EXCEPT ![c] = None]
  /\ row' = None
  /\ failed' = [d \in Clients |-> NoWindow]
  /\ wrongAt' = [d \in Clients |-> Never]
  /\ missedAt' = Never
  /\ sentAt' = Never
  /\ UNCHANGED <<now, sent, opened, tries>>

\* adminSetEntitlements' `disabled`: the account's sessions go with its disabling.
Disable ==
  /\ account = "open"
  /\ account' = "disabled"
  /\ sessions' = {}
  /\ UNCHANGED <<now, row, failed, cookie, sent, history>>

Enable ==
  /\ account = "disabled"
  /\ account' = "open"
  /\ UNCHANGED <<now, row, failed, sessions, cookie, sent, history>>

\* A history keeps the ticks a span that ends with the next one holds.
Recent(h, span) == [t \in Times |-> IF now + 1 - t < span THEN h[t] ELSE 0]

Tick ==
  /\ now < MaxTime
  /\ now' = now + 1
  /\ wrongAt' = [c \in Clients |-> Recent(wrongAt[c], Day)]
  /\ missedAt' = Recent(missedAt, Day)
  /\ sentAt' = Recent(sentAt, Hour)
  /\ UNCHANGED <<row, failed, account, sessions, cookie, sent, opened, tries>>

Next ==
  \/ \E c \in Clients :
       \/ RequestCode(c) \/ Logout(c) \/ DeleteAccount(c)
       \/ \E g \in 0 .. sent : WrongCode(c, g) \/ RightCode(c, g)
  \/ \E s \in sessions : Expire(s)
  \/ Purge \/ Disable \/ Enable \/ Tick

Spec == Init /\ [][Next]_vars

-----------------------------------------------------------------------------
TypeOK ==
  /\ now \in Times
  /\ row \in Rows \cup {None}
  /\ failed \in [Clients -> [failures : 0 .. PerClient, since : Times \cup {None}]]
  /\ account \in {"none", "open", "disabled"}
  /\ sessions \subseteq Codes
  /\ cookie \in [Clients -> Codes \cup {None}]
  /\ sent \in 0 .. MaxCodes
  /\ opened \in Seq(Codes)
  /\ tries \in Nat

Total(h) == FoldFunction(+, 0, h)

\* The windows restart, so a day may hold the end of one and the start of the next: but
\* never two whole ones.  In any 24 hours a client's wrong codes, and the address's since
\* its last right one, stay below twice the day's limit, and in any hour the codes sent
\* below twice the hour's, whatever expires, is replaced or purged in between.
GuessesArePaced ==
  /\ \A c \in Clients : Total(wrongAt[c]) < 2 * PerClient
  /\ Total(missedAt) < 2 * PerAddress
  /\ Total(sentAt) < 2 * MaxSends

\* A code is good for one sign-in and MaxAttempts wrong ones, and for nothing once a newer
\* one was sent or used: codes open sessions in the order they were sent.
CodeOpensOnce ==
  /\ tries <= MaxAttempts
  /\ \A i, j \in DOMAIN opened : i < j => opened[i] < opened[j]

\* Nobody is signed in without an account that is open, and no session outlives the
\* sign-in that replaced it: every session that still runs is some browser's.
SessionsAreHeld ==
  \A s \in sessions : account = "open" /\ \E c \in Clients : cookie[c] = s
=============================================================================
