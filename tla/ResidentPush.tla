---------------------------- MODULE ResidentPush ----------------------------
(* Web Push for the resident sessions: a browser that subscribes and         *)
(* unsubscribes from the settings, the server's table of subscriptions, the  *)
(* pushes a reply of a resident session or a report of the assistant sets    *)
(* off, the notifications shown for them and what a click on one opens.      *)
(* Requests may be lost, or arrive when the page that made them is gone.     *)
(* Left out: permissions, keys and texts; unread counts (ResidentUnread).    *)
EXTENDS Naturals

CONSTANTS
    Tokens, NoToken,  \* login tokens
    Chats, NoChat,    \* resident sessions and the assistant's child sessions
    Owner,            \* chat -> token whose configuration names it last, or NoToken
    AssistantToken,   \* the token of the assistant page, or NoToken
    MaxEndpoint       \* bound on the subscriptions a browser makes

VARIABLES
    login,      \* token of the page
    sub,        \* endpoint of the browser's subscription, or 0
    issued,     \* endpoints handed out so far
    gone,       \* endpoints the push service does not know any more
    pushOn,     \* what the settings show
    wait,       \* the toggle under way: "none", "on" or "off"
    answered,   \* the server has handled the toggle's request
    requests,   \* POSTs on their way
    row,        \* the server's table: endpoint -> token, or NoToken
    recent,     \* chats the user has written to within the detector's window
    outgoing,   \* pushes the push service has still to answer
    shown,      \* notifications: tag -> chat, or NoChat
    page,       \* "closed", "starting" or "listening"
    request,    \* chat the assistant page is asked to open, or NoChat
    confirmed,  \* history: how the last toggle of this login ended
    muddled     \* history: an earlier request was still on its way when it began
browser == <<login, sub, issued, gone, pushOn, wait, answered, requests, confirmed, muddled>>
notices == <<shown, page, request>>
pushVars == <<browser, row, recent, outgoing, notices>>

Endpoints == 1..MaxEndpoint
Post == [kind : {"on", "off"}, endpoint : Endpoints, token : Tokens, own : BOOLEAN]
Tags == Chats \cup {"resident-proactive"}
Push == [endpoint : Endpoints, tag : Tags, chat : Chats]

-----------------------------------------------------------------------------
(* The settings of a page.                                                   *)

Asked(kind, e) == requests \cup {[kind |-> kind, endpoint |-> e, token |-> login, own |-> TRUE]}
Disowned == {[r EXCEPT !.own = FALSE] : r \in requests}
OnItsWay(e) == \E r \in requests : r.endpoint = e

\* togglePush and subscribePush: a browser that has a subscription gets the same again.
ToggleOn ==
    /\ page # "closed" /\ wait = "none" /\ ~pushOn
    /\ sub # 0 \/ issued < MaxEndpoint
    /\ LET e == IF sub # 0 THEN sub ELSE issued + 1
       IN  /\ sub' = e
           /\ issued' = IF sub # 0 THEN issued ELSE e
           /\ requests' = Asked("on", e)
           /\ muddled' = (sub # 0 /\ (muddled \/ OnItsWay(sub)))
    /\ wait' = "on" /\ answered' = FALSE /\ confirmed' = "none"
    /\ UNCHANGED <<login, gone, pushOn, row, recent, outgoing, notices>>

\* togglePush and unsubscribePush: that the browser fails to unsubscribe is ignored.
ToggleOff ==
    /\ page # "closed" /\ wait = "none" /\ pushOn
    /\ confirmed' = "none"
    /\ IF sub = 0
       THEN pushOn' = FALSE /\ UNCHANGED <<sub, gone, requests, muddled, wait, answered>>
       ELSE /\ requests' = Asked("off", sub)
            /\ muddled' = (muddled \/ OnItsWay(sub))
            /\ \/ sub' = 0 /\ gone' = gone \cup {sub}
               \/ UNCHANGED <<sub, gone>>
            /\ wait' = "off" /\ answered' = FALSE
            /\ UNCHANGED pushOn
    /\ UNCHANGED <<login, issued, row, recent, outgoing, notices>>

\* The answer comes, or the request fails, which does not keep it from arriving.
ToggleEnds ==
    /\ wait # "none"
    /\ wait' = "none"
    /\ \E ok \in {FALSE, answered} :
         /\ pushOn' = IF wait = "on" THEN pushOn \/ ok ELSE FALSE
         /\ confirmed' = IF (wait = "on" /\ ok /\ sub # 0) \/ (wait = "off" /\ (ok \/ sub = 0))
                         THEN wait ELSE "none"
    /\ requests' = Disowned
    /\ UNCHANGED <<login, sub, issued, gone, answered, muddled, row, recent, outgoing, notices>>

\* isPushSubscribed, as the settings are opened: the server is not asked.
SettingsOpen ==
    /\ page # "closed" /\ pushOn' = (sub # 0)
    /\ UNCHANGED <<login, sub, issued, gone, wait, answered, requests, confirmed, muddled, row,
                   recent, outgoing, notices>>

\* saveToken and logout: the page is loaded anew with another token; the subscription stays.
SwitchToken(t) ==
    /\ t # login /\ login' = t /\ confirmed' = "none"
    /\ wait' = "none" /\ pushOn' = FALSE /\ requests' = Disowned
    /\ page' = "starting" /\ request' = NoChat
    /\ UNCHANGED <<sub, issued, gone, answered, muddled, row, recent, outgoing, shown>>

\* The page is loaded anew, or closed.
Reload(p) ==
    /\ page' = p /\ request' = NoChat
    /\ wait' = "none" /\ pushOn' = FALSE /\ requests' = Disowned
    /\ UNCHANGED <<login, sub, issued, gone, answered, confirmed, muddled, row, recent, outgoing,
                   shown>>

\* The push service drops a subscription.
Expires ==
    /\ sub # 0 /\ gone' = gone \cup {sub} /\ sub' = 0 /\ confirmed' = "none"
    /\ UNCHANGED <<login, issued, pushOn, wait, answered, requests, muddled, row, recent, outgoing,
                   notices>>

Lost(r) ==
    /\ requests' = requests \ {r}
    /\ UNCHANGED <<login, sub, issued, gone, pushOn, wait, answered, confirmed, muddled, row,
                   recent, outgoing, notices>>

-----------------------------------------------------------------------------
(* The server.                                                               *)

\* upsert, or deleteByEndpoint of a subscription of one's own.
RowsAfter(r) ==
    [row EXCEPT ![r.endpoint] =
        IF r.kind = "on" THEN r.token
        ELSE IF row[r.endpoint] = r.token THEN NoToken
        ELSE row[r.endpoint]]

\* POST /api/push/subscribe and /unsubscribe.
Handle(r) ==
    /\ requests' = requests \ {r}
    /\ answered' = (answered \/ r.own)
    /\ row' = RowsAfter(r)
    /\ UNCHANGED <<login, sub, issued, gone, pushOn, wait, confirmed, muddled, recent, outgoing,
                   notices>>

\* sendToToken.
SentTo(t, tag, c) ==
    outgoing \cup {[endpoint |-> e, tag |-> tag, chat |-> c] :
                      e \in {x \in Endpoints : t # NoToken /\ row[x] = t}}

\* markUserSend; the window passes; the server restarts and forgets.
UserSends(c) ==
    /\ Owner[c] # NoToken /\ recent' = recent \cup {c}
    /\ UNCHANGED <<browser, row, outgoing, notices>>
WindowPasses(c) == recent' = recent \ {c} /\ UNCHANGED <<browser, row, outgoing, notices>>
Restart == recent' = {} /\ outgoing' = {} /\ UNCHANGED <<browser, row, notices>>

\* bumpResidentUnread, for content of a resident session.
ResidentReply(c) ==
    /\ Owner[c] # NoToken
    /\ outgoing' = IF c \in recent THEN outgoing ELSE SentTo(Owner[c], "resident-proactive", c)
    /\ UNCHANGED <<browser, row, recent, notices>>

\* POST /internal/assistant/notify, "done" or "stuck".
AssistantNotify(c) ==
    /\ outgoing' = SentTo(AssistantToken, c, c)
    /\ UNCHANGED <<browser, row, recent, notices>>

\* The push service takes a push, and the browser shows it: one notification for a tag.
Delivered(p) ==
    /\ p.endpoint = sub
    /\ outgoing' = outgoing \ {p}
    /\ shown' = [shown EXCEPT ![p.tag] = p.chat]
    /\ UNCHANGED <<browser, row, recent, page, request>>

\* 404 or 410: the subscription is deleted.  Other failures are only logged.
Refused(p) ==
    /\ outgoing' = outgoing \ {p}
    /\ row' = IF p.endpoint \in gone THEN [row EXCEPT ![p.endpoint] = NoToken] ELSE row
    /\ UNCHANGED <<browser, recent, notices>>

-----------------------------------------------------------------------------
(* Opening a chat from a notification.                                       *)

\* notificationclick: an open page is told, which helps only if it listens; a new page
\* finds the chat in its URL.
Click(tag) ==
    /\ shown[tag] # NoChat
    /\ shown' = [shown EXCEPT ![tag] = NoChat]
    /\ page' = IF page = "closed" THEN "starting" ELSE page
    /\ request' = IF page = "starting" THEN request ELSE shown[tag]
    /\ UNCHANGED <<browser, row, recent, outgoing>>

\* The effect of AssistantPage: takeOpenFromUrl, and listening from now on.
PageListens ==
    /\ page = "starting" /\ page' = "listening"
    /\ UNCHANGED <<browser, row, recent, outgoing, shown, request>>

\* The chat is shown, once the page knows its resident session.
Opened ==
    /\ page = "listening" /\ request # NoChat /\ request' = NoChat
    /\ UNCHANGED <<browser, row, recent, outgoing, shown, page>>

PushInit ==
    /\ login \in Tokens
    /\ sub = 0 /\ issued = 0 /\ gone = {}
    /\ pushOn = FALSE /\ wait = "none" /\ answered = FALSE
    /\ requests = {} /\ row = [e \in Endpoints |-> NoToken]
    /\ recent = {} /\ outgoing = {}
    /\ shown = [t \in Tags |-> NoChat] /\ page = "closed" /\ request = NoChat
    /\ confirmed = "none" /\ muddled = FALSE

PushNext ==
    \/ ToggleOn \/ ToggleOff \/ ToggleEnds \/ SettingsOpen \/ Expires \/ Restart
    \/ PageListens \/ Opened
    \/ \E t \in Tokens : SwitchToken(t)
    \/ \E p \in {"closed", "starting"} : Reload(p)
    \/ \E r \in requests : Lost(r) \/ Handle(r)
    \/ \E c \in Chats : UserSends(c) \/ WindowPasses(c) \/ ResidentReply(c) \/ AssistantNotify(c)
    \/ \E p \in outgoing : Delivered(p) \/ Refused(p)
    \/ \E tag \in Tags : Click(tag)

PushSpec == PushInit /\ [][PushNext]_pushVars
-----------------------------------------------------------------------------
PushTypeOK ==
    /\ login \in Tokens
    /\ sub \in 0..MaxEndpoint /\ issued \in 0..MaxEndpoint /\ gone \subseteq Endpoints
    /\ pushOn \in BOOLEAN /\ wait \in {"none", "on", "off"} /\ answered \in BOOLEAN
    /\ requests \subseteq Post
    /\ row \in [Endpoints -> Tokens \cup {NoToken}]
    /\ recent \subseteq Chats /\ outgoing \subseteq Push
    /\ shown \in [Tags -> Chats \cup {NoChat}]
    /\ page \in {"closed", "starting", "listening"} /\ request \in Chats \cup {NoChat}
    /\ confirmed \in {"none", "on", "off"} /\ muddled \in BOOLEAN

(* Once the settings' switch has been turned on and confirmed, the server    *)
(* knows the browser's subscription under the page's token, whatever pushes  *)
(* fail, expire or are answered late, unless an earlier request was still on *)
(* its way (push.ts:27-45, web-push-service.ts:60-74).                       *)
ConfirmedOnIsKnown ==
    confirmed = "on" /\ ~muddled => sub # 0 /\ row[sub] = login

(* Once it has been turned off and confirmed, no push for the page's token   *)
(* reaches the browser any more (push.ts:65-75, push-subscriptions.ts:45-51).*)
ConfirmedOffIsSilent ==
    confirmed = "off" /\ ~muddled => sub = 0 \/ row[sub] # login

(* A reply of a resident session that does not follow a message of its user  *)
(* is pushed to the browser its owner has switched on (index.ts:380-397).    *)
ProactiveReplyIsPushed ==
    [][\A c \in Chats :
         ResidentReply(c) /\ c \notin recent /\ Owner[c] = login /\ confirmed = "on" /\ ~muddled
           => \E p \in outgoing' : p.endpoint = sub /\ p.chat = c]_pushVars
=============================================================================
