---------------------------- MODULE OutboxPolicy ----------------------------
(***************************************************************************)
(* The delivery policy of the owner outbox (realtimeGoals/outboxPolicy.ts, *)
(* a file of pure functions): which route an undelivered item takes, and   *)
(* what the Twilio statuses of the parts of one SMS add up to.             *)
(*                                                                         *)
(* A time limit is a Boolean here: TRUE while it runs, FALSE once it has   *)
(* run out.  Slack and Telegram take the same code path and are one        *)
(* channel, "chat"; every other non-phone channel is the "surface".        *)
(***************************************************************************)
EXTENDS Naturals, Sequences

CONSTANTS None,             \* an absent value
          VoiceOn, SmsOn,   \* DeliveryCapabilities of the box
          TextAfterMiss,    \* prefs.textResultAfterMissedCall
          TextOutsideHours, \* prefs.textOutsideCallHours
          MaxMisses         \* MAX_CONSECUTIVE_MISSES

ASSUME PolicyAssumption ==
  /\ VoiceOn \in BOOLEAN /\ SmsOn \in BOOLEAN
  /\ TextAfterMiss \in BOOLEAN /\ TextOutsideHours \in BOOLEAN
  /\ MaxMisses \in Nat \ {0}

TextRoutes == {"sms", "chat"}
SendRoutes == TextRoutes \cup {"surface"}
Routes     == SendRoutes \cup {"voice"}
Channels   == {"sms", "chat", "pstn_voice", "surface"}

RouteForChannel(channel) ==
  IF channel = "pstn_voice" THEN "voice" ELSE channel

\* The first rule whose condition holds decides.
FirstMatch(rules) ==
  rules[CHOOSE k \in DOMAIN rules :
          rules[k].when /\ \A j \in 1..(k - 1) : ~rules[j].when].route

(***************************************************************************)
(* Route of one item.  it: its record; natural: the route of the channel   *)
(* it was asked on; p: what is known of the owner, with                    *)
(*   requested  "call me back" and still actionable                        *)
(*   onCall     on an unlocked call                                        *)
(*   texting    the text route of the owner's latest message, if recent    *)
(*   default    the owner-wide route override, if it has not run out       *)
(***************************************************************************)
ResolveRoute(it, natural, p) ==
  LET usableText == /\ p.texting # None
                    /\ ~(p.texting = "sms" /\ it.rejected)
  IN FirstMatch(<<
       [when |-> it.override # None, route |-> it.override],
       [when |-> natural = "voice" /\ VoiceOn /\ p.requested, route |-> "voice"],
       [when |-> natural = "voice" /\ p.onCall, route |-> "voice"],
       [when |-> usableText /\ natural \in {"voice", p.texting}, route |-> p.texting],
       [when |-> natural # "voice", route |-> natural],
       [when |-> p.default \notin {None, "voice"}, route |-> p.default],
       [when |-> ~VoiceOn, route |-> "sms"],
       [when |-> TextAfterMiss /\ it.missed /\ ~p.requested /\ ~it.rejected,
        route |-> "sms"],
       [when |-> TRUE, route |-> "voice"] >>)

\* Mutant: an earlier rejection is forgotten.
SmsUsableAgain(it) == SmsOn

\* A carrier rejection of an earlier SMS of this item rules SMS out for good.
SmsUsable(it) == SmsOn /\ ~it.rejected

(***************************************************************************)
(* Twilio statuses of the parts of one SMS; "unread" is a failed status    *)
(* read.  timedOut: SMS_RECEIPT_TIMEOUT_MS has passed since the send.      *)
(***************************************************************************)
SmsStatuses == {"queued", "sent", "delivered", "undelivered"}

\* Mutant: the status of a part stands for the message.
StatusOfAPart(statuses, timedOut) == statuses[CHOOSE p \in DOMAIN statuses : TRUE]

\* Mutant: once the receipt is late the SMS counts as sent.
SentWhenLate(statuses, timedOut) ==
  LET seen == {statuses[p] : p \in DOMAIN statuses}
  IN CASE "undelivered" \in seen -> "undelivered"
       [] seen = {"delivered"} -> "delivered"
       [] OTHER -> IF timedOut THEN "sent" ELSE "pending"

SmsDeliveryVerdict(statuses, timedOut) ==
  LET seen == {statuses[p] : p \in DOMAIN statuses}
  IN CASE "undelivered" \in seen -> "undelivered"
       [] seen = {"delivered"} -> "delivered"
       [] OTHER -> IF ~timedOut THEN "pending"
                   ELSE IF seen # {} /\ seen \subseteq {"sent", "delivered"}
                        THEN "sent" ELSE "unconfirmed"
=============================================================================
