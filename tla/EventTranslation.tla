--------------------------- MODULE EventTranslation ---------------------------
(***************************************************************************)
(* NapCatGateway.translate: one OneBot JSON object becomes a StandardEvent *)
(* or is not supported.  A raw object is a function from field names to    *)
(* values; a field it does not carry is not in its domain.  Identifiers    *)
(* are strings, "" is the empty string.  Time stamps, nicknames, previews  *)
(* and the copies of the raw payload are left out.                         *)
(***************************************************************************)
EXTENDS Naturals, Sequences

CONSTANT None                 \* Python's None

(* str(raw.get(field, "") or "") *)
Text(raw, field) == IF field \in DOMAIN raw THEN raw[field] ELSE ""

(* text or None *)
OrNone(text) == IF text = "" THEN None ELSE text

(* str(raw["group_id"]) if "group_id" in raw else None *)
GroupIn(raw) == IF "group_id" \in DOMAIN raw THEN raw.group_id ELSE None

EventSource(type, user, group) ==
    [message_type |-> type, user_id |-> user, group_id |-> group]

GroupOrPrivate(group) == IF group # None THEN "group" ELSE "private"

IsPrivate(e) == e.source.message_type = "private"
IsGroup(e)   == e.source.message_type = "group"
IsMessage(e) == e.event_type = "message"

(* The fields of the dataclass with their defaults. *)
Blank(type, source) ==
    [event_type |-> type, source |-> source, segments |-> <<>>,
     raw_message_id |-> "", sender_role |-> None, message_subtype |-> None,
     operator_id |-> None, subject_user_id |-> None, target_message_id |-> None,
     notice_type |-> None, notice_subtype |-> None,
     reply_to_message_id |-> None, reply_reference |-> None,
     mentioned_user_ids |-> <<>>, mentions_self |-> FALSE,
     mentioned_everyone |-> FALSE, reply_targets_self |-> FALSE,
     targets_self |-> FALSE, attachments |-> <<>>]

(* __post_init__: the two reply fields agree, a private event is for the bot. *)
PostInit(e) ==
    LET ref == IF e.reply_reference = None /\ e.reply_to_message_id # None
               THEN [message_id |-> e.reply_to_message_id, sender_user_id |-> ""]
               ELSE e.reply_reference
    IN [e EXCEPT !.reply_reference = ref,
                 !.reply_to_message_id =
                    IF ref # None /\ @ = None THEN ref.message_id ELSE @,
                 !.targets_self = @ \/ IsPrivate(e)]

-----------------------------------------------------------------------------
(* The segments of a message: [type, id, qq, text]. *)
AttachmentType == [image |-> "image", file |-> "file", record |-> "audio", video |-> "video"]

SegmentToAttachment(s) ==
    IF s.type \in DOMAIN AttachmentType
    THEN [type |-> AttachmentType[s.type], source |-> s.id]
    ELSE None

IsReply(s)   == s.type = "reply" /\ s.id # ""
IsMention(s) == s.type = "at" /\ s.qq # ""

(* extract_onebot_message_features: the last reply, every mention in order,
   whether everyone is mentioned, the attachments. *)
MessageFeatures(segs) ==
    LET replies == SelectSeq(segs, IsReply)
        ats     == SelectSeq(segs, IsMention)
        files   == SelectSeq(segs, LAMBDA s : SegmentToAttachment(s) # None)
    IN [reply       |-> IF replies = <<>> THEN None
                        ELSE LET r == replies[Len(replies)]
                             IN [message_id |-> r.id, sender_user_id |-> r.qq],
        mentioned   |-> [i \in 1..Len(ats) |-> ats[i].qq],
        everyone    |-> \E i \in 1..Len(ats) : ats[i].qq \in {"all", "everyone"},
        attachments |-> [i \in 1..Len(files) |-> SegmentToAttachment(files[i])]]

(* event.text: the text segments put together; only its first text is kept. *)
EventText(e) ==
    LET texts == SelectSeq(e.segments, LAMBDA s : s.type = "text" /\ s.text # "")
    IN IF texts = <<>> THEN "" ELSE texts[1].text

SelfIs(self, user) == self # None /\ user = self

TranslateMessage(raw, self) ==
    LET segs     == raw.message
        f        == MessageFeatures(segs)
        mentions == self # None /\ \E i \in 1..Len(f.mentioned) : f.mentioned[i] = self
        replies  == f.reply # None /\ SelfIs(self, f.reply.sender_user_id)
        source   == EventSource(Text(raw, "message_type"), Text(raw, "user_id"), GroupIn(raw))
    IN [Blank("message", source) EXCEPT
            !.segments = segs,
            !.raw_message_id = Text(raw, "message_id"),
            !.sender_role = OrNone(Text(raw, "role")),
            !.message_subtype = OrNone(Text(raw, "sub_type")),
            !.reply_to_message_id = IF f.reply = None THEN None ELSE f.reply.message_id,
            !.reply_reference = f.reply,
            !.mentioned_user_ids = f.mentioned,
            !.mentions_self = mentions,
            !.mentioned_everyone = f.everyone,
            !.reply_targets_self = replies,
            !.targets_self = \/ Text(raw, "message_type") = "private"
                             \/ f.everyone \/ mentions \/ replies,
            !.attachments = f.attachments]

-----------------------------------------------------------------------------
(* Notices.  Only a poke and a recall can be private besides friend_add. *)
TranslatePoke(raw, self) ==
    LET group == GroupIn(raw)
        user  == Text(raw, "user_id")
    IN [Blank("poke", EventSource(GroupOrPrivate(group), user, group)) EXCEPT
            !.operator_id = OrNone(user),
            !.subject_user_id = OrNone(Text(raw, "target_id")),
            !.notice_type = "notify", !.notice_subtype = "poke",
            !.targets_self = SelfIs(self, Text(raw, "target_id"))]

TranslateRecall(raw, type) ==
    LET group    == GroupIn(raw)
        operator == IF Text(raw, "operator_id") # "" THEN raw.operator_id
                    ELSE Text(raw, "user_id")
    IN [Blank("recall", EventSource(GroupOrPrivate(group), operator, group)) EXCEPT
            !.operator_id = OrNone(operator),
            !.subject_user_id = OrNone(Text(raw, "user_id")),
            !.target_message_id = OrNone(Text(raw, "message_id")),
            !.notice_type = type]

InGroup(raw) == EventSource("group", Text(raw, "user_id"), OrNone(Text(raw, "group_id")))

TranslateMembership(raw, event, type) ==
    [Blank(event, InGroup(raw)) EXCEPT
        !.operator_id = OrNone(Text(raw, "operator_id")),
        !.subject_user_id = OrNone(Text(raw, "user_id")),
        !.notice_type = type, !.notice_subtype = OrNone(Text(raw, "sub_type"))]

TranslateAdmin(raw, type) ==
    [Blank("admin_change", InGroup(raw)) EXCEPT
        !.subject_user_id = OrNone(Text(raw, "user_id")),
        !.notice_type = type, !.notice_subtype = OrNone(Text(raw, "sub_type"))]

TranslateUpload(raw, type) ==
    [Blank("file_upload", InGroup(raw)) EXCEPT
        !.subject_user_id = OrNone(Text(raw, "user_id")), !.notice_type = type,
        !.attachments = IF Text(raw, "file") = "" THEN <<>>
                        ELSE <<[type |-> "file", source |-> raw.file]>>]

TranslateFriendAdd(raw, type) ==
    LET user == Text(raw, "user_id")
    IN [Blank("friend_added", EventSource("private", user, None)) EXCEPT
            !.subject_user_id = OrNone(user), !.notice_type = type, !.targets_self = TRUE]

TranslateBan(raw, type, self) ==
    [Blank("mute_change", InGroup(raw)) EXCEPT
        !.operator_id = OrNone(Text(raw, "operator_id")),
        !.subject_user_id = OrNone(Text(raw, "user_id")),
        !.notice_type = type, !.notice_subtype = OrNone(Text(raw, "sub_type")),
        !.targets_self = SelfIs(self, Text(raw, "user_id"))]

TranslateLuckyKing(raw, self) ==
    [Blank("lucky_king", InGroup(raw)) EXCEPT
        !.operator_id = OrNone(Text(raw, "user_id")),
        !.subject_user_id = OrNone(Text(raw, "target_id")),
        !.notice_type = "notify", !.notice_subtype = "lucky_king",
        !.targets_self = SelfIs(self, Text(raw, "target_id"))]

TranslateHonor(raw, self) ==
    [Blank("honor_change", InGroup(raw)) EXCEPT
        !.subject_user_id = OrNone(Text(raw, "user_id")),
        !.notice_type = "notify", !.notice_subtype = OrNone(Text(raw, "honor_type")),
        !.targets_self = SelfIs(self, Text(raw, "user_id"))]

TranslateTitle(raw, self) ==
    [Blank("title_change", InGroup(raw)) EXCEPT
        !.subject_user_id = OrNone(Text(raw, "user_id")),
        !.notice_type = "notify", !.notice_subtype = "title",
        !.targets_self = SelfIs(self, Text(raw, "user_id"))]

TranslateNotify(raw, self) ==
    LET sub == Text(raw, "sub_type")
    IN CASE sub = "poke"       -> TranslatePoke(raw, self)
         [] sub = "lucky_king" -> TranslateLuckyKing(raw, self)
         [] sub = "honor"      -> TranslateHonor(raw, self)
         [] sub = "title"      -> TranslateTitle(raw, self)
         [] OTHER              -> None

TranslateNotice(raw, self) ==
    LET type == Text(raw, "notice_type")
    IN CASE type = "notify"         -> TranslateNotify(raw, self)
         [] type \in {"group_recall", "friend_recall"} -> TranslateRecall(raw, type)
         [] type = "group_increase" -> TranslateMembership(raw, "member_join", type)
         [] type = "group_decrease" -> TranslateMembership(raw, "member_leave", type)
         [] type = "group_admin"    -> TranslateAdmin(raw, type)
         [] type = "group_upload"   -> TranslateUpload(raw, type)
         [] type = "friend_add"     -> TranslateFriendAdd(raw, type)
         [] type = "group_ban"      -> TranslateBan(raw, type, self)
         [] OTHER                   -> None

(* translate: None for what the bot does not support. *)
Translate(raw, self) ==
    LET post == Text(raw, "post_type")
        e    == CASE post = "message" -> TranslateMessage(raw, self)
                  [] post = "notice"  -> TranslateNotice(raw, self)
                  [] OTHER            -> None
    IN IF e = None THEN None ELSE PostInit(e)

-----------------------------------------------------------------------------
(* How the event concerns the bot, as the router records it. *)
TargetReasons(e) ==
    LET reasons ==
          SelectSeq(<<IF IsPrivate(e) THEN "private" ELSE "",
                      IF e.mentions_self THEN "mention_self" ELSE "",
                      IF e.mentioned_everyone THEN "mention_everyone" ELSE "",
                      IF e.reply_targets_self THEN "reply_to_self" ELSE "">>,
                    LAMBDA r : r # "")
    IN IF ~ IsMessage(e) THEN <<"notice">>
       ELSE IF reasons # <<>> THEN reasons
       ELSE IF IsGroup(e) THEN <<"ambient_group">> ELSE <<"message">>

BotRelation(e) ==
    IF ~ IsMessage(e) THEN "notice"
    ELSE IF IsPrivate(e) THEN "private"
    ELSE IF e.mentions_self THEN "mention_self"
    ELSE IF e.reply_targets_self THEN "reply_to_self"
    ELSE IF e.mentioned_everyone THEN "mention_everyone"
    ELSE IF IsGroup(e) THEN "ambient_group" ELSE "message"
=============================================================================
