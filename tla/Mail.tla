--------------------------------- MODULE Mail ---------------------------------
(***************************************************************************)
(* Email (channels/email.py): which conversation a mail belongs to is read *)
(* off its References and In-Reply-To, which the customers' clients build  *)
(* along the chain of replies (RFC 5322, 3.6.4), and which the desk's own  *)
(* replies do not carry.                                                   *)
(***************************************************************************)
EXTENDS Naturals, Sequences

CONSTANT MaxMails  \* bound: mails ever written

VARIABLE mails     \* all mails; the n-th has the Message-ID n, or none

NoId == 0

Mail == [by : {"customer", "desk"},
         message_id : 0..MaxMails, in_reply_to : 0..MaxMails, references : Seq(1..MaxMails),
         topic : 0..MaxMails,  \* history: the mail its discussion began with
         linked : BOOLEAN]     \* history: every reply since then says where it belongs

MailInit == mails = <<>>

Next_Id == Len(mails) + 1
Write(m) == Len(mails) < MaxMails /\ mails' = Append(mails, m)

\* A mail of its own; a web form or a script may leave the Message-ID out.
CustomerMails ==
    \E id \in {Next_Id, NoId} :
        Write([by |-> "customer", message_id |-> id, in_reply_to |-> NoId, references |-> <<>>,
               topic |-> id, linked |-> TRUE])

Chain(p) == IF p.references # <<>> THEN p.references
            ELSE IF p.in_reply_to # NoId THEN <<p.in_reply_to>> ELSE <<>>

\* A client's answer to any mail that can be named, also an old one.
CustomerReplies ==
    \E i \in DOMAIN mails :
        LET p == mails[i]
        IN /\ p.message_id # NoId
           /\ Write([by |-> "customer", message_id |-> Next_Id, in_reply_to |-> p.message_id,
                     references |-> Append(Chain(p), p.message_id),
                     topic |-> p.topic, linked |-> p.linked])

\* One that gives In-Reply-To only: of an answer it does not name the root.
CustomerRepliesBarely ==
    \E i \in DOMAIN mails :
        LET p == mails[i]
        IN /\ p.message_id # NoId
           /\ Write([by |-> "customer", message_id |-> Next_Id, in_reply_to |-> p.message_id,
                     references |-> <<>>, topic |-> p.topic, linked |-> p.linked /\ Chain(p) = <<>>])

\* send_reply: a new Message-ID and no link to what it answers, so that what
\* follows is a new discussion. That SMTP may fail, before or after the mail is
\* out, is the mail not being written, or being written all the same.
DeskReplies ==
    /\ mails # <<>>
    /\ Write([by |-> "desk", message_id |-> Next_Id, in_reply_to |-> NoId, references |-> <<>>,
              topic |-> Next_Id, linked |-> TRUE])

MailNext == CustomerMails \/ CustomerReplies \/ CustomerRepliesBarely \/ DeskReplies

MailSpec == MailInit /\ [][MailNext]_mails

-----------------------------------------------------------------------------
compute_thread_id_ParentFirst(m) ==
    IF m.in_reply_to # NoId THEN m.in_reply_to
    ELSE IF m.references # <<>> THEN Head(m.references) ELSE m.message_id

\* The oldest reference, In-Reply-To, the mail itself, or (NoId) the digest of its
\* sender and subject: here every mail has the same.
compute_thread_id(m) ==
    IF m.references # <<>> THEN Head(m.references)
    ELSE IF m.in_reply_to # NoId THEN m.in_reply_to ELSE m.message_id

\* "a reply carries the root id" (channels/email.py:117-121): however a discussion
\* branches, grows and is resumed, and whatever mix of clients writes it, its
\* mails are one conversation, and no two discussions are.
ThreadIsDiscussion ==
    \A i, j \in DOMAIN mails :
        LET m == mails[i]
            n == mails[j]
        IN m.by = "customer" /\ n.by = "customer" /\ m.linked /\ n.linked =>
               (compute_thread_id(m) = compute_thread_id(n) <=> m.topic = n.topic)
=============================================================================
