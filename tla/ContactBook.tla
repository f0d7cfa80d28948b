---------------------------- MODULE ContactBook ----------------------------
(***************************************************************************)
(* The contact book: the three ways a row comes to be - a scanned card     *)
(* (scan-contact-screen.tsx, cemp-core/contact-import.ts), the edit form   *)
(* (contact-edit-screen.tsx, cemp-ui/contact-list.ts), the stub of an      *)
(* unknown sender (cemp-sync/workers.ts) - the one conversation of a       *)
(* contact (repositories/contacts.ts, conversations.ts), and the two lists *)
(* a person taps (contacts-screen.tsx, chats-screen.tsx).                  *)
(*                                                                         *)
(* Two profile ids are enough, a friend's and the own one.                 *)
(***************************************************************************)
EXTENDS Integers, Sequences, FiniteSets

CONSTANTS MaxContacts,   \* bound: contact rows
          Ingests,       \* passes that store a message of the friend
          Taps,          \* openings of a conversation from the contact list
          MaxBookFaults  \* bound: deaths of the process

ASSUME BookAssumption == MaxContacts \in Nat /\ MaxBookFaults \in Nat

VARIABLES contacts, \* the contacts table: the profile id of each row, Unlinked if none
          convs,    \* the conversations table: the contact of each row
          scan,     \* the scan screen: where it is and the id it looks at
          form,     \* ids of form saves that wait for their insert
          opener,   \* opener[o]: an ingest or a tap on its way to a conversation
          editor,   \* a save of the edit screen: its row, and the id the row had
          bookFaults

bookVars == <<contacts, convs, scan, form, opener, editor, bookFaults>>

Cards == {"friend", "me"}
Texts == Cards \cup {"unreadable"}
Unlinked == "unlinked"
Openers == Ingests \cup Taps
OpenerLabels == {"idle", "lookup", "stub", "read", "insert", "reread", "open"}

ContactBookTypeOK ==
    /\ contacts \in Seq(Cards \cup {Unlinked}) /\ Len(contacts) <= MaxContacts
    /\ convs \in Seq(1..MaxContacts)
    /\ scan \in [at : {"idle", "own", "find", "addable", "shown"}, id : Texts]
    /\ form \subseteq Cards \cup {Unlinked}
    /\ opener \in [Openers -> [at : OpenerLabels, contact : 0..MaxContacts,
                               conv : 0..MaxContacts]]
    /\ editor \in [contact : 0..MaxContacts, id : Cards \cup {Unlinked}]
    /\ bookFaults \in 0..MaxBookFaults

IdleScan == [at |-> "idle", id |-> "friend"]
IdleOpener == [at |-> "idle", contact |-> 0, conv |-> 0]
ClosedEditor == [contact |-> 0, id |-> Unlinked]

ContactBookInit ==
    /\ contacts = <<>> /\ convs = <<>>
    /\ scan = IdleScan /\ form = {}
    /\ opener = [o \in Openers |-> IdleOpener]
    /\ editor = ClosedEditor
    /\ bookFaults = 0

BookFault == bookFaults < MaxBookFaults /\ bookFaults' = bookFaults + 1

-----------------------------------------------------------------------------
(* The contacts table: at most one row per profile id.                     *)

Known(id) == id # Unlinked /\ \E k \in DOMAIN contacts : contacts[k] = id
RowOf(id) == CHOOSE k \in DOMAIN contacts : contacts[k] = id
Insertable(id) == ~Known(id) /\ Len(contacts) < MaxContacts

(* The busy flag keeps the three ways to a text apart; a cancelled camera, *)
(* a photo without a code and an empty paste box leave the screen as it is. *)
HandleScanned(text) ==
    /\ scan.at = "idle" /\ scan' = [at |-> "own", id |-> text]
    /\ UNCHANGED <<contacts, convs, form, opener, editor, bookFaults>>

RunCameraScan == \E text \in Texts : HandleScanned(text)
RunPhotoScan == \E text \in Texts : HandleScanned(text)
RunPasteScan == \E text \in Texts : HandleScanned(text)

(* A card that names the testnet, this version and a well-formed id.       *)
DecodeContactBundle(text) == text \in Cards

(* Without messaging the own id is not consulted; without an answer the    *)
(* text is dropped.                                                        *)
ClassifyScannedCard ==
    /\ scan.at = "own"
    /\ \/ scan' = IdleScan
       \/ \E hasMessaging \in BOOLEAN :
             LET self == hasMessaging /\ scan.id = "me"
                 ends == ~DecodeContactBundle(scan.id) \/ self
             IN  scan' = [scan EXCEPT !.at = IF ends THEN "shown" ELSE "find"]
    /\ UNCHANGED <<contacts, convs, form, opener, editor, bookFaults>>

FindExisting ==
    /\ scan.at = "find"
    /\ scan' = [scan EXCEPT !.at = IF Known(scan.id) THEN "shown" ELSE "addable"]
    /\ UNCHANGED <<contacts, convs, form, opener, editor, bookFaults>>

(* A name is typed; save inserts, and a conflict is shown on the screen.   *)
SaveScanned ==
    /\ scan.at = "addable"
    /\ \/ Insertable(scan.id) /\ contacts' = Append(contacts, scan.id) /\ scan' = IdleScan
       \/ Known(scan.id) /\ UNCHANGED <<contacts, scan>>
    /\ UNCHANGED <<convs, form, opener, editor, bookFaults>>

ScanAgain ==
    /\ scan.at \in {"shown", "addable"}
    /\ scan' = IdleScan
    /\ UNCHANGED <<contacts, convs, form, opener, editor, bookFaults>>

(* The form checks the shape of an id and nothing else, and it takes a     *)
(* second tap while the first one writes.                                  *)
SubmitForm ==
    /\ \E id \in {Unlinked} \cup Cards : id \notin form /\ form' = {id}
    /\ UNCHANGED <<contacts, convs, scan, opener, editor, bookFaults>>

SaveForm ==
    /\ \E id \in form : /\ form' = form \ {id}
                        /\ \/ Insertable(id) /\ contacts' = Append(contacts, id)
                           \/ ~Insertable(id) /\ UNCHANGED contacts
    /\ UNCHANGED <<convs, scan, opener, editor, bookFaults>>

-----------------------------------------------------------------------------
(* The two tabs and the edit screen of a contact. A list shows rows that   *)
(* the table held when it was last read; the app removes none, so a row of *)
(* a list, or of a search in it, is a row of the table.                    *)
ContactsListed == DOMAIN contacts
ChatsListed == DOMAIN convs

(* From the list, or from the scan of a card that is a contact already.    *)
(* The save reads the row first; names, notes and avatars are data.        *)
EditContact(k) ==
    /\ editor = ClosedEditor
    /\ \/ k \in ContactsListed
       \/ scan.at = "shown" /\ Known(scan.id) /\ k = RowOf(scan.id)
    /\ editor' = [contact |-> k, id |-> contacts[k]]
    /\ UNCHANGED <<contacts, convs, scan, form, opener, bookFaults>>

(* The form of an existing contact takes no id, and the update writes the  *)
(* id back that it read.                                                   *)
UpdateContact ==
    /\ editor # ClosedEditor
    /\ contacts' = [contacts EXCEPT ![editor.contact] = editor.id]
    /\ editor' = ClosedEditor
    /\ UNCHANGED <<convs, scan, form, opener, bookFaults>>

-----------------------------------------------------------------------------
(* The way to a conversation.                                              *)

OpenerAt(o, label) == opener[o].at = label
OpenerGoto(o, label) == opener' = [opener EXCEPT ![o].at = label]

Open(o, k, v) ==
    opener' = [opener EXCEPT ![o] = [at |-> "open", contact |-> k, conv |-> v]]

(* A call with its contact in hand asks for the conversation.              *)
OfContact(k) == [at |-> "read", contact |-> k, conv |-> 0]

StartIngest(o) ==
    /\ OpenerAt(o, "idle") /\ o \in Ingests
    /\ OpenerGoto(o, "lookup")
    /\ UNCHANGED <<contacts, convs, scan, form, editor, bookFaults>>

LookUpSender(o) ==
    /\ OpenerAt(o, "lookup")
    /\ opener' = [opener EXCEPT ![o] =
                    IF Known("friend") THEN OfContact(RowOf("friend"))
                    ELSE [@ EXCEPT !.at = "stub"]]
    /\ UNCHANGED <<contacts, convs, scan, form, editor, bookFaults>>

(* A stub that conflicts ends this pass; the cell is taken up again.       *)
CreateStub(o) ==
    /\ OpenerAt(o, "stub")
    /\ \/ /\ Insertable("friend")
          /\ contacts' = Append(contacts, "friend")
          /\ opener' = [opener EXCEPT ![o] = OfContact(Len(contacts) + 1)]
       \/ Known("friend") /\ OpenerGoto(o, "idle") /\ UNCHANGED contacts
    /\ UNCHANGED <<convs, scan, form, editor, bookFaults>>

TapContact(o) ==
    /\ OpenerAt(o, "idle") /\ o \in Taps
    /\ \E k \in ContactsListed :
          opener' = [opener EXCEPT ![o] = OfContact(k)]
    /\ UNCHANGED <<contacts, convs, scan, form, editor, bookFaults>>

ConversationOf(k) == {v \in DOMAIN convs : convs[v] = k}

(* A row of the chats list is a conversation already.                      *)
TapChat(o) ==
    /\ OpenerAt(o, "idle") /\ o \in Taps
    /\ \E v \in ChatsListed : Open(o, convs[v], v)
    /\ UNCHANGED <<contacts, convs, scan, form, editor, bookFaults>>

(* getOrCreateForContact: read, insert, and after a conflict read again.   *)
ReadConversation(o) ==
    /\ OpenerAt(o, "read")
    /\ \/ \E v \in ConversationOf(opener[o].contact) : Open(o, opener[o].contact, v)
       \/ ConversationOf(opener[o].contact) = {} /\ OpenerGoto(o, "insert")
    /\ UNCHANGED <<contacts, convs, scan, form, editor, bookFaults>>

\* A plausible bug: the insert trusts the read before it.
Taken_Flawed(k) == FALSE

(* UNIQUE(contact_id).                                                     *)
Taken(k) == ConversationOf(k) # {}

InsertConversation(o) ==
    /\ OpenerAt(o, "insert")
    /\ IF Taken(opener[o].contact)
       THEN OpenerGoto(o, "reread") /\ UNCHANGED convs
       ELSE convs' = Append(convs, opener[o].contact) /\ Open(o, opener[o].contact, Len(convs) + 1)
    /\ UNCHANGED <<contacts, scan, form, editor, bookFaults>>

RereadConversation(o) ==
    /\ OpenerAt(o, "reread")
    /\ \E v \in ConversationOf(opener[o].contact) : Open(o, opener[o].contact, v)
    /\ UNCHANGED <<contacts, convs, scan, form, editor, bookFaults>>

-----------------------------------------------------------------------------
BookCrash ==
    /\ BookFault
    /\ scan' = IdleScan /\ form' = {} /\ editor' = ClosedEditor
    /\ opener' = [o \in Openers |-> IF opener[o].at = "open" THEN opener[o] ELSE IdleOpener]
    /\ UNCHANGED <<contacts, convs>>

ContactBookNext ==
    \/ RunCameraScan \/ RunPhotoScan \/ RunPasteScan \/ ClassifyScannedCard
    \/ FindExisting \/ SaveScanned \/ ScanAgain \/ SubmitForm \/ SaveForm
    \/ UpdateContact \/ \E k \in 1..MaxContacts : EditContact(k)
    \/ \E o \in Openers : \/ StartIngest(o) \/ LookUpSender(o) \/ CreateStub(o)
                          \/ TapContact(o) \/ TapChat(o)
                          \/ ReadConversation(o) \/ InsertConversation(o)
                          \/ RereadConversation(o)
    \/ BookCrash

ContactBookSpec == ContactBookInit /\ [][ContactBookNext]_bookVars

-----------------------------------------------------------------------------
(* However scans, form saves, arriving messages and taps interleave, what  *)
(* concerns one person ends up in one conversation                         *)
(* (conversations.ts:44-69, contacts.ts:65-98).                            *)
OneConversation ==
    \A o, p \in Openers :
        /\ OpenerAt(o, "open") /\ OpenerAt(p, "open")
        /\ contacts[opener[o].contact] = contacts[opener[p].contact]
        /\ contacts[opener[o].contact] # Unlinked
        => opener[o].conv = opener[p].conv
=============================================================================
