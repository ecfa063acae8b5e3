---------------------------- MODULE HubPartsProofs ----------------------------
(***************************************************************************)
(* The parts next to each other (HubParts).  Each part's invariant is kept *)
(* by the part's own steps, proved with the part, and by the steps of the  *)
(* others, which leave its variables alone: so every property that is      *)
(* proved of a part holds of HubSpec.                                      *)
(***************************************************************************)
EXTENDS HubParts, ClientProofs, MessagingProofs, ServiceProofs, CloudProofs

PartsInv ==
    /\ part \in Parts
    /\ JournalInv /\ WriterInv /\ InboxInv /\ AcksInv /\ PresenceInv
    /\ EventsInv /\ StopInv /\ StoreInv /\ TokensInv /\ SelectionInv

LEMMA PartsStart == HubInit => PartsInv
<1> SUFFICES ASSUME HubInit PROVE PartsInv
  OBVIOUS
<1>1. JournalInv /\ WriterInv
  BY JournalStart, WriterStart DEF HubInit
<1>2. InboxInv /\ AcksInv /\ PresenceInv
  BY InboxStart, AcksStart, PresenceStart DEF HubInit
<1>3. EventsInv /\ StopInv
  BY EventsStart, StopStart DEF HubInit
<1>4. StoreInv /\ TokensInv /\ SelectionInv
  BY StoreStart, TokensStart, SelectionStart DEF HubInit
<1>5. part \in Parts
  BY DEF HubInit
<1> QED
  BY <1>1, <1>2, <1>3, <1>4, <1>5 DEF PartsInv

(* A step of the system is, for each part, a step of it or none.           *)
LEMMA StepOfEach ==
    ASSUME [HubNext]_hubVars
    PROVE  /\ UNCHANGED part
           /\ [JournalNext]_journalVars /\ [WriterNext]_writerVars
           /\ [InboxNext]_inboxVars /\ [AcksNext]_ackVars /\ [PresenceNext]_presenceVars
           /\ [EventsNext]_eventVars /\ [StopNext]_stopVars /\ [StoreNext]_storeVars
           /\ [TokensNext]_tokenVars /\ [SelectionNext]_selectVars
<1>1. CASE UNCHANGED hubVars
  BY <1>1 DEF hubVars
<1>2. CASE HubNext
  BY <1>2 DEF HubNext
<1> QED
  BY <1>1, <1>2

LEMMA PartsStep == PartsInv /\ [HubNext]_hubVars => PartsInv'
<1> SUFFICES ASSUME PartsInv, [HubNext]_hubVars PROVE PartsInv'
  OBVIOUS
<1>1. JournalInv' /\ WriterInv'
  BY StepOfEach, JournalStep, WriterStep DEF PartsInv
<1>2. InboxInv' /\ AcksInv' /\ PresenceInv'
  BY StepOfEach, InboxStep, AcksStep, PresenceStep DEF PartsInv
<1>3. EventsInv' /\ StopInv'
  BY StepOfEach, EventsStep, StopStep DEF PartsInv
<1>4. StoreInv' /\ TokensInv' /\ SelectionInv'
  BY StepOfEach, StoreStep, TokensStep, SelectionStep DEF PartsInv
<1>5. (part \in Parts)'
  BY StepOfEach DEF PartsInv, Parts
<1> QED
  BY <1>1, <1>2, <1>3, <1>4, <1>5 DEF PartsInv

LEMMA PartsSound ==
    PartsInv =>
        /\ HubTypeOK
        /\ RetentionIsDurable /\ SentNeverExpires /\ RetiredOwesNothing
        /\ NoSilentLoss /\ FlushMeansSettled /\ NothingSkipped /\ OverdueIsExact
        /\ PulledIsNewer /\ PushedRejectedOrLate /\ LastIdMissesNothing
        /\ NothingOutlivesService /\ CloudDelivery /\ CloudAccessKept /\ AuthorityFirst
<1> SUFFICES ASSUME PartsInv
             PROVE  /\ HubTypeOK
                    /\ RetentionIsDurable /\ SentNeverExpires /\ RetiredOwesNothing
                    /\ NoSilentLoss /\ FlushMeansSettled /\ NothingSkipped /\ OverdueIsExact
                    /\ PulledIsNewer /\ PushedRejectedOrLate /\ LastIdMissesNothing
                    /\ NothingOutlivesService /\ CloudDelivery /\ CloudAccessKept
                    /\ AuthorityFirst
  OBVIOUS
<1>1. HubTypeOK
  BY DEF PartsInv, HubTypeOK, JournalInv, WriterInv, InboxInv, AcksInv, PresenceInv,
         EventsInv, StopInv, StoreInv, TokensInv, SelectionInv
<1>2. RetentionIsDurable /\ SentNeverExpires /\ RetiredOwesNothing
  BY JournalSound DEF PartsInv
<1>3. NoSilentLoss /\ FlushMeansSettled /\ NothingOutlivesService /\ LastIdMissesNothing
  BY WriterSound, StopSound DEF PartsInv, EventsInv
<1>4. NothingSkipped /\ OverdueIsExact /\ PulledIsNewer /\ PushedRejectedOrLate
  BY InboxSound, AcksSound, PresenceSound DEF PartsInv
<1>5. CloudDelivery /\ CloudAccessKept /\ AuthorityFirst
  BY TokensSound, SelectionSound DEF PartsInv, StoreInv, CloudDelivery
<1> QED
  BY <1>1, <1>2, <1>3, <1>4, <1>5

LEMMA PartsAlways == HubSpec => []PartsInv
BY PartsStart, PartsStep, PTL DEF HubSpec

(* Type correctness of all the parts next to each other.                   *)
THEOREM PartsTypeCorrect == HubSpec => []HubTypeOK
BY PartsAlways, PartsSound, PTL

(* What is proved of each part with its own specification holds of the     *)
(* system of them: the journal file, the PostgreSQL writer, inboxes,       *)
(* acknowledgements, presence, event streams, the end of the service, the  *)
(* Worker's table, the token tool and the choice of a hub.                 *)
THEOREM PartsKeepTheirPromises ==
    HubSpec =>
        [](/\ RetentionIsDurable /\ SentNeverExpires /\ RetiredOwesNothing
           /\ NoSilentLoss /\ FlushMeansSettled /\ NothingSkipped /\ OverdueIsExact
           /\ PulledIsNewer /\ PushedRejectedOrLate /\ LastIdMissesNothing
           /\ NothingOutlivesService /\ CloudDelivery /\ CloudAccessKept
           /\ AuthorityFirst)
BY PartsAlways, PartsSound, PTL
===============================================================================
