------------------------------ MODULE Messages ------------------------------
(***************************************************************************)
(* The messages of the queue osint.characters, one operator for each       *)
(* factory of CharacterMessageDto.  Of a message's data only what the      *)
(* worker decides on is kept: how old the row must be (forceUpdate, here   *)
(* in days), whether it is for new characters only, the guild and the      *)
(* hash it carries, and the session that wants to hear of it.              *)
(***************************************************************************)
EXTENDS Integers

CONSTANTS None,     \* null
          Forever   \* Number.MAX_SAFE_INTEGER milliseconds, in days

ASSUME ForeverAssumption == Forever \in Nat

(* The guild of a character: guildGuid, guildId and guildRank are columns  *)
(* of their own; a rank is named by the guild whose roster gave it.        *)
NoGuild == [guid |-> None, id |-> None, rank |-> None]
MemberOf(guild) == [guid |-> guild, id |-> guild, rank |-> guild]
ScannedIn(guild) == [guid |-> guild, id |-> None, rank |-> guild]

(* TIME_MS: a millisecond is no time at all between two steps of a job. *)
IMMEDIATE == 0
TWENTY_FOUR_HOURS == 1
FORCE == Forever

Message(force, unique, priority, guild) ==
  [force |-> force, unique |-> unique, priority |-> priority,
   guild |-> guild, hash |-> None, session |-> None]

Newcomer(priority, guild) == Message(IMMEDIATE, TRUE, priority, guild)

FromMythicPlusLadder == Newcomer(3, NoGuild)
FromPvPLadder == Newcomer(3, NoGuild)
FromWarcraftLogs == Newcomer(1, NoGuild)
FromWowProgressLfg == Newcomer(4, NoGuild)
FromMigrationFile == Newcomer(3, NoGuild)
FromGuildMember(guild) == Newcomer(4, MemberOf(guild))
FromAddonScan(guild) == Newcomer(0, ScannedIn(guild))
FromGuildMaster(guild) == Message(IMMEDIATE, FALSE, 1, MemberOf(guild))
FromCharacterRequest == Message(IMMEDIATE, FALSE, 0, NoGuild)

(* The row that the cron read travels with the message. *)
FromCharacterIndex(listed) ==
  [Message(TWENTY_FOUR_HOURS, FALSE, 5, listed.guild) EXCEPT !.hash = listed.hash]

FromCharacterForceRefresh(session) ==
  [Message(FORCE, FALSE, 0, NoGuild) EXCEPT !.session = session]
=============================================================================
