--------------------------- MODULE AccountProtocols ---------------------------
(***************************************************************************)
(* Ubisoft accounts, privileges, clans and challenges.                     *)
(* The messages of every method, with their fields in the order of the     *)
(* wire.  A method is found under its id, its position in the protocol.    *)
(***************************************************************************)
EXTENDS Schemas

ExternalAccount == Struct(<<F("accountType", U32), F("id", String), F("username", String)>>)

UbiAccountStatus ==
  Struct(<<F("basicStatus", U32), F("missingRequiredInformations", Bool),
           F("recoveringPassword", Bool), F("pendingDeactivation", Bool)>>)

UbiAccount ==
  Struct(<<F("ubiAccountId", String), F("username", String), F("password", String),
           F("status", UbiAccountStatus), F("email", String), F("dateOfBirth", DateTime),
           F("gender", U32), F("countryCode", String), F("optIn", Bool),
           F("thirdPartyOptIn", Bool), F("firstName", String), F("lastName", String),
           F("preferredLanguage", String), F("externalAccounts", List(ExternalAccount))>>)

TOS ==
  Struct(<<F("localeCode", String), F("content", String), F("storingInfoQuestion", String)>>)

TOSEx ==
  Struct(<<F("localeCode", String), F("contents", List(String)),
           F("storingInfoQuestion", String)>>)

ValidationFailureReason == Struct(<<F("validationId", U32), F("description", String)>>)

UsernameValidation ==
  Struct(<<F("suggestions", List(String)), F("reasons", List(ValidationFailureReason))>>)

Country == Struct(<<F("code", String), F("name", String)>>)

------------------------------------------------------------------------------

CreateAccount ==
  Method("createAccount",
         Struct(<< >>),
         Struct(<<F("ubiAccount", UbiAccount),
                  F("failedReasons", List(ValidationFailureReason))>>))

UpdateAccount ==
  Method("updateAccount",
         Struct(<< >>),
         Struct(<<F("ubiAccount", UbiAccount),
                  F("failedReasons", List(ValidationFailureReason))>>))

GetAccount ==
  Method("getAccount",
         Struct(<< >>),
         Struct(<<F("ubiAccount", UbiAccount), F("exists", Bool)>>))

LinkAccount ==
  Method("linkAccount",
         Struct(<<F("ubiAccountUsername", String), F("ubiAccountPassword", String)>>),
         Struct(<< >>))

GetTos ==
  Method("getTos",
         Struct(<<F("countryCode", String), F("languageCode", String),
                  F("htmlVersion", Bool)>>),
         Struct(<<F("tos", TOS)>>))

ValidateUsername ==
  Method("validateUsername",
         Struct(<<F("username", String)>>),
         Struct(<<F("usernameValidation", UsernameValidation)>>))

ValidatePassword ==
  Method("validatePassword",
         Struct(<<F("password", String), F("username", String)>>),
         Struct(<<F("failedReasons", List(ValidationFailureReason))>>))

ValidateEmail ==
  Method("validateEmail",
         Struct(<<F("email", String)>>),
         Struct(<<F("failedReasons", List(ValidationFailureReason))>>))

GetCountryList ==
  Method("getCountryList",
         Struct(<<F("languageCode", String)>>),
         Struct(<<F("countries", List(Country))>>))

ForgetPassword ==
  Method("forgetPassword",
         Struct(<<F("usernameOrEmail", String)>>),
         Struct(<< >>))

LookupPrincipalIds ==
  Method("lookupPrincipalIds",
         Struct(<<F("ubiAccountIds", List(String))>>),
         Struct(<<F("pids", MapOf(String, U32))>>))

LookupUbiAccountIdsByPids ==
  Method("lookupUbiAccountIdsByPids",
         Struct(<<F("pids", List(U32))>>),
         Struct(<<F("ubiaccountIds", MapOf(U32, String))>>))

LookupUbiAccountIdsByUsernames ==
  Method("lookupUbiAccountIdsByUsernames",
         Struct(<<F("usernames", List(String))>>),
         Struct(<<F("ubiAccountIds", MapOf(String, String))>>))

LookupUsernamesByUbiAccountIds ==
  Method("lookupUsernamesByUbiAccountIds",
         Struct(<<F("ubiAccountIds", List(String))>>),
         Struct(<<F("usernames", MapOf(String, String))>>))

LookupUbiAccountIdsByUsernameSubString ==
  Method("lookupUbiAccountIdsByUsernameSubString",
         Struct(<<F("usernameSubString", String)>>),
         Struct(<<F("ubiAccountIds", MapOf(String, String))>>))

UserHasPlayed ==
  Method("userHasPlayed",
         Struct(<<F("ubiAccountIds", List(String))>>),
         Struct(<<F("userPresence", MapOf(String, Bool))>>))

IsUserPlaying ==
  Method("isUserPlaying",
         Struct(<<F("ubiAccountIds", List(String))>>),
         Struct(<<F("userPresence", MapOf(String, Bool))>>))

LookupUbiAccountIdsByUsernamesGlobal ==
  Method("lookupUbiAccountIdsByUsernamesGlobal",
         Struct(<<F("usernames", List(String))>>),
         Struct(<<F("ubiAccountIds", MapOf(String, String))>>))

LookupUbiAccountIdsByEmailsGlobal ==
  Method("lookupUbiAccountIdsByEmailsGlobal",
         Struct(<<F("emails", List(String))>>),
         Struct(<<F("ubiAccountIds", MapOf(String, String))>>))

LookupUsernamesByUbiAccountIdsGlobal ==
  Method("lookupUsernamesByUbiAccountIdsGlobal",
         Struct(<<F("ubiAccountIds", List(String))>>),
         Struct(<<F("usernames", MapOf(String, String))>>))

GetTosEx ==
  Method("getTosEx",
         Struct(<<F("countryCode", String), F("languageCode", String),
                  F("htmlVersion", Bool)>>),
         Struct(<<F("tosex", TOSEx)>>))

HasAcceptedLatestTos ==
  Method("hasAcceptedLatestTos",
         Struct(<< >>),
         Struct(<<F("hasAccepted", Bool), F("failedReasons", List(ValidationFailureReason))>>))

AcceptLatestTos ==
  Method("acceptLatestTos",
         Struct(<< >>),
         Struct(<<F("failedReasons", List(ValidationFailureReason))>>))

UbiAccountManagementProtocol ==
  Protocol(29, <<CreateAccount, UpdateAccount, GetAccount, LinkAccount, GetTos,
                 ValidateUsername, ValidatePassword, ValidateEmail, GetCountryList,
                 ForgetPassword, LookupPrincipalIds, LookupUbiAccountIdsByPids,
                 LookupUbiAccountIdsByUsernames, LookupUsernamesByUbiAccountIds,
                 LookupUbiAccountIdsByUsernameSubString, UserHasPlayed, IsUserPlaying,
                 LookupUbiAccountIdsByUsernamesGlobal, LookupUbiAccountIdsByEmailsGlobal,
                 LookupUsernamesByUbiAccountIdsGlobal, GetTosEx, HasAcceptedLatestTos,
                 AcceptLatestTos>>)

Privilege == Struct(<<F("id", U32), F("description", String)>>)

PrivilegeEx == Struct(<<F("id", U32), F("description", String), F("duration", I32)>>)

PrivilegeGroup == Struct(<<F("description", String), F("privileges", List(Privilege))>>)

------------------------------------------------------------------------------

GetPrivileges ==
  Method("getPrivileges",
         Struct(<<F("localeCode", String)>>),
         Struct(<<F("privileges", MapOf(U32, Privilege))>>))

ActivateKey ==
  Method("activateKey",
         Struct(<<F("uniqueKey", String), F("languageCode", String)>>),
         Struct(<<F("privilege", PrivilegeGroup)>>))

ActivateKeyWithExpectedPrivileges ==
  Method("activateKeyWithExpectedPrivileges",
         Struct(<<F("uniqueKey", String), F("languageCode", String),
                  F("expectedPrivilegeIds", List(U32))>>),
         Struct(<<F("privilege", PrivilegeGroup)>>))

GetPrivilegeRemainDuration ==
  Method("getPrivilegeRemainDuration",
         Struct(<<F("privilegeId", U32)>>),
         Struct(<<F("seconds", I32)>>))

GetExpiredPrivileges ==
  Method("getExpiredPrivileges",
         Struct(<< >>),
         Struct(<<F("expiredPrivileges", List(PrivilegeEx))>>))

GetPrivilegesEx ==
  Method("getPrivilegesEx",
         Struct(<<F("localeCode", String)>>),
         Struct(<<F("privilegesEx", List(PrivilegeEx))>>))

PrivilegesProtocol ==
  Protocol(35, <<GetPrivileges, ActivateKey, ActivateKeyWithExpectedPrivileges,
                 GetPrivilegeRemainDuration, GetExpiredPrivileges, GetPrivilegesEx>>)

------------------------------------------------------------------------------

GetLocaleCode ==
  Method("getLocaleCode",
         Struct(<< >>),
         Struct(<<F("localCode", String)>>))

SetLocaleCode ==
  Method("setLocaleCode",
         Struct(<<F("localCode", String)>>),
         Struct(<< >>))

LocalizationProtocol ==
  Protocol(39, <<GetLocaleCode, SetLocaleCode>>)

FriendChallenge ==
  Struct(<<F("challengeType", U32), F("mapId", U32), F("friendToBeatPid", U32),
           F("valueOnHand", U32), F("valueToBeat", U32)>>)

OnlineChallenge ==
  Struct(<<F("challengeId", U32), F("staticData", String), F("startTime", DateTime),
           F("endTime", DateTime), F("isComplete", Bool)>>)

------------------------------------------------------------------------------

GenerateMyFriendChallenges ==
  Method("generateMyFriendChallenges",
         Struct(<<F("friendPids", List(U32))>>),
         Struct(<<F("result", List(FriendChallenge))>>))

GenerateFriendChallenges ==
  Method("generateFriendChallenges",
         Struct(<<F("targetPid", U32), F("friendPids", List(U32))>>),
         Struct(<<F("result", List(FriendChallenge))>>))

GetOnlineChallenges ==
  Method("getOnlineChallenges",
         Struct(<< >>),
         Struct(<<F("onlineChallenges", List(OnlineChallenge))>>))

ChallengeHelperProtocol ==
  Protocol(105, <<GenerateMyFriendChallenges, GenerateFriendChallenges,
                  GetOnlineChallenges>>)

ClanInfo ==
  Struct(<<F("clid", U32), F("tag", String), F("title", String), F("motto", String)>>)

------------------------------------------------------------------------------

SetClanInfo ==
  Method("setClanInfo",
         Struct(<<F("newInfo", ClanInfo)>>),
         Struct(<< >>))

AddPidToClid ==
  Method("addPidToClid",
         Struct(<<F("targetPid", U32), F("clid", U32)>>),
         Struct(<< >>))

RemoveMemberByPid ==
  Method("removeMemberByPid",
         Struct(<<F("targetPid", U32)>>),
         Struct(<< >>))

DisbandEntireClid ==
  Method("disbandEntireClid",
         Struct(<<F("targetClid", U32)>>),
         Struct(<< >>))

GetClanInfoByPid ==
  Method("getClanInfoByPid",
         Struct(<<F("targetPid", U32)>>),
         Struct(<<F("clanInfo", ClanInfo)>>))

GetClanInfoByClid ==
  Method("getClanInfoByClid",
         Struct(<<F("targetClid", U32)>>),
         Struct(<<F("clanInfo", ClanInfo)>>))

GetMemberListByPid ==
  Method("getMemberListByPid",
         Struct(<<F("targetPid", U32)>>),
         Struct(<<F("members", List(U32))>>))

GetMemberListByClid ==
  Method("getMemberListByClid",
         Struct(<<F("targetClid", U32)>>),
         Struct(<<F("members", List(U32))>>))

GenerateClanChallenges ==
  Method("generateClanChallenges",
         Struct(<<F("targetPid", U32)>>),
         Struct(<<F("result", List(FriendChallenge))>>))

ClanHelperProtocol ==
  Protocol(106, <<SetClanInfo, AddPidToClid, RemoveMemberByPid, DisbandEntireClid,
                  GetClanInfoByPid, GetClanInfoByClid, GetMemberListByPid,
                  GetMemberListByClid, GenerateClanChallenges>>)

------------------------------------------------------------------------------

GetUnixUtc ==
  Method("getUnixUtc",
         Struct(<< >>),
         Struct(<<F("time", U32)>>))

AreLaddersAvailableInCountry ==
  Method("areLaddersAvailableInCountry",
         Struct(<< >>),
         Struct(<<F("allowed", Bool)>>))

CheckLadderIsRunning ==
  Method("checkLadderIsRunning",
         Struct(<<F("startTime", U32), F("endTime", U32)>>),
         Struct(<<F("running", Bool)>>))

ClearLadderLeaderboard ==
  Method("clearLadderLeaderboard",
         Struct(<<F("statSet", I32)>>),
         Struct(<<F("success", Bool)>>))

LadderHelperProtocol ==
  Protocol(107, <<GetUnixUtc, AreLaddersAvailableInCountry, CheckLadderIsRunning,
                  ClearLadderLeaderboard>>)
==============================================================================
