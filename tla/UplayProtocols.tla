---------------------------- MODULE UplayProtocols ----------------------------
(***************************************************************************)
(* Uplay actions and rewards, tracking.                                    *)
(* The messages of every method, with their fields in the order of the     *)
(* wire.  A method is found under its id, its position in the protocol.    *)
(***************************************************************************)
EXTENDS Schemas

UplayActionPlatform ==
  Struct(<<F("platformCode", String), F("completed", Bool), F("specificKey", String)>>)

UplayRewardPlatform == Struct(<<F("platformCode", String), F("purchased", Bool)>>)

UplayAction ==
  Struct(<<F("code", String), F("name", String), F("description", String), F("value", I32),
           F("gameCode", String), F("platforms", List(UplayActionPlatform))>>)

UplayReward ==
  Struct(<<F("code", String), F("name", String), F("description", String), F("value", I32),
           F("rewardTypeName", String), F("gameCode", String),
           F("platforms", List(UplayRewardPlatform))>>)

UplaySectionContentLocalized ==
  Struct(<<F("key", String), F("culture", String), F("text", String), F("url", String),
           F("duration", I32), F("size", String), F("width", String), F("height", String)>>)

UplaySectionContent ==
  Struct(<<F("key", String), F("name", String), F("order", I16), F("typeName", String),
           F("localizedInfo", UplaySectionContentLocalized)>>)

UplaySection ==
  Struct(<<F("key", String), F("name", String), F("typeName", String),
           F("menuTypeName", String), F("contentList", List(UplaySectionContent)),
           F("gameCode", String), F("platformCode", String)>>)

------------------------------------------------------------------------------

GetActions ==
  Method("getActions",
         Struct(<<F("startRowIndex", I32), F("maximumRows", I32),
                  F("sortExpression", String), F("cultureName", String),
                  F("platformCode", String), F("gameCode", String)>>),
         Struct(<<F("actionList", List(UplayAction))>>))

GetActionsCompleted ==
  Method("getActionsCompleted",
         Struct(<<F("startRowIndex", I32), F("maximumRows", I32),
                  F("sortExpression", String), F("cultureName", String),
                  F("platformCode", String), F("gameCode", String)>>),
         Struct(<<F("actionList", List(UplayAction))>>))

GetActionsCount ==
  Method("getActionsCount",
         Struct(<<F("platformCode", String), F("gameCode", String)>>),
         Struct(<<F("actionsCount", I32)>>))

GetActionsCompletedCount ==
  Method("getActionsCompletedCount",
         Struct(<<F("platformCode", String), F("gameCode", String)>>),
         Struct(<<F("actionsCount", I32)>>))

GetRewards ==
  Method("getRewards",
         Struct(<<F("startRowIndex", I32), F("maximumRows", I32),
                  F("sortExpression", String), F("cultureName", String),
                  F("platformCode", String), F("gameCode", String)>>),
         Struct(<<F("rewardList", List(UplayReward))>>))

GetRewardsPurchased ==
  Method("getRewardsPurchased",
         Struct(<<F("startRowIndex", I32), F("maximumRows", I32),
                  F("sortExpression", String), F("cultureName", String),
                  F("platformCode", String), F("gameCode", String)>>),
         Struct(<<F("rewardList", List(UplayReward))>>))

UplayWelcome ==
  Method("uplayWelcome",
         Struct(<<F("cultureName", String), F("platformCode", String),
                  F("gameCode", String)>>),
         Struct(<<F("actionList", List(UplayAction))>>))

SetActionCompleted ==
  Method("setActionCompleted",
         Struct(<<F("actionCode", String), F("cultureName", String),
                  F("platformCode", String), F("gameCode", String)>>),
         Struct(<<F("unlockedAction", UplayAction)>>))

SetActionsCompleted ==
  Method("setActionsCompleted",
         Struct(<<F("actionCodeList", List(String)), F("cultureName", String),
                  F("platformCode", String), F("gameCode", String)>>),
         Struct(<<F("actionList", List(UplayAction))>>))

GetUserToken ==
  Method("getUserToken",
         Struct(<< >>),
         Struct(<<F("token", String)>>))

GetVirtualCurrencyUserBalance ==
  Method("getVirtualCurrencyUserBalance",
         Struct(<<F("platformCode", String)>>),
         Struct(<<F("virtualCurrencyUserBalance", I32)>>))

GetSectionsByKey ==
  Method("getSectionsByKey",
         Struct(<<F("cultureName", String), F("sectionKey", String),
                  F("platformCode", String), F("gameCode", String)>>),
         Struct(<<F("sectionList", List(UplaySection))>>))

BuyReward ==
  Method("buyReward",
         Struct(<<F("rewardCode", String), F("platformCode", String)>>),
         Struct(<<F("virtualCurrencyUserBalance", I32)>>))

UplayWinProtocol ==
  Protocol(49, <<GetActions, GetActionsCompleted, GetActionsCount,
                 GetActionsCompletedCount, GetRewards, GetRewardsPurchased, UplayWelcome,
                 SetActionCompleted, SetActionsCompleted, GetUserToken,
                 GetVirtualCurrencyUserBalance, GetSectionsByKey, BuyReward>>)

TrackingInformation ==
  Struct(<<F("ipn", U32), F("userId", String), F("machineId", String),
           F("visitorId", String), F("utsVersion", String)>>)

TrackingTag ==
  Struct(<<F("trackingId", U32), F("tag", String), F("attributes", String),
           F("deltaTime", U32), F("newUserId", String)>>)

------------------------------------------------------------------------------

SendTag ==
  Method("sendTag",
         Struct(<<F("trackingId", U32), F("tag", String), F("attributes", String),
                  F("deltaTime", U32)>>),
         Struct(<< >>))

SendTagAndUpdateUserInfo ==
  Method("sendTagAndUpdateUserInfo",
         Struct(<<F("trackingId", U32), F("tag", String), F("attributes", String),
                  F("deltaTime", U32), F("userId", String)>>),
         Struct(<< >>))

SendUserInfo ==
  Method("sendUserInfo",
         Struct(<<F("deltaTime", U32)>>),
         Struct(<<F("userInfo", TrackingInformation), F("trackingId", U32)>>))

GetConfiguration ==
  Method("getConfiguration",
         Struct(<< >>),
         Struct(<<F("tags", List(String))>>))

SendTags ==
  Method("sendTags",
         Struct(<<F("tagData", List(TrackingTag))>>),
         Struct(<< >>))

TrackingProtocol3 ==
  Protocol(36, <<SendTag, SendTagAndUpdateUserInfo, SendUserInfo, GetConfiguration,
                 SendTags>>)

------------------------------------------------------------------------------

GetTrackingUserGroup ==
  Method("getTrackingUserGroup",
         Struct(<<F("pid", U32)>>),
         Struct(<<F("usergroup", U32)>>))

GetTrackingUserGroupTags ==
  Method("getTrackingUserGroupTags",
         Struct(<<F("usergroup", U32)>>),
         Struct(<<F("tags", List(String))>>))

TrackingExtensionProtocol ==
  Protocol(1001, <<GetTrackingUserGroup, GetTrackingUserGroupTags>>)
==============================================================================
