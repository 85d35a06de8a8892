---------------------------- MODULE UlpTypes ----------------------------
(***************************************************************************)
(* The types of package `ulp`, the User Plane Location Protocol: the shape *)
(* of each Go type in src/example/ulp/types.go, in the order of the file.  *)
(* Those of ULP-Components.asn are in UlpComponents.                       *)
(***************************************************************************)
LOCAL INSTANCE Shapes
LOCAL INSTANCE TLC
LOCAL Components == INSTANCE UlpComponents

SUPLINIT == ExtSequence(
  <<Field("PosMethod", Ref("PosMethod")), Optional("Notification", Ref("Notification")),
    Optional("SLPAddress", Ref("SLPAddress")), Optional("QoP", Ref("QoP")),
    Field("SLPMode", Ref("SLPMode")), Optional("Mac", Ref("MAC")),
    Optional("KeyIdentity", Ref("KeyIdentity"))>>,
  <<Optional("Ver2SUPLINITExtension", Ref("Ver2SUPLINITExtension"))>>)
Notification == ExtSequence(
  <<Field("NotificationType", Ref("NotificationType")),
    Optional("EncodingType", Ref("EncodingType")),
    Optional("RequestorId", OctetString("1", "50")),
    Optional("RequestorIdType", Ref("FormatIndicator")),
    Optional("ClientName", OctetString("1", "50")),
    Optional("ClientNameType", Ref("FormatIndicator"))>>,
  <<Optional("Ver2NotificationExtension", Ref("Ver2NotificationExtension"))>>)
NotificationType == ExtEnumerated(
  <<"NoNotificationNoVerification", "NotificationOnly", "NotificationAndVerficationAllowedNA",
    "NotificationAndVerficationDeniedNA", "PrivacyOverride">>,
  <<>>)
EncodingType == ExtEnumerated(<<"Ucs2", "GsmDefault", "Utf8">>, <<>>)
FormatIndicator == ExtEnumerated(
  <<"LogicalName", "EMailAddress", "Msisdn", "Url", "SipUrl", "Min", "Mdn", "IMSPublicidentity">>,
  <<>>)
SLPMode == Enumerated(<<"Proxy", "NonProxy">>)
MAC == BitString("64", "64")
KeyIdentity == BitString("128", "128")
SUPLSTART == ExtSequence(
  <<Field("SETCapabilities", Ref("SETCapabilities")), Field("LocationId", Ref("LocationId")),
    Optional("QoP", Ref("QoP"))>>,
  <<Optional("Ver2SUPLSTARTExtension", Ref("Ver2SUPLSTARTExtension"))>>)
SETCapabilities == ExtSequence(
  <<Field("PosTechnology", Ref("PosTechnology")), Field("PrefMethod", Ref("PrefMethod")),
    Field("PosProtocol", Ref("PosProtocol"))>>,
  <<Optional("Ver2SETCapabilitiesExtension", Ref("Ver2SETCapabilitiesExtension"))>>)
PosTechnology == ExtSequence(
  <<Field("AgpsSETassisted", Boolean), Field("AgpsSETBased", Boolean),
    Field("AutonomousGPS", Boolean), Field("Aflt", Boolean), Field("Ecid", Boolean),
    Field("Eotd", Boolean), Field("Otdoa", Boolean)>>,
  <<Optional("Ver2PosTechnologyExtension", Ref("Ver2PosTechnologyExtension"))>>)
PrefMethod == Enumerated(<<"AgpsSETassistedPreferred", "AgpsSETBasedPreferred", "NoPreference">>)
PosProtocol == ExtSequence(
  <<Field("Tia801", Boolean), Field("Rrlp", Boolean), Field("Rrc", Boolean)>>,
  <<Optional("Ver2PosProtocolExtension", Ref("Ver2PosProtocolExtension"))>>)
SUPLRESPONSE == ExtSequence(
  <<Field("PosMethod", Ref("PosMethod")), Optional("SLPAddress", Ref("SLPAddress")),
    Optional("SETAuthKey", Ref("SETAuthKey")), Optional("KeyIdentity4", Ref("KeyIdentity4"))>>,
  <<Optional("Ver2SUPLRESPONSEExtension", Ref("Ver2SUPLRESPONSEExtension"))>>)
SETAuthKey == ExtChoice(
  <<Field("ShortKey", BitString("128", "128")), Field("LongKey", BitString("256", "256"))>>,
  <<>>)
KeyIdentity4 == BitString("128", "128")
SUPLPOSINIT == ExtSequence(
  <<Field("SETCapabilities", Ref("SETCapabilities")),
    Optional("RequestedAssistData", Ref("RequestedAssistData")),
    Field("LocationId", Ref("LocationId")), Optional("Position", Ref("Position")),
    Optional("Suplpos", Ref("SUPLPOS")), Optional("Ver", Ref("Ver"))>>,
  <<Optional("Ver2SUPLPOSINITExtension", Ref("Ver2SUPLPOSINITExtension"))>>)
RequestedAssistData == ExtSequence(
  <<Field("AlmanacRequested", Boolean), Field("UtcModelRequested", Boolean),
    Field("IonosphericModelRequested", Boolean), Field("DgpsCorrectionsRequested", Boolean),
    Field("ReferenceLocationRequested", Boolean), Field("ReferenceTimeRequested", Boolean),
    Field("AcquisitionAssistanceRequested", Boolean),
    Field("RealTimeIntegrityRequested", Boolean), Field("NavigationModelRequested", Boolean),
    Optional("NavigationModelData", Ref("NavigationModel"))>>,
  <<Optional("Ver2RequestedAssistDataExtension", Ref("Ver2RequestedAssistDataExtension"))>>)
NavigationModel == ExtSequence(
  <<Field("GpsWeek", Integer("0", "1023")), Field("GpsToe", Integer("0", "167")),
    Field("Nsat", Integer("0", "31")), Field("ToeLimit", Integer("0", "10")),
    Optional("SatInfo", Ref("SatelliteInfo"))>>,
  <<>>)
SatelliteInfo == SizedListOf(Ref("SatelliteInfoElement"), "1", "31")
SatelliteInfoElement == ExtSequence(
  <<Field("SatId", Integer("0", "63")), Field("Iode", Integer("0", "255"))>>,
  <<>>)
SUPLPOS == ExtSequence(
  <<Field("PosPayLoad", Ref("PosPayLoad")), Optional("Velocity", Ref("Velocity"))>>,
  <<Optional("Ver2SUPLPOSExtension", Ref("Ver2SUPLPOSExtension"))>>)
PosPayLoad == ExtChoice(
  <<Field("Tia801payload", OctetString("1", "8192")),
    Field("RrcPayload", OctetString("1", "8192")), Field("RrlpPayload", OctetString("1", "8192"))>>,
  <<Field("Ver2PosPayLoadExtension", Ref("Ver2PosPayLoadExtension"))>>)
SUPLEND == ExtSequence(
  <<Optional("Position", Ref("Position")), Optional("StatusCode", Ref("StatusCode")),
    Optional("Ver", Ref("Ver"))>>,
  <<Optional("Ver2SUPLENDExtension", Ref("Ver2SUPLENDExtension"))>>)
SUPLAUTHREQ == ExtSequence(
  <<Optional("Ver", Ref("Ver")), Optional("SETCapabilities", Ref("SETCapabilities"))>>,
  <<>>)
SUPLAUTHRESP == ExtSequence(
  <<Field("SPCSETKey", Ref("SPCSETKey")), Field("Spctid", Ref("SPCTID")),
    Optional("SPCSETKeylifetime", Ref("SPCSETKeylifetime"))>>,
  <<>>)
Ver2SUPLNOTIFY == ExtSequence(<<Field("Notification", Ref("Notification"))>>, <<>>)
Ver2SUPLNOTIFYRESPONSE == ExtSequence(
  <<Optional("NotificationResponse", Ref("NotificationResponse"))>>,
  <<>>)
NotificationResponse == ExtEnumerated(<<"Allowed", "NotAllowed">>, <<>>)
Ver2SUPLSETINIT == ExtSequence(
  <<Field("TargetSETID", Ref("SETId")), Optional("QoP", Ref("QoP")),
    Optional("ApplicationID", Ref("ApplicationID"))>>,
  <<>>)
Ver2SUPLTRIGGEREDSTART == ExtSequence(
  <<Field("SETCapabilities", Ref("SETCapabilities")), Field("LocationId", Ref("LocationId")),
    Optional("Ver", Ref("Ver")), Optional("QoP", Ref("QoP")),
    Optional("MultipleLocationIds", Ref("MultipleLocationIds")),
    Optional("ThirdParty", Ref("ThirdParty")), Optional("ApplicationID", Ref("ApplicationID")),
    Optional("TriggerType", Ref("TriggerType")), Optional("TriggerParams", Ref("TriggerParams")),
    Optional("Position", Ref("Position")), Optional("ReportingCap", Ref("ReportingCap")),
    Optional("CauseCode", Ref("CauseCode"))>>,
  <<>>)
TriggerType == ExtEnumerated(<<"Periodic", "AreaEvent">>, <<>>)
TriggerParams == ExtChoice(
  <<Field("PeriodicParams", Ref("PeriodicParams")),
    Field("AreaEventParams", Ref("AreaEventParams"))>>,
  <<>>)
PeriodicParams == ExtSequence(
  <<Field("NumberOfFixes", Integer("1", "8639999")),
    Field("IntervalBetweenFixes", Integer("1", "8639999")),
    Optional("StartTime", Integer("0", "2678400"))>>,
  <<>>)
AreaEventParams == ExtSequence(
  <<Field("AreaEventType", Ref("AreaEventType")), Field("LocationEstimate", Boolean),
    Optional("RepeatedReportingParams", Ref("RepeatedReportingParams")),
    Optional("StartTime", Integer("0", "2678400")),
    Optional("StopTime", Integer("0", "11318399")),
    Optional("GeographicTargetAreaList", Ref("GeographicTargetAreaList")),
    Optional("AreaIdLists", Ref("AreaEventParamsAreaIdLists"))>>,
  <<>>)
AreaEventType == ExtEnumerated(
  <<"EnteringArea", "InsideArea", "OutsideArea", "LeavingArea">>,
  <<>>)
RepeatedReportingParams == ExtSequence(
  <<Field("MinimumIntervalTime", Integer("1", "604800")),
    Field("MaximumNumberOfReports", Integer("1", "1024"))>>,
  <<>>)
GeographicTargetAreaList == SizedListOf(Ref("GeographicTargetArea"), "1", "32")
GeographicTargetArea == ExtChoice(
  <<Field("CircularArea", Ref("CircularArea")), Field("EllipticalArea", Ref("EllipticalArea")),
    Field("PolygonArea", Ref("PolygonArea"))>>,
  <<>>)
AreaIdList == Sequence(
  <<Field("AreaIdSet", Ref("AreaIdSet")), Optional("AreaIdSetType", Ref("AreaIdSetType")),
    Optional("GeoAreaMappingList", Ref("GeoAreaMappingList"))>>)
AreaIdSet == SizedListOf(Ref("AreaId"), "1", "256")
AreaId == ExtChoice(
  <<Field("GSMAreaId", Ref("GSMAreaId")), Field("WCDMAAreaId", Ref("WCDMAAreaId")),
    Field("CDMAAreaId", Ref("CDMAAreaId")), Field("HRPDAreaId", Ref("HRPDAreaId")),
    Field("UMBAreaId", Ref("UMBAreaId")), Field("LTEAreaId", Ref("LTEAreaId")),
    Field("WLANAreaId", Ref("WLANAreaId")), Field("WiMAXAreaId", Ref("WimaxAreaId"))>>,
  <<Field("NRAreaId", Ref("NRAreaId"))>>)
GSMAreaId == ExtSequence(
  <<Optional("RefMCC", Integer("0", "999")), Optional("RefMNC", Integer("0", "999")),
    Optional("RefLAC", Integer("0", "65535")), Optional("RefCI", Integer("0", "65535"))>>,
  <<>>)
WCDMAAreaId == ExtSequence(
  <<Optional("RefMCC", Integer("0", "999")), Optional("RefMNC", Integer("0", "999")),
    Optional("RefLAC", Integer("0", "65535")), Optional("RefUC", Integer("0", "268435455"))>>,
  <<>>)
CDMAAreaId == ExtSequence(
  <<Optional("RefSID", Integer("0", "65535")), Optional("RefNID", Integer("0", "32767")),
    Optional("RefBASEID", Integer("0", "65535"))>>,
  <<>>)
HRPDAreaId == ExtSequence(<<Field("RefSECTORID", BitString("128", "128"))>>, <<>>)
UMBAreaId == ExtSequence(
  <<Optional("RefMCC", Integer("0", "999")), Optional("RefMNC", Integer("0", "999")),
    Optional("RefSECTORID", BitString("128", "128"))>>,
  <<>>)
LTEAreaId == ExtSequence(
  <<Optional("RefMCC", Integer("0", "999")), Optional("RefMNC", Integer("0", "999")),
    Optional("RefCI", BitString("29", "29"))>>,
  <<>>)
WLANAreaId == ExtSequence(<<Field("ApMACAddress", BitString("48", "48"))>>, <<>>)
WimaxAreaId == Sequence(
  <<Optional("BsIDMSB", BitString("24", "24")), Field("BsIDLSB", BitString("24", "24"))>>)
NRAreaId == ExtSequence(
  <<Optional("RefMCC", Integer("0", "999")), Optional("RefMNC", Integer("0", "999")),
    Optional("RefCI", BitString("36", "36"))>>,
  <<>>)
AreaIdSetType == ExtEnumerated(<<"Border", "Within">>, <<>>)
GeoAreaMappingList == SizedListOf(Ref("GeoAreaIndex"), "1", "32")
GeoAreaIndex == Integer("1", "32")
Ver2SUPLTRIGGEREDRESPONSE == ExtSequence(
  <<Field("PosMethod", Ref("PosMethod")), Optional("TriggerParams", Ref("TriggerParams")),
    Optional("SLPAddress", Ref("SLPAddress")),
    Optional("SupportedNetworkInformation", Ref("SupportedNetworkInformation")),
    Optional("ReportingMode", Ref("ReportingMode")), Optional("SPCSETKey", Ref("SPCSETKey")),
    Optional("Spctid", Ref("SPCTID")), Optional("SPCSETKeylifetime", Ref("SPCSETKeylifetime")),
    Optional("GnssPosTechnology", Ref("GNSSPosTechnology"))>>,
  <<>>)
ReportingMode == ExtSequence(
  <<Field("RepMode", Ref("RepModee")), Optional("BatchRepConditions", Ref("BatchRepConditions")),
    Optional("BatchRepType", Ref("BatchRepType"))>>,
  <<>>)
RepModee == ExtEnumeratedAt(
  <<Item("Realtime", 1), Item("Quasirealtime", 2), Item("Batch", 3)>>,
  <<>>)
BatchRepConditions == ExtChoice(
  <<Field("NumInterval", Integer("1", "1024")), Field("NumMinutes", Integer("1", "2048")),
    Field("Endofsession", Null)>>,
  <<>>)
BatchRepType == ExtSequence(
  <<Field("ReportPosition", Boolean), Field("ReportMeasurements", Boolean),
    Field("IntermediateReports", Boolean), Optional("DiscardOldest", Boolean)>>,
  <<>>)
Ver2SUPLREPORT == ExtSequence(
  <<Optional("SessionList", Ref("SessionList")),
    Optional("SETCapabilities", Ref("SETCapabilities")),
    Optional("ReportDataList", Ref("ReportDataList")), Optional("Ver", Ref("Ver")),
    Optional("MoreComponents", Null)>>,
  <<>>)
SessionList == SizedListOf(Ref("SessionInformation"), "1", "64")
SessionInformation == ExtSequence(<<Field("SessionID", Ref("SessionID"))>>, <<>>)
ReportDataList == SizedListOf(Ref("ReportData"), "1", "1024")
ReportData == ExtSequence(
  <<Optional("PositionData", Ref("PositionData")),
    Optional("MultipleLocationIds", Ref("MultipleLocationIds")),
    Optional("ResultCode", Ref("ResultCode")), Optional("Timestamp", Ref("TimeStamp"))>>,
  <<>>)
PositionData == ExtSequence(
  <<Field("Position", Ref("Position")), Optional("PosMethod", Ref("PosMethod")),
    Optional("GnssPosTechnology", Ref("GNSSPosTechnology")),
    Optional("GanssSignalsInfo", Ref("GANSSsignalsInfo"))>>,
  <<>>)
GANSSsignalsInfo == SizedListOf(Ref("GANSSSignalsDescription"), "1", "16")
GANSSSignalsDescription == ExtSequence(
  <<Field("GanssId", Integer("0", "15")), Field("GANSSSignals", Ref("GANSSSignals"))>>,
  <<>>)
ResultCode == ExtEnumeratedAt(
  <<Item("Outofradiocoverage", 1), Item("Noposition", 2), Item("Nomeasurement", 3),
    Item("Nopositionnomeasurement", 4), Item("Outofmemory", 5),
    Item("Outofmemoryintermediatereporting", 6), Item("Other", 7)>>,
  <<>>)
TimeStamp == Choice(
  <<Field("AbsoluteTime", UTCTime), Field("RelativeTime", Integer("0", "31536000"))>>)
Ver2SUPLTRIGGEREDSTOP == ExtSequence(<<Optional("StatusCode", Ref("StatusCode"))>>, <<>>)
Ver2SUPLINITExtension == ExtSequence(
  <<Optional("NotificationMode", Ref("NotificationMode")),
    Optional("SupportedNetworkInformation", Ref("SupportedNetworkInformation")),
    Optional("TriggerType", Ref("TriggerType")), Optional("ESLPAddress", Ref("SLPAddress")),
    Optional("HistoricReporting", Ref("HistoricReporting")),
    Optional("ProtectionLevel", Ref("ProtectionLevel")),
    Optional("GnssPosTechnology", Ref("GNSSPosTechnology")),
    Optional("MinimumMajorVersion", Integer("0", "255"))>>,
  <<>>)
NotificationMode == ExtEnumerated(<<"Normal", "BasedOnLocation">>, <<>>)
HistoricReporting == ExtSequence(
  <<Field("AllowedReportingType", Ref("AllowedReportingType")),
    Optional("ReportingCriteria", Ref("ReportingCriteria"))>>,
  <<>>)
AllowedReportingType == ExtEnumerated(
  <<"PositionsOnly", "MeasurementsOnly", "PositionsAndMeasurements">>,
  <<>>)
ReportingCriteria == ExtSequence(
  <<Optional("TimeWindow", Ref("TimeWindow")),
    Optional("MaxNumberofReports", Integer("1", "65536")),
    Optional("MinTimeInterval", Integer("1", "86400"))>>,
  <<>>)
TimeWindow == Sequence(
  <<Field("StartTime", Integer("-525600", "-1")), Field("StopTime", Integer("-525599", "0"))>>)
ProtectionLevel == ExtSequence(
  <<Field("Protlevel", Ref("ProtLevel")),
    Optional("BasicProtectionParams", Ref("BasicProtectionParams"))>>,
  <<>>)
ProtLevel == ExtEnumerated(<<"NullProtection", "BasicProtection">>, <<>>)
BasicProtectionParams == ExtSequence(
  <<Field("KeyIdentifier", OctetString("8", "8")),
    Field("BasicReplayCounter", Integer("0", "65535")), Field("BasicMAC", BitString("32", "32"))>>,
  <<>>)
Ver2SUPLSTARTExtension == ExtSequence(
  <<Optional("MultipleLocationIds", Ref("MultipleLocationIds")),
    Optional("ThirdParty", Ref("ThirdParty")), Optional("ApplicationID", Ref("ApplicationID")),
    Optional("Position", Ref("Position"))>>,
  <<>>)
Ver2SUPLRESPONSEExtension == ExtSequence(
  <<Optional("SupportedNetworkInformation", Ref("SupportedNetworkInformation")),
    Optional("SPCSETKey", Ref("SPCSETKey")), Optional("Spctid", Ref("SPCTID")),
    Optional("SPCSETKeylifetime", Ref("SPCSETKeylifetime")),
    Optional("InitialApproximateposition", Ref("Position")),
    Optional("GnssPosTechnology", Ref("GNSSPosTechnology"))>>,
  <<>>)
Ver2SUPLPOSINITExtension == ExtSequence(
  <<Optional("MultipleLocationIds", Ref("MultipleLocationIds")),
    Optional("UtranGPSReferenceTimeResult", Ref("UTRANGPSReferenceTimeResult")),
    Optional("UtranGANSSReferenceTimeResult", Ref("UTRANGANSSReferenceTimeResult"))>>,
  <<>>)
Ver2SUPLPOSExtension == ExtSequence(
  <<Optional("UtranGPSReferenceTimeAssistance", Ref("UTRANGPSReferenceTimeAssistance")),
    Optional("UtranGPSReferenceTimeResult", Ref("UTRANGPSReferenceTimeResult")),
    Optional("UtranGANSSReferenceTimeAssistance", Ref("UTRANGANSSReferenceTimeAssistance")),
    Optional("UtranGANSSReferenceTimeResult", Ref("UTRANGANSSReferenceTimeResult"))>>,
  <<>>)
Ver2SUPLENDExtension == ExtSequence(<<Optional("SETCapabilities", Ref("SETCapabilities"))>>, <<>>)
Ver2NotificationExtension == ExtSequence(<<Optional("EmergencyCallLocation", Null)>>, <<>>)
Ver2SETCapabilitiesExtension == ExtSequence(
  <<Optional("ServiceCapabilities", Ref("ServiceCapabilities"))>>,
  <<Optional("SupportedBearers", Ref("SupportedBearers"))>>)
ServiceCapabilities == ExtSequence(
  <<Field("ServicesSupported", Ref("ServicesSupported")),
    Optional("ReportingCapabilities", Ref("ReportingCap")),
    Optional("EventTriggerCapabilities", Ref("EventTriggerCapabilities")),
    Field("SessionCapabilities", Ref("SessionCapabilities"))>>,
  <<>>)
ServicesSupported == ExtSequence(
  <<Field("PeriodicTrigger", Boolean), Field("AreaEventTrigger", Boolean)>>,
  <<>>)
EventTriggerCapabilities == ExtSequence(
  <<Field("GeoAreaShapesSupported", Ref("GeoAreaShapesSupported")),
    Optional("MaxNumGeoAreaSupported", Integer("0", "32")),
    Optional("MaxAreaIdListSupported", Integer("0", "32")),
    Optional("MaxAreaIdSupportedPerList", Integer("0", "256"))>>,
  <<>>)
GeoAreaShapesSupported == ExtSequence(
  <<Field("EllipticalArea", Boolean), Field("PolygonArea", Boolean)>>,
  <<>>)
SessionCapabilities == ExtSequence(
  <<Field("MaxNumberTotalSessions", Integer("1", "128")),
    Field("MaxNumberPeriodicSessions", Integer("1", "32")),
    Field("MaxNumberTriggeredSessions", Integer("1", "32"))>>,
  <<>>)
SupportedBearers == ExtSequence(
  <<Field("Gsm", Boolean), Field("Wcdma", Boolean), Field("Lte", Boolean), Field("Cdma", Boolean),
    Field("Hprd", Boolean), Field("Umb", Boolean), Field("Wlan", Boolean), Field("WiMAX", Boolean)>>,
  <<Optional("Nr", Boolean)>>)
Ver2PosProtocolExtension == ExtSequence(
  <<Field("Lpp", Boolean), Optional("PosProtocolVersionRRLP", Ref("PosProtocolVersion3GPP")),
    Optional("PosProtocolVersionRRC", Ref("PosProtocolVersion3GPP")),
    Optional("PosProtocolVersionTIA801", Ref("PosProtocolVersion3GPP2")),
    Optional("PosProtocolVersionLPP", Ref("PosProtocolVersion3GPP"))>>,
  <<Optional("Lppe", Boolean), Optional("PosProtocolVersionLPPe", Ref("PosProtocolVersionOMA"))>>)
PosProtocolVersion3GPP == ExtSequence(
  <<Field("MajorVersionField", Integer("0", "255")),
    Field("TechnicalVersionField", Integer("0", "255")),
    Field("EditorialVersionField", Integer("0", "255"))>>,
  <<>>)
PosProtocolVersion3GPP2 == SizedListOf(Ref("Supported3GPP2PosProtocolVersion"), "1", "8")
Supported3GPP2PosProtocolVersion == ExtSequence(
  <<Field("RevisionNumber", BitString("6", "6")),
    Field("PointReleaseNumber", Integer("0", "255")),
    Field("InternalEditLevel", Integer("0", "255"))>>,
  <<>>)
PosProtocolVersionOMA == ExtSequence(
  <<Field("MajorVersionField", Integer("0", "255")),
    Field("MinorVersionField", Integer("0", "255"))>>,
  <<>>)
Ver2PosTechnologyExtension == ExtSequence(
  <<Optional("GANSSPositionMethods", Ref("GANSSPositionMethods"))>>,
  <<Optional("AdditionalPositioningMethods", Ref("AdditionalPositioningMethods"))>>)
GANSSPositionMethods == SizedListOf(Ref("GANSSPositionMethod"), "1", "16")
GANSSPositionMethod == ExtSequence(
  <<Field("GanssId", Integer("0", "15")), Optional("GanssSBASid", BitString("3", "3")),
    Field("GANSSPositioningMethodTypes", Ref("GANSSPositioningMethodTypes")),
    Field("GANSSSignals", Ref("GANSSSignals"))>>,
  <<>>)
GANSSPositioningMethodTypes == ExtSequence(
  <<Field("SetAssisted", Boolean), Field("SetBased", Boolean), Field("Autonomous", Boolean)>>,
  <<>>)
AdditionalPositioningMethods == SizedListOf(Ref("AddPosSupportElement"), "1", "8")
AddPosSupportElement == ExtSequence(
  <<Field("AddPosID", Ref("AddPosSupportElementAddPosID")),
    Optional("AddPosMode", BitString("1", "8"))>>,
  <<>>)
Ver2RequestedAssistDataExtension == ExtSequence(
  <<Optional("GanssRequestedCommonAssistanceDataList", Ref("GanssRequestedCommonAssistanceDataList")),
    Optional("GanssRequestedGenericAssistanceDataList", Ref("GanssRequestedGenericAssistanceDataList")),
    Optional("ExtendedEphemeris", Ref("ExtendedEphemeris")),
    Optional("ExtendedEphemerisCheck", Ref("ExtendedEphCheck"))>>,
  <<>>)
GanssRequestedCommonAssistanceDataList == ExtSequence(
  <<Field("GanssReferenceTime", Boolean), Field("GanssIonosphericModel", Boolean),
    Field("GanssAdditionalIonosphericModelForDataID00", Boolean),
    Field("GanssAdditionalIonosphericModelForDataID11", Boolean),
    Field("GanssEarthOrientationParameters", Boolean)>>,
  <<Optional("GanssAdditionalIonosphericModelForDataID01", Boolean)>>)
GanssRequestedGenericAssistanceDataList == SizedListOf(Ref("GanssReqGenericData"), "1", "16")
GanssReqGenericData == ExtSequence(
  <<Field("GanssId", Integer("0", "15")), Optional("GanssSBASid", BitString("3", "3")),
    Field("GanssRealTimeIntegrity", Boolean),
    Optional("GanssDifferentialCorrection", Ref("DGANSSSigIdReq")),
    Field("GanssAlmanac", Boolean),
    Optional("GanssNavigationModelData", Ref("GanssNavigationModelData")),
    Optional("GanssTimeModels", BitString("16", "16")),
    Field("GanssReferenceMeasurementInfo", Boolean),
    Optional("GanssDataBits", Ref("GanssDataBits")), Field("GanssUTCModel", Boolean),
    Optional("GanssAdditionalDataChoices", Ref("GanssAdditionalDataChoices")),
    Field("GanssAuxiliaryInformation", Boolean),
    Optional("GanssExtendedEphemeris", Ref("ExtendedEphemeris")),
    Optional("GanssExtendedEphemerisCheck", Ref("GanssExtendedEphCheck"))>>,
  <<Optional("BdsDifferentialCorrection", Ref("BDSSigIdReq")),
    Optional("BdsGridModelReq", Boolean)>>)
DGANSSSigIdReq == BitString("8", "8")
BDSSigIdReq == BitString("8", "8")
GanssNavigationModelData == ExtSequence(
  <<Field("GanssWeek", Integer("0", "4095")), Field("GanssToe", Integer("0", "167")),
    Field("TToeLimit", Integer("0", "15")),
    Optional("SatellitesListRelatedDataList", Ref("SatellitesListRelatedDataList"))>>,
  <<>>)
SatellitesListRelatedDataList == SizedListOf(Ref("SatellitesListRelatedData"), "0", "32")
SatellitesListRelatedData == ExtSequence(
  <<Field("SatId", Integer("0", "63")), Field("Iod", Integer("0", "1023"))>>,
  <<>>)
GanssDataBits == ExtSequence(
  <<Field("GanssTODmin", Integer("0", "59")),
    Field("ReqDataBitAssistanceList", Ref("ReqDataBitAssistanceList"))>>,
  <<>>)
ReqDataBitAssistanceList == ExtSequence(
  <<Field("GnssSignals", Ref("GANSSSignals")), Field("GanssDataBitInterval", Integer("0", "15")),
    Optional("GanssDataBitSatList", Ref("ReqDataBitAssistanceListGanssDataBitSatList"))>>,
  <<>>)
GanssAdditionalDataChoices == ExtSequence(
  <<Optional("OrbitModelID", Integer("0", "7")), Optional("ClockModelID", Integer("0", "7")),
    Optional("UtcModelID", Integer("0", "7")), Optional("AlmanacModelID", Integer("0", "7"))>>,
  <<>>)
ExtendedEphemeris == ExtSequence(<<Field("Validity", Integer("1", "256"))>>, <<>>)
ExtendedEphCheck == ExtSequence(
  <<Field("BeginTime", Ref("GPSTime")), Field("EndTime", Ref("GPSTime"))>>,
  <<>>)
GanssExtendedEphCheck == ExtSequence(
  <<Field("BeginTime", Ref("GANSSextEphTime")), Field("EndTime", Ref("GANSSextEphTime"))>>,
  <<>>)
GPSTime == ExtSequence(
  <<Field("GPSWeek", Integer("0", "1023")), Field("GPSTOWhour", Integer("0", "167"))>>,
  <<>>)
GANSSextEphTime == ExtSequence(
  <<Field("GANSSday", Integer("0", "8191")), Field("GANSSTODhour", Integer("0", "23"))>>,
  <<>>)
Ver2PosPayLoadExtension == ExtSequence(
  <<Optional("LPPPayload", Ref("Ver2PosPayLoadExtensionLPPPayload")),
    Optional("Tia801Payload", Ref("Ver2PosPayLoadExtensionTia801Payload"))>>,
  <<>>)
ULPPDU == Sequence(
  <<Field("Length", Integer("0", "65535")), Field("Version", Ref("Version")),
    Field("SessionID", Ref("SessionID")), Field("Message", Ref("UlpMessage"))>>)
UlpMessage == ExtChoice(
  <<Field("MsSUPLINIT", Ref("SUPLINIT")), Field("MsSUPLSTART", Ref("SUPLSTART")),
    Field("MsSUPLRESPONSE", Ref("SUPLRESPONSE")), Field("MsSUPLPOSINIT", Ref("SUPLPOSINIT")),
    Field("MsSUPLPOS", Ref("SUPLPOS")), Field("MsSUPLEND", Ref("SUPLEND")),
    Field("MsSUPLAUTHREQ", Ref("SUPLAUTHREQ")), Field("MsSUPLAUTHRESP", Ref("SUPLAUTHRESP"))>>,
  <<Field("MsSUPLTRIGGEREDSTART", Ref("Ver2SUPLTRIGGEREDSTART")),
    Field("MsSUPLTRIGGEREDRESPONSE", Ref("Ver2SUPLTRIGGEREDRESPONSE")),
    Field("MsSUPLTRIGGEREDSTOP", Ref("Ver2SUPLTRIGGEREDSTOP")),
    Field("MsSUPLNOTIFY", Ref("Ver2SUPLNOTIFY")),
    Field("MsSUPLNOTIFYRESPONSE", Ref("Ver2SUPLNOTIFYRESPONSE")),
    Field("MsSUPLSETINIT", Ref("Ver2SUPLSETINIT")), Field("MsSUPLREPORT", Ref("Ver2SUPLREPORT"))>>)
AreaEventParamsAreaIdLists == SizedListOf(Ref("AreaIdList"), "1", "32")
AddPosSupportElementAddPosID == ExtEnumerated(<<"MBS">>, <<>>)
ReqDataBitAssistanceListGanssDataBitSatList == SizedListOf(Integer("0", "63"), "1", "32")
Ver2PosPayLoadExtensionLPPPayload == SizedListOf(OctetString("1", "60000"), "1", "3")
Ver2PosPayLoadExtensionTia801Payload == SizedListOf(OctetString("1", "60000"), "1", "3")
PositionEstimateLatitudeSign == Enumerated(<<"North", "South">>)
PositionEstimateUncertainty == Sequence(
  <<Field("UncertaintySemiMajor", Integer("0", "127")),
    Field("UncertaintySemiMinor", Integer("0", "127")),
    Field("OrientationMajorAxis", Integer("0", "180"))>>)
AltitudeInfoAltitudeDirection == Enumerated(<<"Height", "Depth">>)
FrequencyInfoModeSpecificInfo == ExtChoice(
  <<Field("Fdd", Ref("FrequencyInfoFDD")), Field("Tdd", Ref("FrequencyInfoTDD"))>>,
  <<>>)
CellMeasuredResultsModeSpecificInfoFdd == Sequence(
  <<Field("PrimaryCPICHInfo", Ref("PrimaryCPICHInfo")), Optional("CpichEcN0", Ref("CPICHEcN0")),
    Optional("CpichRSCP", Ref("CPICHRSCP")), Optional("Pathloss", Ref("Pathloss"))>>)
CellMeasuredResultsModeSpecificInfoTdd == Sequence(
  <<Field("CellParametersID", Ref("CellParametersID")), Optional("ProposedTGSN", Ref("TGSN")),
    Optional("PrimaryCCPCHRSCP", Ref("PrimaryCCPCHRSCP")), Optional("Pathloss", Ref("Pathloss")),
    Optional("TimeslotISCPList", Ref("TimeslotISCPList"))>>)
CellMeasuredResultsModeSpecificInfo == Choice(
  <<Field("Fdd", Ref("CellMeasuredResultsModeSpecificInfoFdd")),
    Field("Tdd", Ref("CellMeasuredResultsModeSpecificInfoTdd"))>>)
SupportedWLANApsListSupportedWLANApDataList == SizedListOf(Ref("SupportedWLANApData"), "1", "128")
SupportedWLANApDataApDevType == ExtEnumerated(<<"Wlan80211a", "Wlan80211b", "Wlan80211g">>, <<>>)
MeasResultEUTRACgiInfo == Sequence(
  <<Field("CellGlobalId", Ref("CellGlobalIdEUTRA")),
    Field("TrackingAreaCode", Ref("TrackingAreaCode"))>>)
MeasResultEUTRAMeasResult == ExtSequence(
  <<Optional("RsrpResult", Ref("RSRPRange")), Optional("RsrqResult", Ref("RSRQRange"))>>,
  <<Optional("Earfcn", Integer("0", "65535")), Optional("EarfcnExt", Integer("65536", "262143")),
    Optional("RsrpResultExt", Ref("RSRPRangeExt")),
    Optional("RsrqResultExt", Ref("RSRQRangeExt")), Optional("RsSinrResult", Ref("RSSINRRange")),
    Optional("NeighbourInformation5G", Ref("NeighbourInformation5G"))>>)
WlanAPInformationApDeviceType == ExtEnumerated(
  <<"Wlan80211a", "Wlan80211b", "Wlan80211g">>,
  <<"Wlan80211n", "Wlan80211ac", "Wlan80211ad">>)
WlanAPInformationApPHYType == ExtEnumerated(
  <<"Unknown", "Any", "Fhss", "Dsss", "Irbaseband", "Ofdm", "Hrdsss", "Erp", "Ht", "Ihv">>,
  <<>>)
UTRANGPSReferenceTimeUtranGPSTimingOfCell == Sequence(
  <<Field("MsPart", Integer("0", "1023")), Field("LsPart", Integer("0", "4294967295"))>>)
UTRANGPSReferenceTimeModeSpecificInfoFdd == Sequence(
  <<Field("ReferenceIdentity", Ref("PrimaryCPICHInfo"))>>)
UTRANGPSReferenceTimeModeSpecificInfoTdd == Sequence(
  <<Field("ReferenceIdentity", Ref("CellParametersID"))>>)
UTRANGPSReferenceTimeModeSpecificInfo == Choice(
  <<Field("Fdd", Ref("UTRANGPSReferenceTimeModeSpecificInfoFdd")),
    Field("Tdd", Ref("UTRANGPSReferenceTimeModeSpecificInfoTdd"))>>)
UTRANGPSReferenceTimeResultSetGPSTimingOfCell == Sequence(
  <<Field("MsPart", Integer("0", "16383")), Field("LsPart", Integer("0", "4294967295"))>>)
UTRANGPSReferenceTimeResultModeSpecificInfoFdd == Sequence(
  <<Field("ReferenceIdentity", Ref("PrimaryCPICHInfo"))>>)
UTRANGPSReferenceTimeResultModeSpecificInfoTdd == Sequence(
  <<Field("ReferenceIdentity", Ref("CellParametersID"))>>)
UTRANGPSReferenceTimeResultModeSpecificInfo == Choice(
  <<Field("Fdd", Ref("UTRANGPSReferenceTimeResultModeSpecificInfoFdd")),
    Field("Tdd", Ref("UTRANGPSReferenceTimeResultModeSpecificInfoTdd"))>>)
UTRANGANSSReferenceTimeModeSpecificInfoFdd == Sequence(
  <<Field("ReferenceIdentity", Ref("PrimaryCPICHInfo"))>>)
UTRANGANSSReferenceTimeModeSpecificInfoTdd == Sequence(
  <<Field("ReferenceIdentity", Ref("CellParametersID"))>>)
UTRANGANSSReferenceTimeModeSpecificInfo == Choice(
  <<Field("Fdd", Ref("UTRANGANSSReferenceTimeModeSpecificInfoFdd")),
    Field("Tdd", Ref("UTRANGANSSReferenceTimeModeSpecificInfoTdd"))>>)
SETGANSSReferenceTimeSetGANSSTimingOfCell == Sequence(
  <<Field("MsPart", Integer("0", "80")), Field("LsPart", Integer("0", "4294967295"))>>)
SETGANSSReferenceTimeModeSpecificInfoFdd == Sequence(
  <<Field("ReferenceIdentity", Ref("PrimaryCPICHInfo"))>>)
SETGANSSReferenceTimeModeSpecificInfoTdd == Sequence(
  <<Field("ReferenceIdentity", Ref("CellParametersID"))>>)
SETGANSSReferenceTimeModeSpecificInfo == Choice(
  <<Field("Fdd", Ref("SETGANSSReferenceTimeModeSpecificInfoFdd")),
    Field("Tdd", Ref("SETGANSSReferenceTimeModeSpecificInfoTdd"))>>)
CoordinateLatitudeSign == Enumerated(<<"North", "South">>)

\* Every type under its name: what a Ref leads to.
Types == [
  SUPLINIT |-> SUPLINIT, Notification |-> Notification, NotificationType |-> NotificationType,
  EncodingType |-> EncodingType, FormatIndicator |-> FormatIndicator, SLPMode |-> SLPMode,
  MAC |-> MAC, KeyIdentity |-> KeyIdentity, SUPLSTART |-> SUPLSTART,
  SETCapabilities |-> SETCapabilities, PosTechnology |-> PosTechnology, PrefMethod |-> PrefMethod,
  PosProtocol |-> PosProtocol, SUPLRESPONSE |-> SUPLRESPONSE, SETAuthKey |-> SETAuthKey,
  KeyIdentity4 |-> KeyIdentity4, SUPLPOSINIT |-> SUPLPOSINIT,
  RequestedAssistData |-> RequestedAssistData, NavigationModel |-> NavigationModel,
  SatelliteInfo |-> SatelliteInfo, SatelliteInfoElement |-> SatelliteInfoElement,
  SUPLPOS |-> SUPLPOS, PosPayLoad |-> PosPayLoad, SUPLEND |-> SUPLEND,
  SUPLAUTHREQ |-> SUPLAUTHREQ, SUPLAUTHRESP |-> SUPLAUTHRESP, Ver2SUPLNOTIFY |-> Ver2SUPLNOTIFY,
  Ver2SUPLNOTIFYRESPONSE |-> Ver2SUPLNOTIFYRESPONSE,
  NotificationResponse |-> NotificationResponse, Ver2SUPLSETINIT |-> Ver2SUPLSETINIT,
  Ver2SUPLTRIGGEREDSTART |-> Ver2SUPLTRIGGEREDSTART, TriggerType |-> TriggerType,
  TriggerParams |-> TriggerParams, PeriodicParams |-> PeriodicParams,
  AreaEventParams |-> AreaEventParams, AreaEventType |-> AreaEventType,
  RepeatedReportingParams |-> RepeatedReportingParams,
  GeographicTargetAreaList |-> GeographicTargetAreaList,
  GeographicTargetArea |-> GeographicTargetArea, AreaIdList |-> AreaIdList,
  AreaIdSet |-> AreaIdSet, AreaId |-> AreaId, GSMAreaId |-> GSMAreaId,
  WCDMAAreaId |-> WCDMAAreaId, CDMAAreaId |-> CDMAAreaId, HRPDAreaId |-> HRPDAreaId,
  UMBAreaId |-> UMBAreaId, LTEAreaId |-> LTEAreaId, WLANAreaId |-> WLANAreaId,
  WimaxAreaId |-> WimaxAreaId, NRAreaId |-> NRAreaId, AreaIdSetType |-> AreaIdSetType,
  GeoAreaMappingList |-> GeoAreaMappingList, GeoAreaIndex |-> GeoAreaIndex,
  Ver2SUPLTRIGGEREDRESPONSE |-> Ver2SUPLTRIGGEREDRESPONSE, ReportingMode |-> ReportingMode,
  RepModee |-> RepModee, BatchRepConditions |-> BatchRepConditions, BatchRepType |-> BatchRepType,
  Ver2SUPLREPORT |-> Ver2SUPLREPORT, SessionList |-> SessionList,
  SessionInformation |-> SessionInformation, ReportDataList |-> ReportDataList,
  ReportData |-> ReportData, PositionData |-> PositionData, GANSSsignalsInfo |-> GANSSsignalsInfo,
  GANSSSignalsDescription |-> GANSSSignalsDescription, ResultCode |-> ResultCode,
  TimeStamp |-> TimeStamp, Ver2SUPLTRIGGEREDSTOP |-> Ver2SUPLTRIGGEREDSTOP,
  Ver2SUPLINITExtension |-> Ver2SUPLINITExtension, NotificationMode |-> NotificationMode,
  HistoricReporting |-> HistoricReporting, AllowedReportingType |-> AllowedReportingType,
  ReportingCriteria |-> ReportingCriteria, TimeWindow |-> TimeWindow,
  ProtectionLevel |-> ProtectionLevel, ProtLevel |-> ProtLevel,
  BasicProtectionParams |-> BasicProtectionParams,
  Ver2SUPLSTARTExtension |-> Ver2SUPLSTARTExtension,
  Ver2SUPLRESPONSEExtension |-> Ver2SUPLRESPONSEExtension,
  Ver2SUPLPOSINITExtension |-> Ver2SUPLPOSINITExtension,
  Ver2SUPLPOSExtension |-> Ver2SUPLPOSExtension, Ver2SUPLENDExtension |-> Ver2SUPLENDExtension,
  Ver2NotificationExtension |-> Ver2NotificationExtension,
  Ver2SETCapabilitiesExtension |-> Ver2SETCapabilitiesExtension,
  ServiceCapabilities |-> ServiceCapabilities, ServicesSupported |-> ServicesSupported,
  EventTriggerCapabilities |-> EventTriggerCapabilities,
  GeoAreaShapesSupported |-> GeoAreaShapesSupported, SessionCapabilities |-> SessionCapabilities,
  SupportedBearers |-> SupportedBearers, Ver2PosProtocolExtension |-> Ver2PosProtocolExtension,
  PosProtocolVersion3GPP |-> PosProtocolVersion3GPP,
  PosProtocolVersion3GPP2 |-> PosProtocolVersion3GPP2,
  Supported3GPP2PosProtocolVersion |-> Supported3GPP2PosProtocolVersion,
  PosProtocolVersionOMA |-> PosProtocolVersionOMA,
  Ver2PosTechnologyExtension |-> Ver2PosTechnologyExtension,
  GANSSPositionMethods |-> GANSSPositionMethods, GANSSPositionMethod |-> GANSSPositionMethod,
  GANSSPositioningMethodTypes |-> GANSSPositioningMethodTypes,
  AdditionalPositioningMethods |-> AdditionalPositioningMethods,
  AddPosSupportElement |-> AddPosSupportElement,
  Ver2RequestedAssistDataExtension |-> Ver2RequestedAssistDataExtension,
  GanssRequestedCommonAssistanceDataList |-> GanssRequestedCommonAssistanceDataList,
  GanssRequestedGenericAssistanceDataList |-> GanssRequestedGenericAssistanceDataList,
  GanssReqGenericData |-> GanssReqGenericData, DGANSSSigIdReq |-> DGANSSSigIdReq,
  BDSSigIdReq |-> BDSSigIdReq, GanssNavigationModelData |-> GanssNavigationModelData,
  SatellitesListRelatedDataList |-> SatellitesListRelatedDataList,
  SatellitesListRelatedData |-> SatellitesListRelatedData, GanssDataBits |-> GanssDataBits,
  ReqDataBitAssistanceList |-> ReqDataBitAssistanceList,
  GanssAdditionalDataChoices |-> GanssAdditionalDataChoices,
  ExtendedEphemeris |-> ExtendedEphemeris, ExtendedEphCheck |-> ExtendedEphCheck,
  GanssExtendedEphCheck |-> GanssExtendedEphCheck, GPSTime |-> GPSTime,
  GANSSextEphTime |-> GANSSextEphTime, Ver2PosPayLoadExtension |-> Ver2PosPayLoadExtension,
  ULPPDU |-> ULPPDU, UlpMessage |-> UlpMessage,
  AreaEventParamsAreaIdLists |-> AreaEventParamsAreaIdLists,
  AddPosSupportElementAddPosID |-> AddPosSupportElementAddPosID,
  ReqDataBitAssistanceListGanssDataBitSatList |-> ReqDataBitAssistanceListGanssDataBitSatList,
  Ver2PosPayLoadExtensionLPPPayload |-> Ver2PosPayLoadExtensionLPPPayload,
  Ver2PosPayLoadExtensionTia801Payload |-> Ver2PosPayLoadExtensionTia801Payload,
  PositionEstimateLatitudeSign |-> PositionEstimateLatitudeSign,
  PositionEstimateUncertainty |-> PositionEstimateUncertainty,
  AltitudeInfoAltitudeDirection |-> AltitudeInfoAltitudeDirection,
  FrequencyInfoModeSpecificInfo |-> FrequencyInfoModeSpecificInfo,
  CellMeasuredResultsModeSpecificInfoFdd |-> CellMeasuredResultsModeSpecificInfoFdd,
  CellMeasuredResultsModeSpecificInfoTdd |-> CellMeasuredResultsModeSpecificInfoTdd,
  CellMeasuredResultsModeSpecificInfo |-> CellMeasuredResultsModeSpecificInfo,
  SupportedWLANApsListSupportedWLANApDataList |-> SupportedWLANApsListSupportedWLANApDataList,
  SupportedWLANApDataApDevType |-> SupportedWLANApDataApDevType,
  MeasResultEUTRACgiInfo |-> MeasResultEUTRACgiInfo,
  MeasResultEUTRAMeasResult |-> MeasResultEUTRAMeasResult,
  WlanAPInformationApDeviceType |-> WlanAPInformationApDeviceType,
  WlanAPInformationApPHYType |-> WlanAPInformationApPHYType,
  UTRANGPSReferenceTimeUtranGPSTimingOfCell |-> UTRANGPSReferenceTimeUtranGPSTimingOfCell,
  UTRANGPSReferenceTimeModeSpecificInfoFdd |-> UTRANGPSReferenceTimeModeSpecificInfoFdd,
  UTRANGPSReferenceTimeModeSpecificInfoTdd |-> UTRANGPSReferenceTimeModeSpecificInfoTdd,
  UTRANGPSReferenceTimeModeSpecificInfo |-> UTRANGPSReferenceTimeModeSpecificInfo,
  UTRANGPSReferenceTimeResultSetGPSTimingOfCell |-> UTRANGPSReferenceTimeResultSetGPSTimingOfCell,
  UTRANGPSReferenceTimeResultModeSpecificInfoFdd |-> UTRANGPSReferenceTimeResultModeSpecificInfoFdd,
  UTRANGPSReferenceTimeResultModeSpecificInfoTdd |-> UTRANGPSReferenceTimeResultModeSpecificInfoTdd,
  UTRANGPSReferenceTimeResultModeSpecificInfo |-> UTRANGPSReferenceTimeResultModeSpecificInfo,
  UTRANGANSSReferenceTimeModeSpecificInfoFdd |-> UTRANGANSSReferenceTimeModeSpecificInfoFdd,
  UTRANGANSSReferenceTimeModeSpecificInfoTdd |-> UTRANGANSSReferenceTimeModeSpecificInfoTdd,
  UTRANGANSSReferenceTimeModeSpecificInfo |-> UTRANGANSSReferenceTimeModeSpecificInfo,
  SETGANSSReferenceTimeSetGANSSTimingOfCell |-> SETGANSSReferenceTimeSetGANSSTimingOfCell,
  SETGANSSReferenceTimeModeSpecificInfoFdd |-> SETGANSSReferenceTimeModeSpecificInfoFdd,
  SETGANSSReferenceTimeModeSpecificInfoTdd |-> SETGANSSReferenceTimeModeSpecificInfoTdd,
  SETGANSSReferenceTimeModeSpecificInfo |-> SETGANSSReferenceTimeModeSpecificInfo,
  CoordinateLatitudeSign |-> CoordinateLatitudeSign]
  @@ Components!Types
===============================================================================
