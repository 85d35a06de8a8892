---------------------------- MODULE IlpTypes ----------------------------
(***************************************************************************)
(* The types of package `ilp`, the Internal Location Protocol: the shape   *)
(* of each Go type in src/example/ilp/types.go, in the order of the file.  *)
(***************************************************************************)
LOCAL INSTANCE Shapes

Version == Sequence(
  <<Field("Maj", Integer("0", "255")), Field("Min", Integer("0", "255")),
    Field("Servind", Integer("0", "255"))>>)
SessionID2 == Sequence(
  <<Field("SlcSessionID", Ref("SlcSessionID")), Optional("SetSessionID", Ref("SetSessionID")),
    Optional("SpcSessionID", Ref("SpcSessionID"))>>)
SetSessionID == Sequence(
  <<Field("SessionId", Integer("0", "65535")), Field("SetId", Ref("SETId"))>>)
SETId == ExtChoice(
  <<Field("Msisdn", OctetString("8", "8")), Field("Mdn", OctetString("8", "8")),
    Field("Min", BitString("34", "34")), Field("Imsi", OctetString("8", "8")),
    Field("Nai", IA5String("1", "1000")), Field("IPAddress", Ref("IPAddress"))>>,
  <<Field("Imei", OctetString("8", "8"))>>)
SlcSessionID == Sequence(
  <<Field("SessionID", OctetString("4", "4")), Field("SlcId", Ref("NodeAddress"))>>)
SpcSessionID == Sequence(
  <<Field("SessionID", OctetString("4", "4")), Field("SpcId", Ref("NodeAddress"))>>)
IPAddress == Choice(
  <<Field("Ipv4Address", OctetString("4", "4")), Field("Ipv6Address", OctetString("16", "16"))>>)
NodeAddress == ExtChoice(
  <<Field("IPAddress", Ref("IPAddress")), Field("Fqdn", Ref("FQDN"))>>,
  <<>>)
FQDN == VisibleString(<<"a-z", "A-Z", "0-9", ".-">>, "1", "255")
LocationId == ExtSequence(
  <<Field("CellInfo", Ref("CellInfo")), Field("Status", Ref("Status"))>>,
  <<>>)
Status == ExtEnumerated(<<"Stale", "Current", "Unknown">>, <<>>)
MultipleLocationIds == SizedListOf(Ref("LocationIdData"), "1", "64")
LocationIdData == ExtSequence(
  <<Field("LocationId", Ref("LocationId")), Optional("Relativetimestamp", Ref("RelativeTime")),
    Field("ServingFlag", Boolean)>>,
  <<>>)
RelativeTime == Integer("0", "65535")
SETCapabilities == ExtSequence(
  <<Field("PosTechnology", Ref("PosTechnology")), Field("PrefMethod", Ref("PrefMethod")),
    Field("PosProtocol", Ref("PosProtocol")),
    Optional("SupportedBearers", Ref("SupportedBearers"))>>,
  <<>>)
PosTechnology == ExtSequence(
  <<Field("AgpsSETassisted", Boolean), Field("AgpsSETBased", Boolean),
    Field("AutonomousGPS", Boolean), Field("Aflt", Boolean), Field("Ecid", Boolean),
    Field("Eotd", Boolean), Field("Otdoa", Boolean),
    Optional("GANSSPositionMethods", Ref("GANSSPositionMethods"))>>,
  <<Optional("AdditionalPositioningMethods", Ref("AdditionalPositioningMethods"))>>)
GANSSPositionMethods == SizedListOf(Ref("GANSSPositionMethod"), "1", "16")
GANSSPositionMethod == ExtSequence(
  <<Field("GanssId", Integer("0", "15")), Optional("GanssSBASid", BitString("3", "3")),
    Field("GANSSPositioningMethodTypes", Ref("GANSSPositioningMethodTypes")),
    Field("GANSSSignals", Ref("GANSSSignals"))>>,
  <<>>)
GANSSPositioningMethodTypes == ExtSequence(
  <<Field("SetAssisted", Boolean), Field("SetBased", Boolean), Field("Autonomous", Boolean)>>,
  <<>>)
GANSSSignals == BitString("1", "8")
AdditionalPositioningMethods == SizedListOf(Ref("AddPosSupportElement"), "1", "8")
AddPosSupportElement == ExtSequence(
  <<Field("AddPosID", Ref("AddPosSupportElementAddPosID")),
    Optional("AddPosMode", BitString("1", "8"))>>,
  <<>>)
PrefMethod == ExtEnumerated(
  <<"AgnssSETAssistedPreferred", "AgnssSETBasedPreferred", "NoPreference">>,
  <<>>)
PosProtocol == ExtSequence(
  <<Field("Tia801", Boolean), Field("Rrlp", Boolean), Field("Rrc", Boolean),
    Field("Lpp", Boolean), Optional("PosProtocolVersionRRLP", Ref("PosProtocolVersion3GPP")),
    Optional("PosProtocolVersionRRC", Ref("PosProtocolVersion3GPP")),
    Optional("PosProtocolVersionTIA801", Ref("PosProtocolVersion3GPP2")),
    Optional("PosProtocolVersionLPP", Ref("PosProtocolVersion3GPP"))>>,
  <<Optional("Lppe", Boolean), Optional("PosProtocolVersionLPPe", Ref("PosProtocolVersionOMA"))>>)
PosProtocolVersion3GPP == ExtSequence(
  <<Field("MajorVersionField", Integer("0", "255")),
    Field("TechnicalVersionField", Integer("0", "255")),
    Field("EditorialVersionField", Integer("0", "255"))>>,
  <<>>)
PosProtocolVersion3GPP2 == SizedListOf(Ref("Supported3GPP2PosProtocolVersion"), "1", "8")
Supported3GPP2PosProtocolVersion == ExtSequence(
  <<Field("RevisionNumber", BitString("6", "6")),
    Field("PointReleaseNumber", Integer("0", "255")),
    Field("InternalEditLevel", Integer("0", "255"))>>,
  <<>>)
PosProtocolVersionOMA == ExtSequence(
  <<Field("MajorVersionField", Integer("0", "255")),
    Field("MinorVersionField", Integer("0", "255"))>>,
  <<>>)
SupportedBearers == ExtSequence(
  <<Field("Gsm", Boolean), Field("Wcdma", Boolean), Field("Lte", Boolean), Field("Cdma", Boolean),
    Field("Hprd", Boolean), Field("Umb", Boolean), Field("Wlan", Boolean), Field("WiMAX", Boolean)>>,
  <<Optional("Nr", Boolean)>>)
CellInfo == ExtChoice(
  <<Field("GsmCell", Ref("GsmCellInformation")), Field("WcdmaCell", Ref("WcdmaCellInformation")),
    Field("CdmaCell", Ref("CdmaCellInformation")), Field("HrpdCell", Ref("HrpdCellInformation")),
    Field("UmbCell", Ref("UmbCellInformation")), Field("LteCell", Ref("LteCellInformation")),
    Field("WlanAP", Ref("WlanAPInformation")), Field("WimaxBS", Ref("WimaxBSInformation"))>>,
  <<Field("NrCell", Ref("NRCellInformation"))>>)
UTRANGPSReferenceTimeResult == ExtSequence(
  <<Field("SetGPSTimingOfCell", Ref("UTRANGPSReferenceTimeResultSetGPSTimingOfCell")),
    Field("ModeSpecificInfo", Ref("UTRANGPSReferenceTimeResultModeSpecificInfo")),
    Field("Sfn", Integer("0", "4095")),
    Optional("GpsReferenceTimeUncertainty", Integer("0", "127"))>>,
  <<>>)
UTRANGANSSReferenceTimeResult == ExtSequence(
  <<Field("GanssTimeID", Integer("0", "15")),
    Field("SetGANSSReferenceTime", Ref("SETGANSSReferenceTime"))>>,
  <<>>)
SETGANSSReferenceTime == ExtSequence(
  <<Optional("SetGANSSTimingOfCell", Ref("SETGANSSReferenceTimeSetGANSSTimingOfCell")),
    Optional("ModeSpecificInfo", Ref("SETGANSSReferenceTimeModeSpecificInfo")),
    Field("Sfn", Integer("0", "4095")), Optional("GanssTODUncertainty", Integer("0", "127"))>>,
  <<>>)
GNSSPosTechnology == ExtSequence(
  <<Field("Gps", Boolean), Field("Galileo", Boolean), Field("Sbas", Boolean),
    Field("ModernizedGps", Boolean), Field("Qzss", Boolean), Field("Glonass", Boolean)>>,
  <<Optional("Bds", Boolean)>>)
Position == ExtSequence(
  <<Field("Timestamp", UTCTime), Field("PositionEstimate", Ref("PositionEstimate")),
    Optional("Velocity", Ref("Velocity"))>>,
  <<>>)
PositionEstimate == ExtSequence(
  <<Field("LatitudeSign", Ref("PositionEstimateLatitudeSign")),
    Field("Latitude", Integer("0", "8388607")),
    Field("Longitude", Integer("-8388608", "8388607")),
    Optional("Uncertainty", Ref("PositionEstimateUncertainty")),
    Optional("Confidence", Integer("0", "100")), Optional("AltitudeInfo", Ref("AltitudeInfo"))>>,
  <<>>)
AltitudeInfo == ExtSequence(
  <<Field("AltitudeDirection", Ref("AltitudeInfoAltitudeDirection")),
    Field("Altitude", Integer("0", "32767")), Field("AltUncertainty", Integer("0", "127"))>>,
  <<>>)
CdmaCellInformation == ExtSequence(
  <<Field("RefNID", Integer("0", "65535")), Field("RefSID", Integer("0", "32767")),
    Field("RefBASEID", Integer("0", "65535")), Field("RefBASELAT", Integer("0", "4194303")),
    Field("ReBASELONG", Integer("0", "8388607")), Field("RefREFPN", Integer("0", "511")),
    Field("RefWeekNumber", Integer("0", "65535")), Field("RefSeconds", Integer("0", "4194303"))>>,
  <<>>)
GsmCellInformation == ExtSequence(
  <<Field("RefMCC", Integer("0", "999")), Field("RefMNC", Integer("0", "999")),
    Field("RefLAC", Integer("0", "65535")), Field("RefCI", Integer("0", "65535")),
    Optional("Nmr", Ref("NMR")), Optional("Ta", Integer("0", "255"))>>,
  <<>>)
WcdmaCellInformation == ExtSequence(
  <<Field("RefMCC", Integer("0", "999")), Field("RefMNC", Integer("0", "999")),
    Field("RefUC", Integer("0", "268435455")), Optional("FrequencyInfo", Ref("FrequencyInfo")),
    Optional("PrimaryScramblingCode", Integer("0", "511")),
    Optional("MeasuredResultsList", Ref("MeasuredResultsList")),
    Optional("CellParametersId", Integer("0", "127")),
    Optional("TimingAdvance", Ref("TimingAdvance"))>>,
  <<>>)
TimingAdvance == ExtSequence(
  <<Field("Ta", Integer("0", "8191")), Optional("TAResolution", Ref("TAResolution")),
    Optional("ChipRate", Ref("ChipRate"))>>,
  <<>>)
TAResolution == ExtEnumerated(<<"Res10chip", "Res05chip", "Res0125chip">>, <<>>)
ChipRate == ExtEnumerated(<<"Tdd128", "Tdd384", "Tdd768">>, <<>>)
HrpdCellInformation == ExtSequence(
  <<Optional("RefSECTORID", BitString("128", "128")),
    Field("RefBASELAT", Integer("0", "4194303")), Field("ReBASELONG", Integer("0", "8388607")),
    Field("RefWeekNumber", Integer("0", "65535")), Field("RefSeconds", Integer("0", "4194303"))>>,
  <<>>)
UmbCellInformation == ExtSequence(
  <<Field("RefSECTORID", BitString("128", "128")), Field("RefMCC", Integer("0", "999")),
    Field("RefMNC", Integer("0", "999")), Field("RefBASELAT", Integer("0", "4194303")),
    Field("ReBASELONG", Integer("0", "8388607")), Field("RefWeekNumber", Integer("0", "65535")),
    Field("RefSeconds", Integer("0", "4194303"))>>,
  <<>>)
LteCellInformation == ExtSequence(
  <<Field("CellGlobalIdEUTRA", Ref("CellGlobalIdEUTRA")), Field("PhysCellId", Ref("PhysCellId")),
    Field("TrackingAreaCode", Ref("TrackingAreaCode")), Optional("RsrpResult", Ref("RSRPRange")),
    Optional("RsrqResult", Ref("RSRQRange")), Optional("Ta", Integer("0", "1282")),
    Optional("MeasResultListEUTRA", Ref("MeasResultListEUTRA"))>>,
  <<Optional("Earfcn", Integer("0", "65535")), Optional("EarfcnExt", Integer("65536", "262143")),
    Optional("RsrpResultExt", Ref("RSRPRangeExt")),
    Optional("RsrqResultExt", Ref("RSRQRangeExt")), Optional("RsSinrResult", Ref("RSSINRRange")),
    Optional("ServingInformation5G", Ref("ServingInformation5G"))>>)
MeasResultListEUTRA == SizedListOf(Ref("MeasResultEUTRA"), "1", "8")
MeasResultEUTRA == Sequence(
  <<Field("PhysCellId", Ref("PhysCellId")), Optional("CgiInfo", Ref("MeasResultEUTRACgiInfo")),
    Field("MeasResult", Ref("MeasResultEUTRAMeasResult"))>>)
PhysCellId == Integer("0", "503")
TrackingAreaCode == BitString("16", "16")
CellGlobalIdEUTRA == ExtSequence(
  <<Field("PlmnIdentity", Ref("PLMNIdentity")), Field("CellIdentity", Ref("CellIdentity"))>>,
  <<>>)
PLMNIdentity == Sequence(<<Optional("Mcc", Ref("MCC")), Field("Mnc", Ref("MNC"))>>)
CellIdentity == BitString("28", "28")
MCC == SizedListOf(Ref("MCCMNCDigit"), "3", "3")
MNC == SizedListOf(Ref("MCCMNCDigit"), "2", "3")
MCCMNCDigit == Integer("0", "9")
RSRPRange == Integer("0", "97")
RSRQRange == Integer("0", "34")
RSRPRangeExt == Integer("-17", "-1")
RSRQRangeExt == Integer("-30", "46")
RSSINRRange == Integer("0", "127")
ServingInformation5G == ExtSequence(
  <<Field("TrackingAreaCode", Ref("TrackingAreaCodeNR"))>>,
  <<>>)
NeighbourInformation5G == ExtSequence(
  <<Optional("TrackingAreaCode", Ref("TrackingAreaCodeNR"))>>,
  <<>>)
WlanAPInformation == ExtSequence(
  <<Field("ApMACAddress", BitString("48", "48")),
    Optional("ApTransmitPower", Integer("-127", "128")),
    Optional("ApAntennaGain", Integer("-127", "128")),
    Optional("ApSignaltoNoise", Integer("-127", "128")),
    Optional("ApDeviceType", Ref("WlanAPInformationApDeviceType")),
    Optional("ApSignalStrength", Integer("-127", "128")),
    Optional("ApChannelFrequency", Integer("0", "256")), Optional("ApRoundTripDelay", Ref("RTD")),
    Optional("SetTransmitPower", Integer("-127", "128")),
    Optional("SetAntennaGain", Integer("-127", "128")),
    Optional("SetSignaltoNoise", Integer("-127", "128")),
    Optional("SetSignalStrength", Integer("-127", "128")),
    Optional("ApReportedLocation", Ref("ReportedLocation"))>>,
  <<Optional("ApRepLocation", Ref("RepLocation")),
    Optional("ApSignalStrengthDelta", Integer("0", "1")),
    Optional("ApSignaltoNoiseDelta", Integer("0", "1")),
    Optional("SetSignalStrengthDelta", Integer("0", "1")),
    Optional("SetSignaltoNoiseDelta", Integer("0", "1")),
    Optional("OperatingClass", Integer("0", "255")), Optional("ApSSID", OctetString("1", "32")),
    Optional("ApPHYType", Ref("WlanAPInformationApPHYType")),
    Optional("SetMACAddress", BitString("48", "48"))>>)
RTD == ExtSequence(
  <<Field("RTDValue", Integer("0", "16777216")), Field("RTDUnits", Ref("RTDUnits")),
    Optional("RTDAccuracy", Integer("0", "255"))>>,
  <<>>)
RTDUnits == ExtEnumerated(
  <<"Microseconds", "Hundredsofnanoseconds", "Tensofnanoseconds", "Nanoseconds",
    "Tenthsofnanoseconds">>,
  <<>>)
ReportedLocation == ExtSequence(
  <<Field("LocationEncodingDescriptor", Ref("LocationEncodingDescriptor")),
    Field("LocationData", Ref("LocationData"))>>,
  <<>>)
LocationEncodingDescriptor == ExtEnumerated(<<"Lci", "Asn1">>, <<>>)
LocationData == ExtSequence(
  <<Optional("LocationAccuracy", Integer("0", "4294967295")),
    Field("LocationValue", OctetString("1", "128"))>>,
  <<>>)
RepLocation == ExtChoice(<<Field("LciLocData", Ref("LciLocData"))>>, <<>>)
LciLocData == ExtSequence(<<Optional("LocationDataLCI", Ref("LocationDataLCI"))>>, <<>>)
LocationDataLCI == ExtSequence(
  <<Field("LatitudeResolution", BitString("6", "6")), Field("Latitude", BitString("34", "34")),
    Field("LongitudeResolution", BitString("6", "6")), Field("Longitude", BitString("34", "34")),
    Field("AltitudeType", BitString("4", "4")), Field("AltitudeResolution", BitString("6", "6")),
    Field("Altitude", BitString("30", "30")), Field("Datum", BitString("8", "8"))>>,
  <<>>)
WimaxBSInformation == ExtSequence(
  <<Field("WimaxBsID", Ref("WimaxBsID")), Optional("WimaxRTD", Ref("WimaxRTD")),
    Optional("WimaxNMRList", Ref("WimaxNMRList"))>>,
  <<>>)
WimaxBsID == ExtSequence(
  <<Optional("BsIDMSB", BitString("24", "24")), Field("BsIDLSB", BitString("24", "24"))>>,
  <<>>)
WimaxRTD == ExtSequence(
  <<Field("Rtd", Integer("0", "65535")), Optional("RTDstd", Integer("0", "1023"))>>,
  <<>>)
WimaxNMRList == SizedListOf(Ref("WimaxNMR"), "1", "32")
WimaxNMR == ExtSequence(
  <<Field("WimaxBsID", Ref("WimaxBsID")), Optional("RelDelay", Integer("-32768", "32767")),
    Optional("RelDelaystd", Integer("0", "1023")), Optional("Rssi", Integer("0", "255")),
    Optional("RSSIstd", Integer("0", "63")), Optional("BSTxPower", Integer("0", "255")),
    Optional("Cinr", Integer("0", "255")), Optional("CINRstd", Integer("0", "63")),
    Optional("BSLocation", Ref("ReportedLocation"))>>,
  <<>>)
NRCellInformation == ExtSequence(
  <<Field("ServingCellInformation", Ref("ServingCellInformationNR")),
    Optional("MeasuredResultsListNR", Ref("MeasResultListNR"))>>,
  <<>>)
ServingCellInformationNR == SizedListOf(Ref("ServCellNR"), "1", "32")
ServCellNR == ExtSequence(
  <<Field("PhysCellId", Ref("PhysCellIdNR")), Field("ArfcnNR", Ref("ARFCNNR")),
    Field("CellGlobalId", Ref("CellGlobalIdNR")),
    Field("TrackingAreaCode", Ref("TrackingAreaCodeNR")),
    Optional("SsbMeasurements", Ref("NRMeasurements")),
    Optional("CsiRsMeasurements", Ref("NRMeasurements")), Optional("Ta", Integer("0", "3846"))>>,
  <<>>)
MeasResultListNR == SizedListOf(Ref("MeasResultNR"), "1", "32")
MeasResultNR == ExtSequence(
  <<Field("PhysCellId", Ref("PhysCellIdNR")), Field("ArfcnNR", Ref("ARFCNNR")),
    Optional("CellGlobalId", Ref("CellGlobalIdNR")),
    Optional("TrackingAreaCode", Ref("TrackingAreaCodeNR")),
    Optional("SsbMeasurements", Ref("NRMeasurements")),
    Optional("CsiRsMeasurements", Ref("NRMeasurements"))>>,
  <<>>)
PhysCellIdNR == Integer("0", "1007")
ARFCNNR == Integer("0", "3279165")
TrackingAreaCodeNR == BitString("24", "24")
CellGlobalIdNR == ExtSequence(
  <<Field("PlmnIdentity", Ref("PLMNIdentity")), Field("CellIdentityNR", Ref("CellIdentityNR"))>>,
  <<>>)
CellIdentityNR == BitString("36", "36")
NRMeasurements == ExtSequence(
  <<Optional("RsrpRange", Integer("0", "127")), Optional("RsrqRange", Integer("0", "127")),
    Optional("SinrRange", Integer("0", "127"))>>,
  <<>>)
FrequencyInfo == ExtSequence(
  <<Field("ModeSpecificInfo", Ref("FrequencyInfoModeSpecificInfo"))>>,
  <<>>)
FrequencyInfoFDD == ExtSequence(
  <<Optional("UarfcnUL", Ref("UARFCN")), Field("UarfcnDL", Ref("UARFCN"))>>,
  <<>>)
FrequencyInfoTDD == ExtSequence(<<Field("UarfcnNt", Ref("UARFCN"))>>, <<>>)
UARFCN == Integer("0", "16383")
NMR == SizedListOf(Ref("NMRelement"), "1", "15")
NMRelement == ExtSequence(
  <<Field("Arfcn", Integer("0", "1023")), Field("Bsic", Integer("0", "63")),
    Field("RxLev", Integer("0", "63"))>>,
  <<>>)
MeasuredResultsList == SizedListOf(Ref("MeasuredResults"), "1", "8")
MeasuredResults == Sequence(
  <<Optional("FrequencyInfo", Ref("FrequencyInfo")),
    Optional("UtraCarrierRSSI", Ref("UTRACarrierRSSI")),
    Optional("CellMeasuredResultsList", Ref("CellMeasuredResultsList"))>>)
CellMeasuredResultsList == SizedListOf(Ref("CellMeasuredResults"), "1", "32")
UTRACarrierRSSI == Integer("0", "127")
CellMeasuredResults == Sequence(
  <<Optional("CellIdentity", Integer("0", "268435455")),
    Field("ModeSpecificInfo", Ref("CellMeasuredResultsModeSpecificInfo"))>>)
CellParametersID == Integer("0", "127")
TGSN == Integer("0", "14")
PrimaryCCPCHRSCP == Integer("0", "127")
TimeslotISCP == Integer("0", "127")
TimeslotISCPList == SizedListOf(Ref("TimeslotISCP"), "1", "14")
PrimaryCPICHInfo == Sequence(<<Field("PrimaryScramblingCode", Integer("0", "511"))>>)
CPICHEcN0 == Integer("0", "63")
CPICHRSCP == Integer("0", "127")
Pathloss == Integer("46", "173")
UTRANGPSReferenceTimeAssistance == Sequence(
  <<Field("UtranGPSReferenceTime", Ref("UTRANGPSReferenceTime")),
    Optional("GpsReferenceTimeUncertainty", Integer("0", "127")),
    Optional("UtranGPSDriftRate", Ref("UTRANGPSDriftRate"))>>)
UTRANGPSReferenceTime == Sequence(
  <<Field("UtranGPSTimingOfCell", Ref("UTRANGPSReferenceTimeUtranGPSTimingOfCell")),
    Optional("ModeSpecificInfo", Ref("UTRANGPSReferenceTimeModeSpecificInfo")),
    Field("Sfn", Integer("0", "4095"))>>)
UTRANGPSDriftRate == Enumerated(
  <<"UtranGPSDrift0", "UtranGPSDrift1", "UtranGPSDrift2", "UtranGPSDrift5", "UtranGPSDrift10",
    "UtranGPSDrift15", "UtranGPSDrift25", "UtranGPSDrift50", "UtranGPSDriftNeg1",
    "UtranGPSDriftNeg2", "UtranGPSDriftNeg5", "UtranGPSDriftNeg10", "UtranGPSDriftNeg15",
    "UtranGPSDriftNeg25", "UtranGPSDriftNeg50">>)
UTRANGANSSReferenceTimeAssistance == Sequence(
  <<Field("GanssTimeID", Integer("0", "15")),
    Field("UtranGANSSReferenceTime", Ref("UTRANGANSSReferenceTime")),
    Optional("GanssDay", Integer("0", "8191")),
    Optional("UtranGANSSDriftRate", Ref("UTRANGANSSDriftRate"))>>)
UTRANGANSSReferenceTime == ExtSequence(
  <<Field("GanssTOD", Integer("0", "86399")),
    Optional("UtranGANSSTimingOfCell", Integer("0", "3999999")),
    Optional("ModeSpecificInfo", Ref("UTRANGANSSReferenceTimeModeSpecificInfo")),
    Field("Sfn", Integer("0", "4095")), Optional("GanssTODUncertainty", Integer("0", "127"))>>,
  <<>>)
UTRANGANSSDriftRate == Enumerated(
  <<"UtranGANSSDrift0", "UtranGANSSDrift1", "UtranGANSSDrift2", "UtranGANSSDrift5",
    "UtranGANSSDrift10", "UtranGANSSDrift15", "UtranGANSSDrift25", "UtranGANSSDrift50",
    "UtranGANSSDriftNeg1", "UtranGANSSDriftNeg2", "UtranGANSSDriftNeg5", "UtranGANSSDriftNeg10",
    "UtranGANSSDriftNeg15", "UtranGANSSDriftNeg25", "UtranGANSSDriftNeg50">>)
StatusCode == ExtEnumerated(
  <<"Unspecified", "SystemFailure", "UnexpectedMessage", "ProtocolError", "DataMissing",
    "UnexpectedDataValue", "PosMethodFailure", "PosMethodMismatch", "PosProtocolMismatch",
    "TargetSETnotReachable", "VersionNotSupported", "ResourceShortage", "InvalidSessionId",
    "NonProxyModeNotSupported", "ProxyModeNotSupported", "PositioningNotPermitted", "ILPTimeout">>,
  <<>>)
QoP == ExtSequence(
  <<Field("Horacc", Integer("0", "127")), Optional("Veracc", Integer("0", "127")),
    Optional("MaxLocAge", Integer("0", "65535")), Optional("Delay", Integer("0", "7"))>>,
  <<Optional("Ver2ResponseTime", Integer("1", "128"))>>)
Velocity == ExtChoice(
  <<Field("Horvel", Ref("Horvel")), Field("Horandvervel", Ref("Horandvervel")),
    Field("Horveluncert", Ref("Horveluncert")), Field("Horandveruncert", Ref("Horandveruncert"))>>,
  <<>>)
Horvel == ExtSequence(
  <<Field("Bearing", BitString("9", "9")), Field("Horspeed", BitString("16", "16"))>>,
  <<>>)
Horandvervel == ExtSequence(
  <<Field("Verdirect", BitString("1", "1")), Field("Bearing", BitString("9", "9")),
    Field("Horspeed", BitString("16", "16")), Field("Verspeed", BitString("8", "8"))>>,
  <<>>)
Horveluncert == ExtSequence(
  <<Field("Bearing", BitString("9", "9")), Field("Horspeed", BitString("16", "16")),
    Field("Uncertspeed", BitString("8", "8"))>>,
  <<>>)
Horandveruncert == ExtSequence(
  <<Field("Verdirect", BitString("1", "1")), Field("Bearing", BitString("9", "9")),
    Field("Horspeed", BitString("16", "16")), Field("Verspeed", BitString("8", "8")),
    Field("Horuncertspeed", BitString("8", "8")), Field("Veruncertspeed", BitString("8", "8"))>>,
  <<>>)
PosMethod == ExtEnumerated(
  <<"AgpsSETassisted", "AgpsSETbased", "AgpsSETassistedpref", "AgpsSETbasedpref", "AutonomousGPS",
    "Aflt", "Ecid", "Eotd", "Otdoa", "AgnssSETassisted", "AgnssSETbased", "AgnssSETassistedpref",
    "AgnssSETbasedpref", "AutonomousGNSS">>,
  <<"Ver2Mbs">>)
SPCSETKey == BitString("128", "128")
SPCTID == ExtSequence(
  <<Field("Rand", BitString("128", "128")), Field("SlpFQDN", Ref("FQDN"))>>,
  <<>>)
SPCSETKeylifetime == Integer("1", "24")
PosPayLoad == ExtChoice(
  <<Field("RrcPayload", OctetString("1", "8192")), Field("RrlpPayload", OctetString("1", "8192")),
    Field("MultiPosPayload", Ref("MultiPosPayLoad"))>>,
  <<>>)
MultiPosPayLoad == ExtSequence(
  <<Optional("LPPPayload", Ref("MultiPosPayLoadLPPPayload")),
    Optional("Tia801Payload", Ref("MultiPosPayLoadTia801Payload"))>>,
  <<>>)
SPCStatusCode == ExtEnumerated(<<"Operational", "NotOperational", "ReducedAvailability">>, <<>>)
ILPPDU == Sequence(
  <<Field("Length", Integer("0", "65535")), Field("Version", Ref("Version")),
    Field("SessionID2", Ref("SessionID2")), Field("Message", Ref("IlpMessage"))>>)
IlpMessage == ExtChoice(
  <<Field("MsPREQ", Ref("PREQ")), Field("MsPRES", Ref("PRES")), Field("MsPRPT", Ref("PRPT")),
    Field("MsPLREQ", Ref("PLREQ")), Field("MsPLRES", Ref("PLRES")),
    Field("MsPINIT", Ref("PINIT")), Field("MsPAUTH", Ref("PAUTH")),
    Field("MsPALIVE", Ref("PALIVE")), Field("MsPEND", Ref("PEND")), Field("MsPMESS", Ref("PMESS"))>>,
  <<>>)
PREQ == ExtSequence(
  <<Field("SLPMode", Ref("SLPMode")), Optional("ApprovedPosMethods", Ref("PosTechnology")),
    Optional("LocationId", Ref("LocationId")),
    Optional("MultipleLocationIds", Ref("MultipleLocationIds")),
    Optional("Position", Ref("Position")), Optional("TriggerParams", Ref("TriggerParams")),
    Optional("SPCSETKey", Ref("SPCSETKey")), Optional("Spctid", Ref("SPCTID")),
    Optional("SPCSETKeylifetime", Ref("SPCSETKeylifetime")), Optional("QoP", Ref("QoP")),
    Optional("SETCapabilities", Ref("SETCapabilities")),
    Optional("NotificationMode", Ref("NotificationMode"))>>,
  <<>>)
SLPMode == Enumerated(<<"Proxy", "NonProxy">>)
TriggerParams == ExtSequence(
  <<Field("TriggerType", Ref("TriggerType")),
    Optional("PeriodicTriggerParams", Ref("PeriodicTriggerParams"))>>,
  <<>>)
TriggerType == ExtEnumerated(<<"Periodic", "AreaEvent">>, <<>>)
PeriodicTriggerParams == ExtSequence(
  <<Field("NumberOfFixes", Integer("1", "8639999")),
    Field("IntervalBetweenFixes", Integer("1", "8639999")),
    Optional("StartTime", Integer("0", "2678400"))>>,
  <<>>)
NotificationMode == ExtEnumerated(<<"Normal", "BasedOnLocation">>, <<>>)
PRES == ExtSequence(
  <<Optional("PreferredPosMethod", Ref("PosMethod")),
    Optional("GnssPosTechnology", Ref("GNSSPosTechnology")),
    Optional("SupportedPosMethods", Ref("PosTechnology")), Optional("Position", Ref("Position")),
    Optional("SPCstatusCode", Ref("SPCStatusCode"))>>,
  <<>>)
PRPT == ExtSequence(
  <<Field("Position", Ref("Position")), Optional("FixNumber", Integer("1", "8639999")),
    Optional("StatusCode", Ref("StatusCode"))>>,
  <<>>)
PLREQ == ExtSequence(
  <<Field("LocationId", Ref("LocationId")),
    Optional("MultipleLocationIds", Ref("MultipleLocationIds"))>>,
  <<>>)
PLRES == ExtSequence(<<Field("PositionResults", Ref("PositionResults"))>>, <<>>)
PositionResults == SizedListOf(Ref("PositionResult"), "1", "1024")
PositionResult == ExtChoice(
  <<Field("Position", Ref("Position")), Field("StatusCode", Ref("StatusCode"))>>,
  <<>>)
PINIT == ExtSequence(
  <<Field("SETCapabilities", Ref("SETCapabilities")), Field("LocationId", Ref("LocationId")),
    Optional("PosMethod", Ref("PosMethod")),
    Optional("RequestedAssistData", Ref("RequestedAssistData")),
    Optional("Position", Ref("Position")), Optional("PosPayLoad", Ref("PosPayLoad")),
    Optional("MultipleLocationIds", Ref("MultipleLocationIds")),
    Optional("UtranGPSReferenceTimeResult", Ref("UTRANGPSReferenceTimeResult")),
    Optional("UtranGANSSReferenceTimeResult", Ref("UTRANGANSSReferenceTimeResult")),
    Optional("GnssPosTechnology", Ref("GNSSPosTechnology"))>>,
  <<>>)
RequestedAssistData == ExtSequence(
  <<Field("AlmanacRequested", Boolean), Field("UtcModelRequested", Boolean),
    Field("IonosphericModelRequested", Boolean), Field("DgpsCorrectionsRequested", Boolean),
    Field("ReferenceLocationRequested", Boolean), Field("ReferenceTimeRequested", Boolean),
    Field("AcquisitionAssistanceRequested", Boolean),
    Field("RealTimeIntegrityRequested", Boolean), Field("NavigationModelRequested", Boolean),
    Optional("NavigationModelData", Ref("NavigationModel")),
    Optional("GanssRequestedCommonAssistanceDataList", Ref("GanssRequestedCommonAssistanceDataList")),
    Optional("GanssRequestedGenericAssistanceDataList", Ref("GanssRequestedGenericAssistanceDataList")),
    Optional("ExtendedEphemeris", Ref("ExtendedEphemeris")),
    Optional("ExtendedEphemerisCheck", Ref("ExtendedEphCheck"))>>,
  <<>>)
ExtendedEphemeris == ExtSequence(<<Field("Validity", Integer("1", "256"))>>, <<>>)
ExtendedEphCheck == ExtSequence(
  <<Field("BeginTime", Ref("GPSTime")), Field("EndTime", Ref("GPSTime"))>>,
  <<>>)
GPSTime == ExtSequence(
  <<Field("GPSWeek", Integer("0", "1023")), Field("GPSTOWhour", Integer("0", "167"))>>,
  <<>>)
GanssRequestedCommonAssistanceDataList == ExtSequence(
  <<Field("GanssReferenceTime", Boolean), Field("GanssIonosphericModel", Boolean),
    Field("GanssAdditionalIonosphericModelForDataID00", Boolean),
    Field("GanssAdditionalIonosphericModelForDataID11", Boolean),
    Field("GanssEarthOrientationParameters", Boolean)>>,
  <<Optional("GanssAdditionalIonosphericModelForDataID01", Boolean)>>)
GanssRequestedGenericAssistanceDataList == SizedListOf(Ref("GanssReqGenericData"), "1", "16")
GanssReqGenericData == ExtSequence(
  <<Field("GanssId", Integer("0", "15")), Optional("GanssSBASid", BitString("3", "3")),
    Optional("GanssRealTimeIntegrity", Boolean),
    Optional("GanssDifferentialCorrection", Ref("DGANSSSigIdReq")),
    Field("GanssAlmanac", Boolean),
    Optional("GanssNavigationModelData", Ref("GanssNavigationModelData")),
    Optional("GanssTimeModels", BitString("16", "16")),
    Field("GanssReferenceMeasurementInfo", Boolean),
    Optional("GanssDataBits", Ref("GanssDataBits")), Field("GanssUTCModel", Boolean),
    Optional("GanssAdditionalDataChoices", Ref("GanssAdditionalDataChoices")),
    Field("GanssAuxiliaryInformation", Boolean),
    Optional("GanssExtendedEphemeris", Ref("ExtendedEphemeris")),
    Optional("GanssExtendedEphemerisCheck", Ref("GanssExtendedEphCheck"))>>,
  <<Optional("BdsDifferentialCorrection", Ref("BDSSigIdReq")),
    Optional("BdsGridModelReq", Boolean)>>)
DGANSSSigIdReq == BitString("8", "8")
BDSSigIdReq == BitString("8", "8")
GanssNavigationModelData == ExtSequence(
  <<Field("GanssWeek", Integer("0", "4095")), Field("GanssToe", Integer("0", "167")),
    Field("TToeLimit", Integer("0", "10")),
    Optional("SatellitesListRelatedDataList", Ref("SatellitesListRelatedDataList"))>>,
  <<>>)
SatellitesListRelatedDataList == SizedListOf(Ref("SatellitesListRelatedData"), "0", "32")
SatellitesListRelatedData == ExtSequence(
  <<Field("SatId", Integer("0", "63")), Field("Iod", Integer("0", "1023"))>>,
  <<>>)
GanssDataBits == ExtSequence(
  <<Field("GanssTODmin", Integer("0", "59")),
    Field("ReqDataBitAssistanceList", Ref("ReqDataBitAssistanceList"))>>,
  <<>>)
ReqDataBitAssistanceList == ExtSequence(
  <<Field("GnssSignals", Ref("GANSSSignals")), Field("GanssDataBitInterval", Integer("0", "15")),
    Optional("GanssDataBitSatList", Ref("ReqDataBitAssistanceListGanssDataBitSatList"))>>,
  <<>>)
GanssAdditionalDataChoices == ExtSequence(
  <<Optional("OrbitModelID", Integer("0", "7")), Optional("ClockModelID", Integer("0", "7")),
    Optional("UtcModelID", Integer("0", "7")), Optional("AlmanacModelID", Integer("0", "7"))>>,
  <<>>)
GanssExtendedEphCheck == ExtSequence(
  <<Field("BeginTime", Ref("GANSSextEphTime")), Field("EndTime", Ref("GANSSextEphTime"))>>,
  <<>>)
GANSSextEphTime == ExtSequence(
  <<Field("GANSSday", Integer("0", "8191")), Field("GANSSTODhour", Integer("0", "23"))>>,
  <<>>)
NavigationModel == ExtSequence(
  <<Field("GpsWeek", Integer("0", "1023")), Field("GpsToe", Integer("0", "167")),
    Field("Nsat", Integer("0", "31")), Field("ToeLimit", Integer("0", "10")),
    Optional("SatInfo", Ref("SatelliteInfo"))>>,
  <<>>)
SatelliteInfo == SizedListOf(Ref("SatelliteInfoElement"), "1", "31")
SatelliteInfoElement == ExtSequence(
  <<Field("SatId", Integer("0", "63")), Field("Iode", Integer("0", "255"))>>,
  <<>>)
PAUTH == ExtSequence(
  <<Field("SPCSETKey", Ref("SPCSETKey")), Field("Spctid", Ref("SPCTID")),
    Optional("SPCSETKeylifetime", Ref("SPCSETKeylifetime"))>>,
  <<>>)
PALIVE == ExtSequence(<<Optional("SPCStatusCode", Ref("SPCStatusCode"))>>, <<>>)
PEND == ExtSequence(
  <<Optional("Position", Ref("Position")), Optional("StatusCode", Ref("StatusCode"))>>,
  <<>>)
PMESS == ExtSequence(
  <<Field("PosPayLoad", Ref("PosPayLoad")), Optional("Velocity", Ref("Velocity")),
    Optional("UtranGPSReferenceTimeAssistance", Ref("UTRANGPSReferenceTimeAssistance")),
    Optional("UtranGPSReferenceTimeResult", Ref("UTRANGPSReferenceTimeResult")),
    Optional("UtranGANSSReferenceTimeAssistance", Ref("UTRANGANSSReferenceTimeAssistance")),
    Optional("UtranGANSSReferenceTimeResult", Ref("UTRANGANSSReferenceTimeResult"))>>,
  <<>>)
AddPosSupportElementAddPosID == ExtEnumerated(<<"MBS">>, <<>>)
UTRANGPSReferenceTimeResultSetGPSTimingOfCell == Sequence(
  <<Field("MsPart", Integer("0", "16383")), Field("LsPart", Integer("0", "4294967295"))>>)
UTRANGPSReferenceTimeResultModeSpecificInfoFdd == Sequence(
  <<Field("ReferenceIdentity", Ref("PrimaryCPICHInfo"))>>)
UTRANGPSReferenceTimeResultModeSpecificInfoTdd == Sequence(
  <<Field("ReferenceIdentity", Ref("CellParametersID"))>>)
UTRANGPSReferenceTimeResultModeSpecificInfo == Choice(
  <<Field("Fdd", Ref("UTRANGPSReferenceTimeResultModeSpecificInfoFdd")),
    Field("Tdd", Ref("UTRANGPSReferenceTimeResultModeSpecificInfoTdd"))>>)
SETGANSSReferenceTimeSetGANSSTimingOfCell == Sequence(
  <<Field("MsPart", Integer("0", "80")), Field("LsPart", Integer("0", "4294967295"))>>)
SETGANSSReferenceTimeModeSpecificInfoFdd == Sequence(
  <<Field("ReferenceIdentity", Ref("PrimaryCPICHInfo"))>>)
SETGANSSReferenceTimeModeSpecificInfoTdd == Sequence(
  <<Field("ReferenceIdentity", Ref("CellParametersID"))>>)
SETGANSSReferenceTimeModeSpecificInfo == Choice(
  <<Field("Fdd", Ref("SETGANSSReferenceTimeModeSpecificInfoFdd")),
    Field("Tdd", Ref("SETGANSSReferenceTimeModeSpecificInfoTdd"))>>)
PositionEstimateLatitudeSign == Enumerated(<<"North", "South">>)
PositionEstimateUncertainty == Sequence(
  <<Field("UncertaintySemiMajor", Integer("0", "127")),
    Field("UncertaintySemiMinor", Integer("0", "127")),
    Field("OrientationMajorAxis", Integer("0", "180"))>>)
AltitudeInfoAltitudeDirection == Enumerated(<<"Height", "Depth">>)
MeasResultEUTRACgiInfo == Sequence(
  <<Field("CellGlobalId", Ref("CellGlobalIdEUTRA")),
    Field("TrackingAreaCode", Ref("TrackingAreaCode"))>>)
MeasResultEUTRAMeasResult == ExtSequence(
  <<Optional("RsrpResult", Ref("RSRPRange")), Optional("RsrqResult", Ref("RSRQRange"))>>,
  <<Optional("Earfcn", Integer("0", "65535")), Optional("EarfcnExt", Integer("65536", "262143")),
    Optional("RsrpResultExt", Ref("RSRPRangeExt")),
    Optional("RsrqResultExt", Ref("RSRQRangeExt")), Optional("RsSinrResult", Ref("RSSINRRange")),
    Optional("NeighbourInformation5G", Ref("NeighbourInformation5G"))>>)
WlanAPInformationApDeviceType == ExtEnumerated(
  <<"Wlan80211a", "Wlan80211b", "Wlan80211g">>,
  <<"Wlan80211n", "Wlan80211ac", "Wlan80211ad">>)
WlanAPInformationApPHYType == ExtEnumerated(
  <<"Unknown", "Any", "Fhss", "Dsss", "Irbaseband", "Ofdm", "Hrdsss", "Erp", "Ht", "Ihv">>,
  <<>>)
FrequencyInfoModeSpecificInfo == ExtChoice(
  <<Field("Fdd", Ref("FrequencyInfoFDD")), Field("Tdd", Ref("FrequencyInfoTDD"))>>,
  <<>>)
CellMeasuredResultsModeSpecificInfoFdd == Sequence(
  <<Field("PrimaryCPICHInfo", Ref("PrimaryCPICHInfo")), Optional("CpichEcN0", Ref("CPICHEcN0")),
    Optional("CpichRSCP", Ref("CPICHRSCP")), Optional("Pathloss", Ref("Pathloss"))>>)
CellMeasuredResultsModeSpecificInfoTdd == Sequence(
  <<Field("CellParametersID", Ref("CellParametersID")), Optional("ProposedTGSN", Ref("TGSN")),
    Optional("PrimaryCCPCHRSCP", Ref("PrimaryCCPCHRSCP")), Optional("Pathloss", Ref("Pathloss")),
    Optional("TimeslotISCPList", Ref("TimeslotISCPList"))>>)
CellMeasuredResultsModeSpecificInfo == Choice(
  <<Field("Fdd", Ref("CellMeasuredResultsModeSpecificInfoFdd")),
    Field("Tdd", Ref("CellMeasuredResultsModeSpecificInfoTdd"))>>)
UTRANGPSReferenceTimeUtranGPSTimingOfCell == Sequence(
  <<Field("MsPart", Integer("0", "1023")), Field("LsPart", Integer("0", "4294967295"))>>)
UTRANGPSReferenceTimeModeSpecificInfoFdd == Sequence(
  <<Field("ReferenceIdentity", Ref("PrimaryCPICHInfo"))>>)
UTRANGPSReferenceTimeModeSpecificInfoTdd == Sequence(
  <<Field("ReferenceIdentity", Ref("CellParametersID"))>>)
UTRANGPSReferenceTimeModeSpecificInfo == Choice(
  <<Field("Fdd", Ref("UTRANGPSReferenceTimeModeSpecificInfoFdd")),
    Field("Tdd", Ref("UTRANGPSReferenceTimeModeSpecificInfoTdd"))>>)
UTRANGANSSReferenceTimeModeSpecificInfoFdd == Sequence(
  <<Field("ReferenceIdentity", Ref("PrimaryCPICHInfo"))>>)
UTRANGANSSReferenceTimeModeSpecificInfoTdd == Sequence(
  <<Field("ReferenceIdentity", Ref("CellParametersID"))>>)
UTRANGANSSReferenceTimeModeSpecificInfo == Choice(
  <<Field("Fdd", Ref("UTRANGANSSReferenceTimeModeSpecificInfoFdd")),
    Field("Tdd", Ref("UTRANGANSSReferenceTimeModeSpecificInfoTdd"))>>)
MultiPosPayLoadLPPPayload == SizedListOf(OctetString("1", "60000"), "1", "3")
MultiPosPayLoadTia801Payload == SizedListOf(OctetString("1", "60000"), "1", "3")
ReqDataBitAssistanceListGanssDataBitSatList == SizedListOf(Integer("0", "63"), "1", "32")

\* Every type under its name: what a Ref leads to.
Types == [
  Version |-> Version, SessionID2 |-> SessionID2, SetSessionID |-> SetSessionID, SETId |-> SETId,
  SlcSessionID |-> SlcSessionID, SpcSessionID |-> SpcSessionID, IPAddress |-> IPAddress,
  NodeAddress |-> NodeAddress, FQDN |-> FQDN, LocationId |-> LocationId, Status |-> Status,
  MultipleLocationIds |-> MultipleLocationIds, LocationIdData |-> LocationIdData,
  RelativeTime |-> RelativeTime, SETCapabilities |-> SETCapabilities,
  PosTechnology |-> PosTechnology, GANSSPositionMethods |-> GANSSPositionMethods,
  GANSSPositionMethod |-> GANSSPositionMethod,
  GANSSPositioningMethodTypes |-> GANSSPositioningMethodTypes, GANSSSignals |-> GANSSSignals,
  AdditionalPositioningMethods |-> AdditionalPositioningMethods,
  AddPosSupportElement |-> AddPosSupportElement, PrefMethod |-> PrefMethod,
  PosProtocol |-> PosProtocol, PosProtocolVersion3GPP |-> PosProtocolVersion3GPP,
  PosProtocolVersion3GPP2 |-> PosProtocolVersion3GPP2,
  Supported3GPP2PosProtocolVersion |-> Supported3GPP2PosProtocolVersion,
  PosProtocolVersionOMA |-> PosProtocolVersionOMA, SupportedBearers |-> SupportedBearers,
  CellInfo |-> CellInfo, UTRANGPSReferenceTimeResult |-> UTRANGPSReferenceTimeResult,
  UTRANGANSSReferenceTimeResult |-> UTRANGANSSReferenceTimeResult,
  SETGANSSReferenceTime |-> SETGANSSReferenceTime, GNSSPosTechnology |-> GNSSPosTechnology,
  Position |-> Position, PositionEstimate |-> PositionEstimate, AltitudeInfo |-> AltitudeInfo,
  CdmaCellInformation |-> CdmaCellInformation, GsmCellInformation |-> GsmCellInformation,
  WcdmaCellInformation |-> WcdmaCellInformation, TimingAdvance |-> TimingAdvance,
  TAResolution |-> TAResolution, ChipRate |-> ChipRate,
  HrpdCellInformation |-> HrpdCellInformation, UmbCellInformation |-> UmbCellInformation,
  LteCellInformation |-> LteCellInformation, MeasResultListEUTRA |-> MeasResultListEUTRA,
  MeasResultEUTRA |-> MeasResultEUTRA, PhysCellId |-> PhysCellId,
  TrackingAreaCode |-> TrackingAreaCode, CellGlobalIdEUTRA |-> CellGlobalIdEUTRA,
  PLMNIdentity |-> PLMNIdentity, CellIdentity |-> CellIdentity, MCC |-> MCC, MNC |-> MNC,
  MCCMNCDigit |-> MCCMNCDigit, RSRPRange |-> RSRPRange, RSRQRange |-> RSRQRange,
  RSRPRangeExt |-> RSRPRangeExt, RSRQRangeExt |-> RSRQRangeExt, RSSINRRange |-> RSSINRRange,
  ServingInformation5G |-> ServingInformation5G,
  NeighbourInformation5G |-> NeighbourInformation5G, WlanAPInformation |-> WlanAPInformation,
  RTD |-> RTD, RTDUnits |-> RTDUnits, ReportedLocation |-> ReportedLocation,
  LocationEncodingDescriptor |-> LocationEncodingDescriptor, LocationData |-> LocationData,
  RepLocation |-> RepLocation, LciLocData |-> LciLocData, LocationDataLCI |-> LocationDataLCI,
  WimaxBSInformation |-> WimaxBSInformation, WimaxBsID |-> WimaxBsID, WimaxRTD |-> WimaxRTD,
  WimaxNMRList |-> WimaxNMRList, WimaxNMR |-> WimaxNMR, NRCellInformation |-> NRCellInformation,
  ServingCellInformationNR |-> ServingCellInformationNR, ServCellNR |-> ServCellNR,
  MeasResultListNR |-> MeasResultListNR, MeasResultNR |-> MeasResultNR,
  PhysCellIdNR |-> PhysCellIdNR, ARFCNNR |-> ARFCNNR, TrackingAreaCodeNR |-> TrackingAreaCodeNR,
  CellGlobalIdNR |-> CellGlobalIdNR, CellIdentityNR |-> CellIdentityNR,
  NRMeasurements |-> NRMeasurements, FrequencyInfo |-> FrequencyInfo,
  FrequencyInfoFDD |-> FrequencyInfoFDD, FrequencyInfoTDD |-> FrequencyInfoTDD, UARFCN |-> UARFCN,
  NMR |-> NMR, NMRelement |-> NMRelement, MeasuredResultsList |-> MeasuredResultsList,
  MeasuredResults |-> MeasuredResults, CellMeasuredResultsList |-> CellMeasuredResultsList,
  UTRACarrierRSSI |-> UTRACarrierRSSI, CellMeasuredResults |-> CellMeasuredResults,
  CellParametersID |-> CellParametersID, TGSN |-> TGSN, PrimaryCCPCHRSCP |-> PrimaryCCPCHRSCP,
  TimeslotISCP |-> TimeslotISCP, TimeslotISCPList |-> TimeslotISCPList,
  PrimaryCPICHInfo |-> PrimaryCPICHInfo, CPICHEcN0 |-> CPICHEcN0, CPICHRSCP |-> CPICHRSCP,
  Pathloss |-> Pathloss, UTRANGPSReferenceTimeAssistance |-> UTRANGPSReferenceTimeAssistance,
  UTRANGPSReferenceTime |-> UTRANGPSReferenceTime, UTRANGPSDriftRate |-> UTRANGPSDriftRate,
  UTRANGANSSReferenceTimeAssistance |-> UTRANGANSSReferenceTimeAssistance,
  UTRANGANSSReferenceTime |-> UTRANGANSSReferenceTime,
  UTRANGANSSDriftRate |-> UTRANGANSSDriftRate, StatusCode |-> StatusCode, QoP |-> QoP,
  Velocity |-> Velocity, Horvel |-> Horvel, Horandvervel |-> Horandvervel,
  Horveluncert |-> Horveluncert, Horandveruncert |-> Horandveruncert, PosMethod |-> PosMethod,
  SPCSETKey |-> SPCSETKey, SPCTID |-> SPCTID, SPCSETKeylifetime |-> SPCSETKeylifetime,
  PosPayLoad |-> PosPayLoad, MultiPosPayLoad |-> MultiPosPayLoad, SPCStatusCode |-> SPCStatusCode,
  ILPPDU |-> ILPPDU, IlpMessage |-> IlpMessage, PREQ |-> PREQ, SLPMode |-> SLPMode,
  TriggerParams |-> TriggerParams, TriggerType |-> TriggerType,
  PeriodicTriggerParams |-> PeriodicTriggerParams, NotificationMode |-> NotificationMode,
  PRES |-> PRES, PRPT |-> PRPT, PLREQ |-> PLREQ, PLRES |-> PLRES,
  PositionResults |-> PositionResults, PositionResult |-> PositionResult, PINIT |-> PINIT,
  RequestedAssistData |-> RequestedAssistData, ExtendedEphemeris |-> ExtendedEphemeris,
  ExtendedEphCheck |-> ExtendedEphCheck, GPSTime |-> GPSTime,
  GanssRequestedCommonAssistanceDataList |-> GanssRequestedCommonAssistanceDataList,
  GanssRequestedGenericAssistanceDataList |-> GanssRequestedGenericAssistanceDataList,
  GanssReqGenericData |-> GanssReqGenericData, DGANSSSigIdReq |-> DGANSSSigIdReq,
  BDSSigIdReq |-> BDSSigIdReq, GanssNavigationModelData |-> GanssNavigationModelData,
  SatellitesListRelatedDataList |-> SatellitesListRelatedDataList,
  SatellitesListRelatedData |-> SatellitesListRelatedData, GanssDataBits |-> GanssDataBits,
  ReqDataBitAssistanceList |-> ReqDataBitAssistanceList,
  GanssAdditionalDataChoices |-> GanssAdditionalDataChoices,
  GanssExtendedEphCheck |-> GanssExtendedEphCheck, GANSSextEphTime |-> GANSSextEphTime,
  NavigationModel |-> NavigationModel, SatelliteInfo |-> SatelliteInfo,
  SatelliteInfoElement |-> SatelliteInfoElement, PAUTH |-> PAUTH, PALIVE |-> PALIVE,
  PEND |-> PEND, PMESS |-> PMESS, AddPosSupportElementAddPosID |-> AddPosSupportElementAddPosID,
  UTRANGPSReferenceTimeResultSetGPSTimingOfCell |-> UTRANGPSReferenceTimeResultSetGPSTimingOfCell,
  UTRANGPSReferenceTimeResultModeSpecificInfoFdd |-> UTRANGPSReferenceTimeResultModeSpecificInfoFdd,
  UTRANGPSReferenceTimeResultModeSpecificInfoTdd |-> UTRANGPSReferenceTimeResultModeSpecificInfoTdd,
  UTRANGPSReferenceTimeResultModeSpecificInfo |-> UTRANGPSReferenceTimeResultModeSpecificInfo,
  SETGANSSReferenceTimeSetGANSSTimingOfCell |-> SETGANSSReferenceTimeSetGANSSTimingOfCell,
  SETGANSSReferenceTimeModeSpecificInfoFdd |-> SETGANSSReferenceTimeModeSpecificInfoFdd,
  SETGANSSReferenceTimeModeSpecificInfoTdd |-> SETGANSSReferenceTimeModeSpecificInfoTdd,
  SETGANSSReferenceTimeModeSpecificInfo |-> SETGANSSReferenceTimeModeSpecificInfo,
  PositionEstimateLatitudeSign |-> PositionEstimateLatitudeSign,
  PositionEstimateUncertainty |-> PositionEstimateUncertainty,
  AltitudeInfoAltitudeDirection |-> AltitudeInfoAltitudeDirection,
  MeasResultEUTRACgiInfo |-> MeasResultEUTRACgiInfo,
  MeasResultEUTRAMeasResult |-> MeasResultEUTRAMeasResult,
  WlanAPInformationApDeviceType |-> WlanAPInformationApDeviceType,
  WlanAPInformationApPHYType |-> WlanAPInformationApPHYType,
  FrequencyInfoModeSpecificInfo |-> FrequencyInfoModeSpecificInfo,
  CellMeasuredResultsModeSpecificInfoFdd |-> CellMeasuredResultsModeSpecificInfoFdd,
  CellMeasuredResultsModeSpecificInfoTdd |-> CellMeasuredResultsModeSpecificInfoTdd,
  CellMeasuredResultsModeSpecificInfo |-> CellMeasuredResultsModeSpecificInfo,
  UTRANGPSReferenceTimeUtranGPSTimingOfCell |-> UTRANGPSReferenceTimeUtranGPSTimingOfCell,
  UTRANGPSReferenceTimeModeSpecificInfoFdd |-> UTRANGPSReferenceTimeModeSpecificInfoFdd,
  UTRANGPSReferenceTimeModeSpecificInfoTdd |-> UTRANGPSReferenceTimeModeSpecificInfoTdd,
  UTRANGPSReferenceTimeModeSpecificInfo |-> UTRANGPSReferenceTimeModeSpecificInfo,
  UTRANGANSSReferenceTimeModeSpecificInfoFdd |-> UTRANGANSSReferenceTimeModeSpecificInfoFdd,
  UTRANGANSSReferenceTimeModeSpecificInfoTdd |-> UTRANGANSSReferenceTimeModeSpecificInfoTdd,
  UTRANGANSSReferenceTimeModeSpecificInfo |-> UTRANGANSSReferenceTimeModeSpecificInfo,
  MultiPosPayLoadLPPPayload |-> MultiPosPayLoadLPPPayload,
  MultiPosPayLoadTia801Payload |-> MultiPosPayLoadTia801Payload,
  ReqDataBitAssistanceListGanssDataBitSatList |-> ReqDataBitAssistanceListGanssDataBitSatList]
===============================================================================
