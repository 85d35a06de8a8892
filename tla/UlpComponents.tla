---------------------------- MODULE UlpComponents ----------------------------
(***************************************************************************)
(* The types of package `ulp` that ULP-Components.asn declares: the shape  *)
(* of each Go type in src/example/ulp/types.go, in the order of the file.  *)
(***************************************************************************)
LOCAL INSTANCE Shapes

Version == Sequence(
  <<Field("Maj", Integer("0", "255")), Field("Min", Integer("0", "255")),
    Field("Servind", Integer("0", "255"))>>)
SessionID == Sequence(
  <<Optional("SetSessionID", Ref("SetSessionID")), Optional("SlpSessionID", Ref("SlpSessionID"))>>)
SetSessionID == Sequence(
  <<Field("SessionId", Integer("0", "65535")), Field("SetId", Ref("SETId"))>>)
SETId == ExtChoice(
  <<Field("Msisdn", OctetString("8", "8")), Field("Mdn", OctetString("8", "8")),
    Field("Min", BitString("34", "34")), Field("Imsi", OctetString("8", "8")),
    Field("Nai", IA5String("1", "1000")), Field("IPAddress", Ref("IPAddress"))>>,
  <<Field("Ver2Imei", OctetString("8", "8"))>>)
SlpSessionID == Sequence(
  <<Field("SessionID", OctetString("4", "4")), Field("SlpId", Ref("SLPAddress"))>>)
IPAddress == Choice(
  <<Field("Ipv4Address", OctetString("4", "4")), Field("Ipv6Address", OctetString("16", "16"))>>)
SLPAddress == ExtChoice(
  <<Field("IPAddress", Ref("IPAddress")), Field("Fqdn", Ref("FQDN"))>>,
  <<>>)
FQDN == VisibleString(<<"a-z", "A-Z", "0-9", ".-">>, "1", "255")
Ver == BitString("64", "64")
LocationId == ExtSequence(
  <<Field("CellInfo", Ref("CellInfo")), Field("Status", Ref("Status"))>>,
  <<>>)
Status == ExtEnumerated(<<"Stale", "Current", "Unknown">>, <<>>)
CellInfo == ExtChoice(
  <<Field("GsmCell", Ref("GsmCellInformation")), Field("WcdmaCell", Ref("WcdmaCellInformation")),
    Field("CdmaCell", Ref("CdmaCellInformation"))>>,
  <<Field("Ver2CellInfoExtension", Ref("Ver2CellInfoExtension"))>>)
Position == ExtSequence(
  <<Field("Timestamp", UTCTime), Field("PositionEstimate", Ref("PositionEstimate")),
    Optional("Velocity", Ref("Velocity"))>>,
  <<>>)
PositionEstimate == ExtSequence(
  <<Field("LatitudeSign", Ref("PositionEstimateLatitudeSign")),
    Field("Latitude", Integer("0", "8388607")),
    Field("Longitude", Integer("-8388608", "8388607")),
    Optional("Uncertainty", Ref("PositionEstimateUncertainty")),
    Optional("Confidence", Integer("0", "100")), Optional("AltitudeInfo", Ref("AltitudeInfo"))>>,
  <<>>)
AltitudeInfo == ExtSequence(
  <<Field("AltitudeDirection", Ref("AltitudeInfoAltitudeDirection")),
    Field("Altitude", Integer("0", "32767")), Field("AltUncertainty", Integer("0", "127"))>>,
  <<>>)
CdmaCellInformation == ExtSequence(
  <<Field("RefNID", Integer("0", "65535")), Field("RefSID", Integer("0", "32767")),
    Field("RefBASEID", Integer("0", "65535")), Field("RefBASELAT", Integer("0", "4194303")),
    Field("ReBASELONG", Integer("0", "8388607")), Field("RefREFPN", Integer("0", "511")),
    Field("RefWeekNumber", Integer("0", "65535")), Field("RefSeconds", Integer("0", "4194303"))>>,
  <<>>)
GsmCellInformation == ExtSequence(
  <<Field("RefMCC", Integer("0", "999")), Field("RefMNC", Integer("0", "999")),
    Field("RefLAC", Integer("0", "65535")), Field("RefCI", Integer("0", "65535")),
    Optional("Nmr", Ref("NMR")), Optional("Ta", Integer("0", "255"))>>,
  <<>>)
WcdmaCellInformation == ExtSequence(
  <<Field("RefMCC", Integer("0", "999")), Field("RefMNC", Integer("0", "999")),
    Field("RefUC", Integer("0", "268435455")), Optional("FrequencyInfo", Ref("FrequencyInfo")),
    Optional("PrimaryScramblingCode", Integer("0", "511")),
    Optional("MeasuredResultsList", Ref("MeasuredResultsList"))>>,
  <<Optional("CellParametersId", Integer("0", "127")),
    Optional("TimingAdvance", Ref("TimingAdvance"))>>)
TimingAdvance == ExtSequence(
  <<Field("Ta", Integer("0", "8191")), Optional("TAResolution", Ref("TAResolution")),
    Optional("ChipRate", Ref("ChipRate"))>>,
  <<>>)
TAResolution == ExtEnumerated(<<"Res10chip", "Res05chip", "Res0125chip">>, <<>>)
ChipRate == ExtEnumerated(<<"Tdd128", "Tdd384", "Tdd768">>, <<>>)
FrequencyInfo == ExtSequence(
  <<Field("ModeSpecificInfo", Ref("FrequencyInfoModeSpecificInfo"))>>,
  <<>>)
FrequencyInfoFDD == ExtSequence(
  <<Optional("UarfcnUL", Ref("UARFCN")), Field("UarfcnDL", Ref("UARFCN"))>>,
  <<>>)
FrequencyInfoTDD == ExtSequence(<<Field("UarfcnNt", Ref("UARFCN"))>>, <<>>)
UARFCN == Integer("0", "16383")
NMR == SizedListOf(Ref("NMRelement"), "1", "15")
NMRelement == ExtSequence(
  <<Field("Arfcn", Integer("0", "1023")), Field("Bsic", Integer("0", "63")),
    Field("RxLev", Integer("0", "63"))>>,
  <<>>)
MeasuredResultsList == SizedListOf(Ref("MeasuredResults"), "1", "8")
MeasuredResults == Sequence(
  <<Optional("FrequencyInfo", Ref("FrequencyInfo")),
    Optional("UtraCarrierRSSI", Ref("UTRACarrierRSSI")),
    Optional("CellMeasuredResultsList", Ref("CellMeasuredResultsList"))>>)
CellMeasuredResultsList == SizedListOf(Ref("CellMeasuredResults"), "1", "32")
UTRACarrierRSSI == Integer("0", "127")
CellMeasuredResults == Sequence(
  <<Optional("CellIdentity", Integer("0", "268435455")),
    Field("ModeSpecificInfo", Ref("CellMeasuredResultsModeSpecificInfo"))>>)
CellParametersID == Integer("0", "127")
TGSN == Integer("0", "14")
PrimaryCCPCHRSCP == Integer("0", "127")
TimeslotISCP == Integer("0", "127")
TimeslotISCPList == SizedListOf(Ref("TimeslotISCP"), "1", "14")
PrimaryCPICHInfo == Sequence(<<Field("PrimaryScramblingCode", Integer("0", "511"))>>)
CPICHEcN0 == Integer("0", "63")
CPICHRSCP == Integer("0", "127")
Pathloss == Integer("46", "173")
StatusCode == ExtEnumeratedAt(
  <<Item("Unspecified", 0), Item("SystemFailure", 1), Item("UnexpectedMessage", 2),
    Item("ProtocolError", 3), Item("DataMissing", 4), Item("UnexpectedDataValue", 5),
    Item("PosMethodFailure", 6), Item("PosMethodMismatch", 7), Item("PosProtocolMismatch", 8),
    Item("TargetSETnotReachable", 9), Item("VersionNotSupported", 10),
    Item("ResourceShortage", 11), Item("InvalidSessionId", 12),
    Item("NonProxyModeNotSupported", 13), Item("ProxyModeNotSupported", 14),
    Item("PositioningNotPermitted", 15), Item("AuthNetFailure", 16),
    Item("AuthSuplinitFailure", 17), Item("ConsentDeniedByUser", 100),
    Item("ConsentGrantedByUser", 101)>>,
  <<Item("Ver2IncompatibleProtectionLevel", 18), Item("Ver2ServiceNotSupported", 19),
    Item("Ver2InsufficientInterval", 20), Item("Ver2NoSUPLCoverage", 21),
    Item("Ver2SessionStopped", 102), Item("Ver2AppIdDenied", 103)>>)
QoP == ExtSequence(
  <<Field("Horacc", Integer("0", "127")), Optional("Veracc", Integer("0", "127")),
    Optional("MaxLocAge", Integer("0", "65535")), Optional("Delay", Integer("0", "7"))>>,
  <<Optional("Ver2ResponseTime", Integer("1", "128"))>>)
Velocity == ExtChoice(
  <<Field("Horvel", Ref("Horvel")), Field("Horandvervel", Ref("Horandvervel")),
    Field("Horveluncert", Ref("Horveluncert")), Field("Horandveruncert", Ref("Horandveruncert"))>>,
  <<>>)
Horvel == ExtSequence(
  <<Field("Bearing", BitString("9", "9")), Field("Horspeed", BitString("16", "16"))>>,
  <<>>)
Horandvervel == ExtSequence(
  <<Field("Verdirect", BitString("1", "1")), Field("Bearing", BitString("9", "9")),
    Field("Horspeed", BitString("16", "16")), Field("Verspeed", BitString("8", "8"))>>,
  <<>>)
Horveluncert == ExtSequence(
  <<Field("Bearing", BitString("9", "9")), Field("Horspeed", BitString("16", "16")),
    Field("Uncertspeed", BitString("8", "8"))>>,
  <<>>)
Horandveruncert == ExtSequence(
  <<Field("Verdirect", BitString("1", "1")), Field("Bearing", BitString("9", "9")),
    Field("Horspeed", BitString("16", "16")), Field("Verspeed", BitString("8", "8")),
    Field("Horuncertspeed", BitString("8", "8")), Field("Veruncertspeed", BitString("8", "8"))>>,
  <<>>)
PosMethod == ExtEnumerated(
  <<"AgpsSETassisted", "AgpsSETbased", "AgpsSETassistedpref", "AgpsSETbasedpref", "AutonomousGPS",
    "Aflt", "Ecid", "Eotd", "Otdoa", "NoPosition">>,
  <<"Ver2HistoricalDataRetrieval", "Ver2AgnssSETassisted", "Ver2AgnssSETbased",
    "Ver2AgnssSETassistedpref", "Ver2AgnssSETbasedpref", "Ver2AutonomousGNSS",
    "Ver2Sessioninfoquery", "Ver2Mbs">>)
MultipleLocationIds == SizedListOf(Ref("LocationIdData"), "1", "64")
LocationIdData == ExtSequence(
  <<Field("LocationId", Ref("LocationId")), Optional("Relativetimestamp", Ref("RelativeTime")),
    Field("ServingFlag", Boolean)>>,
  <<>>)
RelativeTime == Integer("0", "65535")
SupportedNetworkInformation == ExtSequence(
  <<Field("Wlan", Boolean), Optional("SupportedWLANInfo", Ref("SupportedWLANInfo")),
    Optional("SupportedWLANApsList", Ref("SupportedWLANApsList")), Field("Gsm", Boolean),
    Field("Wcdma", Boolean), Optional("SupportedWCDMAInfo", Ref("SupportedWCDMAInfo")),
    Field("Cdma", Boolean), Field("Hrdp", Boolean), Field("Umb", Boolean), Field("Lte", Boolean),
    Field("Wimax", Boolean), Field("Historic", Boolean), Field("NonServing", Boolean),
    Field("UTRANGPSReferenceTime", Boolean), Field("UTRANGANSSReferenceTime", Boolean)>>,
  <<Optional("Nr", Boolean)>>)
SupportedWLANInfo == ExtSequence(
  <<Field("ApTP", Boolean), Field("ApAG", Boolean), Field("ApSN", Boolean),
    Field("ApDevType", Boolean), Field("ApRSSI", Boolean), Field("ApChanFreq", Boolean),
    Field("ApRTD", Boolean), Field("SetTP", Boolean), Field("SetAG", Boolean),
    Field("SetSN", Boolean), Field("SetRSSI", Boolean), Field("ApRepLoc", Boolean)>>,
  <<Optional("ApRL", Boolean), Optional("OpClass", Boolean), Optional("ApSSID", Boolean),
    Optional("ApPHYType", Boolean), Optional("SetMACAddress", Boolean)>>)
SupportedWLANApsList == ExtSequence(
  <<Field("SupportedWLANApDataList", Ref("SupportedWLANApsListSupportedWLANApDataList")),
    Optional("SupportedWLANapsChannel11a", Ref("SupportedWLANApsChannel11a")),
    Optional("SupportedWLANapsChannel11bg", Ref("SupportedWLANApsChannel11bg"))>>,
  <<>>)
SupportedWLANApsChannel11a == Sequence(
  <<Field("Ch34", Boolean), Field("Ch36", Boolean), Field("Ch38", Boolean),
    Field("Ch40", Boolean), Field("Ch42", Boolean), Field("Ch44", Boolean),
    Field("Ch46", Boolean), Field("Ch48", Boolean), Field("Ch52", Boolean),
    Field("Ch56", Boolean), Field("Ch60", Boolean), Field("Ch64", Boolean),
    Field("Ch149", Boolean), Field("Ch153", Boolean), Field("Ch157", Boolean),
    Field("Ch161", Boolean)>>)
SupportedWLANApsChannel11bg == Sequence(
  <<Field("Ch1", Boolean), Field("Ch2", Boolean), Field("Ch3", Boolean), Field("Ch4", Boolean),
    Field("Ch5", Boolean), Field("Ch6", Boolean), Field("Ch7", Boolean), Field("Ch8", Boolean),
    Field("Ch9", Boolean), Field("Ch10", Boolean), Field("Ch11", Boolean), Field("Ch12", Boolean),
    Field("Ch13", Boolean), Field("Ch14", Boolean)>>)
SupportedWLANApData == ExtSequence(
  <<Field("ApMACAddress", BitString("48", "48")),
    Field("ApDevType", Ref("SupportedWLANApDataApDevType"))>>,
  <<>>)
SupportedWCDMAInfo == ExtSequence(<<Field("Mrl", Boolean)>>, <<>>)
Ver2CellInfoExtension == ExtChoice(
  <<Field("HrpdCell", Ref("HrpdCellInformation")), Field("UmbCell", Ref("UmbCellInformation")),
    Field("LteCell", Ref("LteCellInformation")), Field("WlanAP", Ref("WlanAPInformation")),
    Field("WimaxBS", Ref("WimaxBSInformation"))>>,
  <<Field("NrCell", Ref("NRCellInformation"))>>)
HrpdCellInformation == ExtSequence(
  <<Optional("RefSECTORID", BitString("128", "128")),
    Field("RefBASELAT", Integer("0", "4194303")), Field("ReBASELONG", Integer("0", "8388607")),
    Field("RefWeekNumber", Integer("0", "65535")), Field("RefSeconds", Integer("0", "4194303"))>>,
  <<>>)
UmbCellInformation == ExtSequence(
  <<Field("RefSECTORID", BitString("128", "128")), Field("RefMCC", Integer("0", "999")),
    Field("RefMNC", Integer("0", "999")), Field("RefBASELAT", Integer("0", "4194303")),
    Field("ReBASELONG", Integer("0", "8388607")), Field("RefWeekNumber", Integer("0", "65535")),
    Field("RefSeconds", Integer("0", "4194303"))>>,
  <<>>)
LteCellInformation == ExtSequence(
  <<Field("CellGlobalIdEUTRA", Ref("CellGlobalIdEUTRA")), Field("PhysCellId", Ref("PhysCellId")),
    Field("TrackingAreaCode", Ref("TrackingAreaCode")), Optional("RsrpResult", Ref("RSRPRange")),
    Optional("RsrqResult", Ref("RSRQRange")), Optional("Ta", Integer("0", "1282")),
    Optional("MeasResultListEUTRA", Ref("MeasResultListEUTRA"))>>,
  <<Optional("Earfcn", Integer("0", "65535")), Optional("EarfcnExt", Integer("65536", "262143")),
    Optional("RsrpResultExt", Ref("RSRPRangeExt")),
    Optional("RsrqResultExt", Ref("RSRQRangeExt")), Optional("RsSinrResult", Ref("RSSINRRange")),
    Optional("ServingInformation5G", Ref("ServingInformation5G"))>>)
MeasResultListEUTRA == SizedListOf(Ref("MeasResultEUTRA"), "1", "8")
MeasResultEUTRA == Sequence(
  <<Field("PhysCellId", Ref("PhysCellId")), Optional("CgiInfo", Ref("MeasResultEUTRACgiInfo")),
    Field("MeasResult", Ref("MeasResultEUTRAMeasResult"))>>)
PhysCellId == Integer("0", "503")
TrackingAreaCode == BitString("16", "16")
CellGlobalIdEUTRA == ExtSequence(
  <<Field("PlmnIdentity", Ref("PLMNIdentity")), Field("CellIdentity", Ref("CellIdentity"))>>,
  <<>>)
PLMNIdentity == Sequence(<<Optional("Mcc", Ref("MCC")), Field("Mnc", Ref("MNC"))>>)
CellIdentity == BitString("28", "28")
MCC == SizedListOf(Ref("MCCMNCDigit"), "3", "3")
MNC == SizedListOf(Ref("MCCMNCDigit"), "2", "3")
MCCMNCDigit == Integer("0", "9")
RSRPRange == Integer("0", "97")
RSRQRange == Integer("0", "34")
RSRPRangeExt == Integer("-17", "-1")
RSRQRangeExt == Integer("-30", "46")
RSSINRRange == Integer("0", "127")
ServingInformation5G == ExtSequence(
  <<Field("TrackingAreaCode", Ref("TrackingAreaCodeNR"))>>,
  <<>>)
NeighbourInformation5G == ExtSequence(
  <<Optional("TrackingAreaCode", Ref("TrackingAreaCodeNR"))>>,
  <<>>)
WlanAPInformation == ExtSequence(
  <<Field("ApMACAddress", BitString("48", "48")),
    Optional("ApTransmitPower", Integer("-127", "128")),
    Optional("ApAntennaGain", Integer("-127", "128")),
    Optional("ApSignaltoNoise", Integer("-127", "128")),
    Optional("ApDeviceType", Ref("WlanAPInformationApDeviceType")),
    Optional("ApSignalStrength", Integer("-127", "128")),
    Optional("ApChannelFrequency", Integer("0", "256")), Optional("ApRoundTripDelay", Ref("RTD")),
    Optional("SetTransmitPower", Integer("-127", "128")),
    Optional("SetAntennaGain", Integer("-127", "128")),
    Optional("SetSignaltoNoise", Integer("-127", "128")),
    Optional("SetSignalStrength", Integer("-127", "128")),
    Optional("ApReportedLocation", Ref("ReportedLocation"))>>,
  <<Optional("ApRepLocation", Ref("RepLocation")),
    Optional("ApSignalStrengthDelta", Integer("0", "1")),
    Optional("ApSignaltoNoiseDelta", Integer("0", "1")),
    Optional("SetSignalStrengthDelta", Integer("0", "1")),
    Optional("SetSignaltoNoiseDelta", Integer("0", "1")),
    Optional("OperatingClass", Integer("0", "255")), Optional("ApSSID", OctetString("1", "32")),
    Optional("ApPHYType", Ref("WlanAPInformationApPHYType")),
    Optional("SetMACAddress", BitString("48", "48"))>>)
RTD == ExtSequence(
  <<Field("RTDValue", Integer("0", "16777216")), Field("RTDUnits", Ref("RTDUnits")),
    Optional("RTDAccuracy", Integer("0", "255"))>>,
  <<>>)
RTDUnits == ExtEnumerated(
  <<"Microseconds", "Hundredsofnanoseconds", "Tensofnanoseconds", "Nanoseconds",
    "Tenthsofnanoseconds">>,
  <<>>)
ReportedLocation == ExtSequence(
  <<Field("LocationEncodingDescriptor", Ref("LocationEncodingDescriptor")),
    Field("LocationData", Ref("LocationData"))>>,
  <<>>)
LocationEncodingDescriptor == ExtEnumerated(<<"Lci", "Asn1">>, <<>>)
LocationData == ExtSequence(
  <<Optional("LocationAccuracy", Integer("0", "4294967295")),
    Field("LocationValue", OctetString("1", "128"))>>,
  <<>>)
RepLocation == ExtChoice(<<Field("LciLocData", Ref("LciLocData"))>>, <<>>)
LciLocData == ExtSequence(<<Optional("LocationDataLCI", Ref("LocationDataLCI"))>>, <<>>)
LocationDataLCI == ExtSequence(
  <<Field("LatitudeResolution", BitString("6", "6")), Field("Latitude", BitString("34", "34")),
    Field("LongitudeResolution", BitString("6", "6")), Field("Longitude", BitString("34", "34")),
    Field("AltitudeType", BitString("4", "4")), Field("AltitudeResolution", BitString("6", "6")),
    Field("Altitude", BitString("30", "30")), Field("Datum", BitString("8", "8"))>>,
  <<>>)
WimaxBSInformation == ExtSequence(
  <<Field("WimaxBsID", Ref("WimaxBsID")), Optional("WimaxRTD", Ref("WimaxRTD")),
    Optional("WimaxNMRList", Ref("WimaxNMRList"))>>,
  <<>>)
WimaxBsID == ExtSequence(
  <<Optional("BsIDMSB", BitString("24", "24")), Field("BsIDLSB", BitString("24", "24"))>>,
  <<>>)
WimaxRTD == ExtSequence(
  <<Field("Rtd", Integer("0", "65535")), Optional("RTDstd", Integer("0", "1023"))>>,
  <<>>)
WimaxNMRList == SizedListOf(Ref("WimaxNMR"), "1", "32")
WimaxNMR == ExtSequence(
  <<Field("WimaxBsID", Ref("WimaxBsID")), Optional("RelDelay", Integer("-32768", "32767")),
    Optional("RelDelaystd", Integer("0", "1023")), Optional("Rssi", Integer("0", "255")),
    Optional("RSSIstd", Integer("0", "63")), Optional("BSTxPower", Integer("0", "255")),
    Optional("Cinr", Integer("0", "255")), Optional("CINRstd", Integer("0", "63")),
    Optional("BSLocation", Ref("ReportedLocation"))>>,
  <<>>)
NRCellInformation == ExtSequence(
  <<Field("ServingCellInformation", Ref("ServingCellInformationNR")),
    Optional("MeasuredResultsListNR", Ref("MeasResultListNR"))>>,
  <<>>)
ServingCellInformationNR == SizedListOf(Ref("ServCellNR"), "1", "32")
ServCellNR == ExtSequence(
  <<Field("PhysCellId", Ref("PhysCellIdNR")), Field("ArfcnNR", Ref("ARFCNNR")),
    Field("CellGlobalId", Ref("CellGlobalIdNR")),
    Field("TrackingAreaCode", Ref("TrackingAreaCodeNR")),
    Optional("SsbMeasurements", Ref("NRMeasurements")),
    Optional("CsiRsMeasurements", Ref("NRMeasurements")), Optional("Ta", Integer("0", "3846"))>>,
  <<>>)
MeasResultListNR == SizedListOf(Ref("MeasResultNR"), "1", "32")
MeasResultNR == ExtSequence(
  <<Field("PhysCellId", Ref("PhysCellIdNR")), Field("ArfcnNR", Ref("ARFCNNR")),
    Optional("CellGlobalId", Ref("CellGlobalIdNR")),
    Optional("TrackingAreaCode", Ref("TrackingAreaCodeNR")),
    Optional("SsbMeasurements", Ref("NRMeasurements")),
    Optional("CsiRsMeasurements", Ref("NRMeasurements"))>>,
  <<>>)
PhysCellIdNR == Integer("0", "1007")
ARFCNNR == Integer("0", "3279165")
TrackingAreaCodeNR == BitString("24", "24")
CellGlobalIdNR == ExtSequence(
  <<Field("PlmnIdentity", Ref("PLMNIdentity")), Field("CellIdentityNR", Ref("CellIdentityNR"))>>,
  <<>>)
CellIdentityNR == BitString("36", "36")
NRMeasurements == ExtSequence(
  <<Optional("RsrpRange", Integer("0", "127")), Optional("RsrqRange", Integer("0", "127")),
    Optional("SinrRange", Integer("0", "127"))>>,
  <<>>)
UTRANGPSReferenceTimeAssistance == Sequence(
  <<Field("UtranGPSReferenceTime", Ref("UTRANGPSReferenceTime")),
    Optional("GpsReferenceTimeUncertainty", Integer("0", "127")),
    Optional("UtranGPSDriftRate", Ref("UTRANGPSDriftRate"))>>)
UTRANGPSReferenceTime == Sequence(
  <<Field("UtranGPSTimingOfCell", Ref("UTRANGPSReferenceTimeUtranGPSTimingOfCell")),
    Optional("ModeSpecificInfo", Ref("UTRANGPSReferenceTimeModeSpecificInfo")),
    Field("Sfn", Integer("0", "4095"))>>)
UTRANGPSDriftRate == Enumerated(
  <<"UtranGPSDrift0", "UtranGPSDrift1", "UtranGPSDrift2", "UtranGPSDrift5", "UtranGPSDrift10",
    "UtranGPSDrift15", "UtranGPSDrift25", "UtranGPSDrift50", "UtranGPSDriftNeg1",
    "UtranGPSDriftNeg2", "UtranGPSDriftNeg5", "UtranGPSDriftNeg10", "UtranGPSDriftNeg15",
    "UtranGPSDriftNeg25", "UtranGPSDriftNeg50">>)
UTRANGPSReferenceTimeResult == ExtSequence(
  <<Field("SetGPSTimingOfCell", Ref("UTRANGPSReferenceTimeResultSetGPSTimingOfCell")),
    Optional("ModeSpecificInfo", Ref("UTRANGPSReferenceTimeResultModeSpecificInfo")),
    Field("Sfn", Integer("0", "4095")),
    Optional("GpsReferenceTimeUncertainty", Integer("0", "127"))>>,
  <<>>)
UTRANGANSSReferenceTimeAssistance == Sequence(
  <<Optional("GanssDay", Integer("0", "8191")), Field("GanssTimeID", Integer("0", "15")),
    Field("UtranGANSSReferenceTime", Ref("UTRANGANSSReferenceTime")),
    Optional("UtranGANSSDriftRate", Ref("UTRANGANSSDriftRate"))>>)
UTRANGANSSReferenceTime == ExtSequence(
  <<Field("GanssTOD", Integer("0", "86399")),
    Optional("UtranGANSSTimingOfCell", Integer("0", "3999999")),
    Optional("ModeSpecificInfo", Ref("UTRANGANSSReferenceTimeModeSpecificInfo")),
    Field("Sfn", Integer("0", "4095")), Optional("GanssTODUncertainty", Integer("0", "127"))>>,
  <<>>)
UTRANGANSSDriftRate == Enumerated(
  <<"UtranGANSSDrift0", "UtranGANSSDrift1", "UtranGANSSDrift2", "UtranGANSSDrift5",
    "UtranGANSSDrift10", "UtranGANSSDrift15", "UtranGANSSDrift25", "UtranGANSSDrift50",
    "UtranGANSSDriftNeg1", "UtranGANSSDriftNeg2", "UtranGANSSDriftNeg5", "UtranGANSSDriftNeg10",
    "UtranGANSSDriftNeg15", "UtranGANSSDriftNeg25", "UtranGANSSDriftNeg50">>)
UTRANGANSSReferenceTimeResult == ExtSequence(
  <<Field("GanssTimeID", Integer("0", "15")),
    Field("SetGANSSReferenceTime", Ref("SETGANSSReferenceTime"))>>,
  <<>>)
SETGANSSReferenceTime == ExtSequence(
  <<Optional("SetGANSSTimingOfCell", Ref("SETGANSSReferenceTimeSetGANSSTimingOfCell")),
    Optional("ModeSpecificInfo", Ref("SETGANSSReferenceTimeModeSpecificInfo")),
    Field("Sfn", Integer("0", "4095")), Optional("GanssTODUncertainty", Integer("0", "127"))>>,
  <<>>)
GNSSPosTechnology == ExtSequence(
  <<Field("Gps", Boolean), Field("Galileo", Boolean), Field("Sbas", Boolean),
    Field("ModernizedGps", Boolean), Field("Qzss", Boolean), Field("Glonass", Boolean)>>,
  <<Optional("Bds", Boolean)>>)
GANSSSignals == BitString("1", "8")
SPCSETKey == BitString("128", "128")
SPCTID == ExtSequence(
  <<Field("Rand", BitString("128", "128")), Field("SlpFQDN", Ref("FQDN"))>>,
  <<>>)
SPCSETKeylifetime == Integer("1", "24")
CauseCode == ExtEnumerated(
  <<"ServingNetWorkNotInAreaIdList", "SETCapabilitiesChanged", "NoSUPLCoverage">>,
  <<>>)
ThirdParty == SizedListOf(Ref("ThirdPartyID"), "1", "64")
ThirdPartyID == ExtChoice(
  <<Field("LogicalName", IA5String("1", "1000")), Field("Msisdn", OctetString("8", "8")),
    Field("Emailaddr", IA5String("1", "1000")), Field("SipUri", VisibleString(<<>>, "1", "255")),
    Field("ImsPublicIdentity", VisibleString(<<>>, "1", "255")),
    Field("Min", BitString("34", "34")), Field("Mdn", OctetString("8", "8")),
    Field("Uri", VisibleString(<<>>, "1", "255"))>>,
  <<>>)
ApplicationID == ExtSequence(
  <<Field("AppProvider", IA5String("1", "24")), Field("AppName", IA5String("1", "32")),
    Optional("AppVersion", IA5String("1", "8"))>>,
  <<>>)
ReportingCap == ExtSequence(
  <<Field("MinInt", Integer("1", "3600")), Optional("MaxInt", Integer("1", "1440")),
    Field("RepMode", Ref("RepMode")), Optional("BatchRepCap", Ref("BatchRepCap"))>>,
  <<>>)
RepMode == ExtSequence(
  <<Field("Realtime", Boolean), Field("Quasirealtime", Boolean), Field("Batch", Boolean)>>,
  <<>>)
BatchRepCap == ExtSequence(
  <<Field("ReportPosition", Boolean), Field("ReportMeasurements", Boolean),
    Optional("MaxNumPositions", Integer("1", "1024")),
    Optional("MaxNumMeasurements", Integer("1", "1024"))>>,
  <<>>)
Coordinate == Sequence(
  <<Field("LatitudeSign", Ref("CoordinateLatitudeSign")),
    Field("Latitude", Integer("0", "8388607")), Field("Longitude", Integer("-8388608", "8388607"))>>)
CircularArea == Sequence(
  <<Field("Coordinate", Ref("Coordinate")), Field("Radius", Integer("1", "1000000")),
    Optional("RadiusMin", Integer("1", "1000000")), Optional("RadiusMax", Integer("1", "1500000"))>>)
EllipticalArea == Sequence(
  <<Field("Coordinate", Ref("Coordinate")), Field("SemiMajor", Integer("1", "1000000")),
    Optional("SemiMajorMin", Integer("1", "1000000")),
    Optional("SemiMajorMax", Integer("1", "1500000")),
    Field("SemiMinor", Integer("1", "1000000")),
    Optional("SemiMinorMin", Integer("1", "1000000")),
    Optional("SemiMinorMax", Integer("1", "1500000")), Field("Angle", Integer("0", "179"))>>)
PolygonArea == Sequence(
  <<Field("PolygonDescription", Ref("PolygonDescription")),
    Optional("PolygonHysteresis", Integer("1", "100000"))>>)
PolygonDescription == SizedListOf(Ref("Coordinate"), "3", "15")

\* Every type under its name: what a Ref leads to.
Types == [
  Version |-> Version, SessionID |-> SessionID, SetSessionID |-> SetSessionID, SETId |-> SETId,
  SlpSessionID |-> SlpSessionID, IPAddress |-> IPAddress, SLPAddress |-> SLPAddress,
  FQDN |-> FQDN, Ver |-> Ver, LocationId |-> LocationId, Status |-> Status, CellInfo |-> CellInfo,
  Position |-> Position, PositionEstimate |-> PositionEstimate, AltitudeInfo |-> AltitudeInfo,
  CdmaCellInformation |-> CdmaCellInformation, GsmCellInformation |-> GsmCellInformation,
  WcdmaCellInformation |-> WcdmaCellInformation, TimingAdvance |-> TimingAdvance,
  TAResolution |-> TAResolution, ChipRate |-> ChipRate, FrequencyInfo |-> FrequencyInfo,
  FrequencyInfoFDD |-> FrequencyInfoFDD, FrequencyInfoTDD |-> FrequencyInfoTDD, UARFCN |-> UARFCN,
  NMR |-> NMR, NMRelement |-> NMRelement, MeasuredResultsList |-> MeasuredResultsList,
  MeasuredResults |-> MeasuredResults, CellMeasuredResultsList |-> CellMeasuredResultsList,
  UTRACarrierRSSI |-> UTRACarrierRSSI, CellMeasuredResults |-> CellMeasuredResults,
  CellParametersID |-> CellParametersID, TGSN |-> TGSN, PrimaryCCPCHRSCP |-> PrimaryCCPCHRSCP,
  TimeslotISCP |-> TimeslotISCP, TimeslotISCPList |-> TimeslotISCPList,
  PrimaryCPICHInfo |-> PrimaryCPICHInfo, CPICHEcN0 |-> CPICHEcN0, CPICHRSCP |-> CPICHRSCP,
  Pathloss |-> Pathloss, StatusCode |-> StatusCode, QoP |-> QoP, Velocity |-> Velocity,
  Horvel |-> Horvel, Horandvervel |-> Horandvervel, Horveluncert |-> Horveluncert,
  Horandveruncert |-> Horandveruncert, PosMethod |-> PosMethod,
  MultipleLocationIds |-> MultipleLocationIds, LocationIdData |-> LocationIdData,
  RelativeTime |-> RelativeTime, SupportedNetworkInformation |-> SupportedNetworkInformation,
  SupportedWLANInfo |-> SupportedWLANInfo, SupportedWLANApsList |-> SupportedWLANApsList,
  SupportedWLANApsChannel11a |-> SupportedWLANApsChannel11a,
  SupportedWLANApsChannel11bg |-> SupportedWLANApsChannel11bg,
  SupportedWLANApData |-> SupportedWLANApData, SupportedWCDMAInfo |-> SupportedWCDMAInfo,
  Ver2CellInfoExtension |-> Ver2CellInfoExtension, HrpdCellInformation |-> HrpdCellInformation,
  UmbCellInformation |-> UmbCellInformation, LteCellInformation |-> LteCellInformation,
  MeasResultListEUTRA |-> MeasResultListEUTRA, MeasResultEUTRA |-> MeasResultEUTRA,
  PhysCellId |-> PhysCellId, TrackingAreaCode |-> TrackingAreaCode,
  CellGlobalIdEUTRA |-> CellGlobalIdEUTRA, PLMNIdentity |-> PLMNIdentity,
  CellIdentity |-> CellIdentity, MCC |-> MCC, MNC |-> MNC, MCCMNCDigit |-> MCCMNCDigit,
  RSRPRange |-> RSRPRange, RSRQRange |-> RSRQRange, RSRPRangeExt |-> RSRPRangeExt,
  RSRQRangeExt |-> RSRQRangeExt, RSSINRRange |-> RSSINRRange,
  ServingInformation5G |-> ServingInformation5G,
  NeighbourInformation5G |-> NeighbourInformation5G, WlanAPInformation |-> WlanAPInformation,
  RTD |-> RTD, RTDUnits |-> RTDUnits, ReportedLocation |-> ReportedLocation,
  LocationEncodingDescriptor |-> LocationEncodingDescriptor, LocationData |-> LocationData,
  RepLocation |-> RepLocation, LciLocData |-> LciLocData, LocationDataLCI |-> LocationDataLCI,
  WimaxBSInformation |-> WimaxBSInformation, WimaxBsID |-> WimaxBsID, WimaxRTD |-> WimaxRTD,
  WimaxNMRList |-> WimaxNMRList, WimaxNMR |-> WimaxNMR, NRCellInformation |-> NRCellInformation,
  ServingCellInformationNR |-> ServingCellInformationNR, ServCellNR |-> ServCellNR,
  MeasResultListNR |-> MeasResultListNR, MeasResultNR |-> MeasResultNR,
  PhysCellIdNR |-> PhysCellIdNR, ARFCNNR |-> ARFCNNR, TrackingAreaCodeNR |-> TrackingAreaCodeNR,
  CellGlobalIdNR |-> CellGlobalIdNR, CellIdentityNR |-> CellIdentityNR,
  NRMeasurements |-> NRMeasurements,
  UTRANGPSReferenceTimeAssistance |-> UTRANGPSReferenceTimeAssistance,
  UTRANGPSReferenceTime |-> UTRANGPSReferenceTime, UTRANGPSDriftRate |-> UTRANGPSDriftRate,
  UTRANGPSReferenceTimeResult |-> UTRANGPSReferenceTimeResult,
  UTRANGANSSReferenceTimeAssistance |-> UTRANGANSSReferenceTimeAssistance,
  UTRANGANSSReferenceTime |-> UTRANGANSSReferenceTime,
  UTRANGANSSDriftRate |-> UTRANGANSSDriftRate,
  UTRANGANSSReferenceTimeResult |-> UTRANGANSSReferenceTimeResult,
  SETGANSSReferenceTime |-> SETGANSSReferenceTime, GNSSPosTechnology |-> GNSSPosTechnology,
  GANSSSignals |-> GANSSSignals, SPCSETKey |-> SPCSETKey, SPCTID |-> SPCTID,
  SPCSETKeylifetime |-> SPCSETKeylifetime, CauseCode |-> CauseCode, ThirdParty |-> ThirdParty,
  ThirdPartyID |-> ThirdPartyID, ApplicationID |-> ApplicationID, ReportingCap |-> ReportingCap,
  RepMode |-> RepMode, BatchRepCap |-> BatchRepCap, Coordinate |-> Coordinate,
  CircularArea |-> CircularArea, EllipticalArea |-> EllipticalArea, PolygonArea |-> PolygonArea,
  PolygonDescription |-> PolygonDescription]
===============================================================================
