----------------------------- MODULE PdoLayout ------------------------------
(***************************************************************************)
(* The process data objects (PDO) as the headers declare them: packed      *)
(* structs, whose members follow each other without padding, and the bits  *)
(* of the words that hold flags. "rx" is what a slave receives (outputs of *)
(* the master), "tx" what it sends (inputs).                               *)
(***************************************************************************)
EXTENDS Integers, SequencesExt

width == [uint16_t |-> 2, uint32_t |-> 4, uint64_t |-> 8, float |-> 4]

(* Consecutive members of one type.                                        *)
Members(type, names) == [k \in DOMAIN names |-> [name |-> names[k], type |-> type]]

sizeof(struct) ==
  LET Put(end, m) == end + width[m.type]
  IN  FoldLeft(Put, 0, struct)

MemberNames(struct) == [k \in DOMAIN struct |-> struct[k].name]

(***************************************************************************)
(* KeloDriveAPI.h.                                                         *)
(***************************************************************************)
txpdo1_t ==
  Members("uint16_t", <<"status1", "status2">>)
  \o Members("uint64_t", <<"sensor_ts", "setpoint_ts">>)
  \o Members("float", <<"encoder_1", "velocity_1", "current_1_d", "current_1_q",
       "current_1_u", "current_1_v", "current_1_w", "voltage_1", "voltage_1_u",
       "voltage_1_v", "voltage_1_w", "temperature_1", "encoder_2", "velocity_2",
       "current_2_d", "current_2_q", "current_2_u", "current_2_v", "current_2_w",
       "voltage_2", "voltage_2_u", "voltage_2_v", "voltage_2_w", "temperature_2",
       "encoder_pivot", "velocity_pivot", "voltage_bus">>)
  \o Members("uint64_t", <<"imu_ts">>)
  \o Members("float", <<"accel_x", "accel_y", "accel_z", "gyro_x", "gyro_y",
       "gyro_z", "temperature_imu", "pressure", "current_in">>)

rxpdo1_t ==
  Members("uint16_t", <<"command1", "command2">>)
  \o Members("float", <<"setpoint1", "setpoint2", "limit1_p", "limit1_n",
       "limit2_p", "limit2_n">>)
  \o Members("uint64_t", <<"timestamp">>)

(* The units that the comments of the header give, by member.              *)
DriveUnit == [
  sensor_ts |-> "[ns]", setpoint_ts |-> "[ns]", imu_ts |-> "[ns]", timestamp |-> "[ns]",
  encoder_1 |-> "[rad]", encoder_2 |-> "[rad]", encoder_pivot |-> "[rad]",
  velocity_1 |-> "[rad/s]", velocity_2 |-> "[rad/s]", velocity_pivot |-> "[rad/s]",
  gyro_x |-> "[rad/s]", gyro_y |-> "[rad/s]", gyro_z |-> "[rad/s]",
  current_1_d |-> "[A]", current_1_q |-> "[A]", current_1_u |-> "[A]",
  current_1_v |-> "[A]", current_1_w |-> "[A]", current_2_d |-> "[A]",
  current_2_q |-> "[A]", current_2_u |-> "[A]", current_2_v |-> "[A]",
  current_2_w |-> "[A]", voltage_1 |-> "[V]", voltage_1_u |-> "[V]",
  voltage_1_v |-> "[V]", voltage_1_w |-> "[V]", voltage_2 |-> "[V]",
  voltage_2_u |-> "[V]", voltage_2_v |-> "[V]", voltage_2_w |-> "[V]",
  voltage_bus |-> "[V]", temperature_1 |-> "[K]", temperature_2 |-> "[K]",
  temperature_imu |-> "[K]", accel_x |-> "[m/s^2]", accel_y |-> "[m/s^2]",
  accel_z |-> "[m/s^2]", pressure |-> "[Pa]"]

STAT1 == [ENABLED1 |-> 1, ENABLED2 |-> 2, ENC_1_OK |-> 4, ENC_2_OK |-> 8,
  ENC_PIVOT_OK |-> 16, UNDERVOLTAGE |-> 32, OVERVOLTAGE |-> 64,
  OVERCURRENT_1 |-> 128, OVERCURRENT_2 |-> 256, OVERTEMP_1 |-> 512,
  OVERTEMP_2 |-> 1024, ENABLED_GRIP |-> 2048, INPOS_GRIP |-> 4096,
  OVERLOAD_GRIP |-> 8192, DETECT |-> 16384]

COM1 == [ENABLE1 |-> 1, ENABLE2 |-> 2, MODE_TORQUE |-> 0, MODE_DTORQUE |-> 4,
  MODE_VELOCITY |-> 8, MODE_DVELOCITY |-> 12, EMERGENCY1 |-> 16, EMERGENCY2 |-> 32,
  ENABLESERVO |-> 1024, SERVOCLOSE |-> 2048, USE_TS |-> 32768]

(***************************************************************************)
(* RobileMasterBattery.h.                                                  *)
(***************************************************************************)
RobileMasterBatteryProcessDataInput ==
  Members("uint64_t", <<"TimeStamp">>)
  \o Members("uint16_t", <<"Status", "Error", "Warning">>)
  \o Members("float", <<"OutputCurrent", "OutputVoltage", "OutputPower",
       "AuxPortCurrent", "GenericData1">>)
  \o Members("uint32_t", <<"GenericData2">>)
  \o Members("uint16_t", <<"bmsm_PwrDeviceId", "bmsm_Status">>)
  \o Members("float", <<"bmsm_Voltage", "bmsm_Current", "bmsm_Temperature">>)
  \o Members("uint16_t", <<"bmsm_SOC">>)
  \o Members("uint32_t", <<"bmsm_SN", "bmsm_BatData1">>)
  \o Members("float", <<"bmsm_BatData2">>)

RobileMasterBatteryProcessDataOutput ==
  Members("uint32_t", <<"Command1", "Command2">>)
  \o Members("uint16_t", <<"Shutdown", "PwrDeviceId">>)

(* The bits of Error and Warning, from bit 0 on, as the comments count     *)
(* them.                                                                   *)
ErrorBits   == <<"LowBAT", "EMPTYFRAM", "WrongFRAM", "WrongCHGARGER", "OverloadCHG",
                 "OverCurrentError", "Watchdog">>
WarningBits == <<"OverCurrentWarning", "Shutdown">>

(***************************************************************************)
(* KeloEcPd.h.                                                             *)
(***************************************************************************)
EcPd_tx ==
  Members("uint32_t", <<"status">>)
  \o Members("uint64_t", <<"imu_ts">>)
  \o Members("float", <<"accel_x", "accel_y", "accel_z", "gyro_x", "gyro_y", "gyro_z",
       "imu_temperature", "pressure", "chargeport_voltage", "enable_voltage",
       "neopixel_voltage", "bus_voltage">>)
  \o Members("uint32_t", <<"id1">>) \o Members("uint16_t", <<"status1">>)
  \o Members("float", <<"voltage1", "current1", "soc1", "temperature1", "cycles1">>)
  \o Members("uint32_t", <<"id2">>) \o Members("uint16_t", <<"status2">>)
  \o Members("float", <<"voltage2", "current2", "soc2", "temperature2", "cycles2">>)

EcPd_rx ==
  Members("uint32_t", <<"command">>)
  \o Members("uint16_t", <<"bms1_command", "bms2_command", "neopixel_range1">>)
  \o Members("uint32_t", <<"neopixel_color1">>)
  \o Members("uint16_t", <<"neopixel_range2">>)
  \o Members("uint32_t", <<"neopixel_color2">>)
=============================================================================
