--------------------------- MODULE SlaveDecoders ----------------------------
(***************************************************************************)
(* KeloDriveSlave, RobileBatterySlave and KeloBMSSlave: what the virtual   *)
(* functions of EthercatSlave return for each. A value is named by the     *)
(* member of the struct that it is read from; turning it into text is left *)
(* out, except for the bits of the words that hold flags.                  *)
(*                                                                         *)
(* The variables, their units and their values are three lists that belong *)
(* together by position only; JSON names the member of each key.           *)
(***************************************************************************)
EXTENDS SlaveTypes, PdoLayout

(* The members of one struct whose key in JSON is their name.              *)
Same(members) == [k \in DOMAIN members |-> <<members[k], members[k]>>]

(***************************************************************************)
(* KeloDriveSlave.                                                         *)
(***************************************************************************)
DriveRxVariables ==
  <<"command1", "command2", "setpoint1", "setpoint2", "limit1_p",
     "limit1_n", "limit2_p", "limit2_n", "timestamp">>

DriveRxUnits ==
  <<"", "", "", "", "", "", "", "", "[ns]">>

DriveRxValues ==
  <<"command1", "command2", "setpoint1", "setpoint2", "limit1_p",
     "limit1_n", "limit2_p", "limit2_n", "timestamp">>

DriveCommands ==
  Same(<<"command1", "command2", "setpoint1", "setpoint2", "limit1_p",
     "limit1_n", "limit2_p", "limit2_n", "timestamp">>)

DriveTxVariables ==
  <<"status1", "status2", "sensor_ts", "setpoint_ts", "encoder_1",
     "velocity_1", "current_1_d", "current_1_q", "current_1_u",
     "current_1_v", "current_1_w", "voltage_1", "voltage_1_u", "voltage_1_v",
     "voltage_1_w", "temperature_1", "encoder_2", "velocity_2",
     "current_2_d", "current_2_q", "current_2_u", "current_2_v",
     "current_2_w", "voltage_2", "voltage_2_u", "voltage_2_v", "voltage_2_w",
     "temperature_2", "encoder_pivot", "velocity_pivot", "voltage_bus",
     "imu_ts", "accel_x", "accel_y", "accel_z", "gyro_x", "gyro_y", "gyro_z",
     "temperature_imu", "pressure", "current_in">>

DriveTxUnits ==
  <<"", "", "[ns]", "[ns]", "[rad]", "[rad/s]", "[A]", "[A]", "[A]", "[A]",
     "[A]", "[V]", "[V]", "[V]", "[V]", "[K]", "[rad]", "[rad/s]", "[A]",
     "[A]", "[A]", "[A]", "[A]", "[V]", "[V]", "[V]", "[V]", "[K]", "[rad]",
     "[rad/s]", "[V]", "[ns]", "[m/s^2]", "[m/s^2]", "[m/s^2]", "[rad/s]",
     "[rad/s]", "[rad/s]", "[K]", "[Pa]", "[A]">>

(* Mutant: two lines are swapped.                                          *)
MutDriveTxValues ==
  <<"status1", "status2", "sensor_ts", "setpoint_ts", "encoder_1",
     "velocity_1", "current_1_q", "current_1_d", "current_1_u",
     "current_1_v", "current_1_w", "voltage_1", "voltage_1_u", "voltage_1_v",
     "voltage_1_w", "temperature_1", "encoder_2", "velocity_2",
     "current_2_d", "current_2_q", "current_2_u", "current_2_v",
     "current_2_w", "voltage_2", "voltage_2_u", "voltage_2_v", "voltage_2_w",
     "temperature_2", "encoder_pivot", "velocity_pivot", "voltage_bus",
     "imu_ts", "accel_x", "accel_y", "accel_z", "gyro_x", "gyro_y", "gyro_z",
     "temperature_imu", "pressure", "current_in">>

DriveTxValues ==
  <<"status1", "status2", "sensor_ts", "setpoint_ts", "encoder_1",
     "velocity_1", "current_1_d", "current_1_q", "current_1_u",
     "current_1_v", "current_1_w", "voltage_1", "voltage_1_u", "voltage_1_v",
     "voltage_1_w", "temperature_1", "encoder_2", "velocity_2",
     "current_2_d", "current_2_q", "current_2_u", "current_2_v",
     "current_2_w", "voltage_2", "voltage_2_u", "voltage_2_v", "voltage_2_w",
     "temperature_2", "encoder_pivot", "velocity_pivot", "voltage_bus",
     "imu_ts", "accel_x", "accel_y", "accel_z", "gyro_x", "gyro_y", "gyro_z",
     "temperature_imu", "pressure", "current_in">>

DriveSensors ==
  Same(<<"status1", "status2", "sensor_ts", "setpoint_ts", "encoder_1",
     "velocity_1", "current_1_d", "current_1_q", "current_1_u",
     "current_1_v", "current_1_w", "voltage_1", "voltage_1_u", "voltage_1_v",
     "voltage_1_w", "temperature_1", "encoder_2", "velocity_2",
     "current_2_d", "current_2_q", "current_2_u", "current_2_v",
     "current_2_w", "voltage_2", "voltage_2_u", "voltage_2_v", "voltage_2_w",
     "temperature_2", "encoder_pivot", "velocity_pivot", "voltage_bus",
     "imu_ts", "accel_x", "accel_y", "accel_z", "gyro_x", "gyro_y", "gyro_z",
     "temperature_imu", "pressure", "current_in">>)

(***************************************************************************)
(* RobileBatterySlave. The struct has names of its own.                    *)
(***************************************************************************)
BatteryRxVariables ==
  <<"command1", "command2", "shutdown", "pwr_device_id">>

BatteryRxUnits ==
  <<"", "", "", "">>

BatteryRxValues ==
  <<"Command1", "Command2", "Shutdown", "PwrDeviceId">>

BatteryCommands ==
  <<<<"command1", "Command1">>, <<"command2", "Command2">>,
     <<"shutdown", "Shutdown">>, <<"pwr_device_id", "PwrDeviceId">>>>

BatteryTxVariables ==
  <<"timestamp", "status", "error", "warning", "output_current",
     "output_voltage", "output_power", "aux_port_current", "generic_data1",
     "generic_data2", "bmsm_pwr_device_id", "bmsm_status", "bmsm_voltage",
     "bmsm_current", "bmsm_temperature", "bmsm_soc", "bmsm_sn",
     "bmsm_bat_data1", "bmsm_bat_data2">>

BatteryTxUnits ==
  <<"[ms]", "", "", "", "[A]", "[V]", "[W]", "[A]", "", "", "", "", "[V]",
     "[A]", "[K]", "", "", "", "">>

BatteryTxValues ==
  <<"TimeStamp", "Status", "Error", "Warning", "OutputCurrent",
     "OutputVoltage", "OutputPower", "AuxPortCurrent", "GenericData1",
     "GenericData2", "bmsm_PwrDeviceId", "bmsm_Status", "bmsm_Voltage",
     "bmsm_Current", "bmsm_Temperature", "bmsm_SOC", "bmsm_SN",
     "bmsm_BatData1", "bmsm_BatData2">>

BatterySensors ==
  <<<<"timestamp", "TimeStamp">>, <<"status", "Status">>,
     <<"error", "Error">>, <<"warning", "Warning">>,
     <<"output_current", "OutputCurrent">>,
     <<"output_voltage", "OutputVoltage">>, <<"output_power", "OutputPower">>,
     <<"aux_port_current", "AuxPortCurrent">>,
     <<"generic_data1", "GenericData1">>, <<"generic_data2", "GenericData2">>,
     <<"bmsm_pwr_device_id", "bmsm_PwrDeviceId">>,
     <<"bmsm_status", "bmsm_Status">>, <<"bmsm_voltage", "bmsm_Voltage">>,
     <<"bmsm_current", "bmsm_Current">>,
     <<"bmsm_temperature", "bmsm_Temperature">>, <<"bmsm_soc", "bmsm_SOC">>,
     <<"bmsm_sn", "bmsm_SN">>, <<"bmsm_bat_data1", "bmsm_BatData1">>,
     <<"bmsm_bat_data2", "bmsm_BatData2">>>>

(***************************************************************************)
(* KeloBMSSlave.                                                           *)
(***************************************************************************)
BmsRxVariables ==
  <<"command", "bms1_command", "bms2_command", "neopixel_range1",
     "neopixel_color1", "neopixel_range2", "neopixel_color2">>

BmsRxUnits ==
  <<"", "", "", "", "", "", "">>

BmsRxValues ==
  <<"command", "bms1_command", "bms2_command", "neopixel_range1",
     "neopixel_color1", "neopixel_range2", "neopixel_color2">>

BmsCommands ==
  Same(<<"command", "bms1_command", "bms2_command", "neopixel_range1",
     "neopixel_color1", "neopixel_range2", "neopixel_color2">>)

BmsTxVariables ==
  <<"status", "imu_ts", "accel_x", "accel_y", "accel_z", "gyro_x", "gyro_y",
     "gyro_z", "imu_temperature", "pressure", "chargeport_voltage",
     "enable_voltage", "neopixel_voltage", "bus_voltage", "id1", "status1",
     "voltage1", "current1", "soc1", "temperature1", "cycles1", "id2",
     "status2", "voltage2", "current2", "soc2", "temperature2", "cycles2">>

BmsTxUnits ==
  <<"", "[ns]", "[m/s^2]", "[m/s^2]", "[m/s^2]", "[rad/s]", "[rad/s]",
     "[rad/s]", "[K]", "[Pa]", "[V]", "[V]", "[V]", "[V]", "", "", "[V]",
     "[A]", "", "[K]", "", "", "", "[V]", "[A]", "", "[K]", "">>

BmsTxValues ==
  <<"status", "imu_ts", "accel_x", "accel_y", "accel_z", "gyro_x", "gyro_y",
     "gyro_z", "imu_temperature", "pressure", "chargeport_voltage",
     "enable_voltage", "neopixel_voltage", "bus_voltage", "id1", "status1",
     "voltage1", "current1", "soc1", "temperature1", "cycles1", "id2",
     "status2", "voltage2", "current2", "soc2", "temperature2", "cycles2">>

BmsSensors ==
  Same(<<"status", "imu_ts", "accel_x", "accel_y", "accel_z", "gyro_x", "gyro_y",
     "gyro_z", "imu_temperature", "pressure", "chargeport_voltage",
     "enable_voltage", "neopixel_voltage", "bus_voltage", "id1", "status1",
     "voltage1", "current1", "soc1", "temperature1", "cycles1", "id2",
     "status2", "voltage2", "current2", "soc2", "temperature2", "cycles2">>)

(***************************************************************************)
(* The virtual functions, by the type of the slave.                        *)
(***************************************************************************)
Types == {KELO_DRIVE_SLAVE, ROBILE_BATTERY_SLAVE, KELO_BMS_SLAVE}

ByType(drive, battery, bms) ==
  [t \in Types |-> CASE t = KELO_DRIVE_SLAVE     -> drive
                     [] t = ROBILE_BATTERY_SLAVE -> battery
                     [] t = KELO_BMS_SLAVE       -> bms]

(* copyData: the structs that one memcpy each fills from the outputs and   *)
(* the inputs.                                                             *)
rx_struct == ByType(rxpdo1_t, RobileMasterBatteryProcessDataOutput, EcPd_rx)
tx_struct == ByType(txpdo1_t, RobileMasterBatteryProcessDataInput, EcPd_tx)

getRxVariables == ByType(DriveRxVariables, BatteryRxVariables, BmsRxVariables)
getTxVariables == ByType(DriveTxVariables, BatteryTxVariables, BmsTxVariables)
getRxUnits     == ByType(DriveRxUnits, BatteryRxUnits, BmsRxUnits)
getTxUnits     == ByType(DriveTxUnits, BatteryTxUnits, BmsTxUnits)
getRxValues    == ByType(DriveRxValues, BatteryRxValues, BmsRxValues)
getTxValues    == ByType(DriveTxValues, BatteryTxValues, BmsTxValues)

(* convertToJson: pairs of a key and the member it is read from.           *)
commands == ByType(DriveCommands, BatteryCommands, BmsCommands)
sensors  == ByType(DriveSensors, BatterySensors, BmsSensors)

areBitsParsable == ByType({"command1", "status1"}, {"error", "warning"}, {})

(***************************************************************************)
(* parseBits: the text of a tooltip, pairs of a name and the number that   *)
(* stands beside it.                                                       *)
(***************************************************************************)

(* (data & mask) >> shift, for a mask of one bit.                          *)
Flag(data, mask, shift) == (((data \div mask) % 2) * mask) \div (2 ^ shift)

Is(condition) == IF condition THEN 1 ELSE 0

parseCommand1(data) ==
  LET mode == 4 * ((data \div 4) % 4)   \* data & (0x3 << 2)
  IN  << <<"ENABLE1", Flag(data, COM1.ENABLE1, 0)>>,
         <<"ENABLE2", Flag(data, COM1.ENABLE2, 1)>>,
         <<"MODE_TORQUE", Is(mode = COM1.MODE_TORQUE)>>,
         <<"MODE_DTORQUE", Is(mode = COM1.MODE_DTORQUE)>>,
         <<"MODE_VELOCITY", Is(mode = COM1.MODE_VELOCITY)>>,
         <<"MODE_DVELOCITY", Is(mode = COM1.MODE_DVELOCITY)>>,
         <<"EMERGENCY1", Flag(data, COM1.EMERGENCY1, 4)>>,
         <<"EMERGENCY2", Flag(data, COM1.EMERGENCY2, 5)>>,
         <<"ENABLESERVO", Flag(data, COM1.ENABLESERVO, 10)>>,
         <<"SERVOCLOSE", Flag(data, COM1.SERVOCLOSE, 11)>>,
         <<"USE_TS", Flag(data, COM1.USE_TS, 15)>> >>

(* The names are pushed first, then the values, each with its shift.       *)
parseStatus1(data) ==
  LET vars == <<"ENABLED1", "ENABLED2", "ENC_1_OK", "ENC_2_OK", "ENC_PIVOT_OK",
                "UNDERVOLTAGE", "OVERVOLTAGE", "OVERCURRENT_1", "OVERCURRENT_2",
                "OVERTEMP_1", "OVERTEMP_2", "ENABLED_GRIP", "INPOS_GRIP",
                "OVERLOAD_GRIP", "DETECT">>
  IN  [k \in DOMAIN vars |-> <<vars[k], Flag(data, STAT1[vars[k]], k - 1)>>]

(* The masks are 1, 2, 4, ... in the order of the names.                   *)
Bits(vars, data) == [k \in DOMAIN vars |-> <<vars[k], Flag(data, 2 ^ (k - 1), k - 1)>>]

parseError(data) ==
  Bits(<<"Low Battery", "Empty Frame", "Wrong Frame", "Wrong Charger", "Overload CHG",
         "Over current", "Watchdog">>, data)

parseWarning(data) == Bits(<<"Over current", "Shutdown">>, data)

parseBits(type, data, var_name) ==
  CASE type = KELO_DRIVE_SLAVE /\ var_name = "command1"    -> parseCommand1(data)
    [] type = KELO_DRIVE_SLAVE /\ var_name = "status1"     -> parseStatus1(data)
    [] type = ROBILE_BATTERY_SLAVE /\ var_name = "error"   -> parseError(data)
    [] type = ROBILE_BATTERY_SLAVE /\ var_name = "warning" -> parseWarning(data)
    [] OTHER                                               -> << >>
=============================================================================
