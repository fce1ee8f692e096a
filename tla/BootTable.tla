----------------------------- MODULE BootTable -----------------------------
(***************************************************************************)
(* The layout of class BootServices: a method calls through a field, and   *)
(* enters the service the firmware has put in the place of that field.     *)
(***************************************************************************)
EXTENDS Naturals, Sequences

Fields ==
  <<"raise_tpl_", "restore_tpl_", "allocate_pages_", "free_pages_", "get_memory_map_",
    "allocate_pool_", "free_pool_", "create_event_", "set_timer_", "wait_for_event_",
    "signal_event_", "close_event_", "check_event_", "install_protocol_interface_",
    "reinstall_protocol_interface_", "uninstall_protocol_interface_", "handle_protocol_",
    "reserved_", "register_protocol_notify_", "locate_handle_", "locate_device_path_",
    "install_configuration_table_", "load_image_", "image_start_", "exit_", "unload_image_",
    "exit_boot_services_", "get_next_monotonic_count_", "stall_", "set_watchdog_timer_",
    "connect_controller_", "disconnect_controller_", "open_protocol_", "close_protocol_",
    "open_protocol_information_", "protocols_per_handle_", "locate_handle_buffer_",
    "locate_protocol_", "install_multiple_protocol_interfaces_",
    "uninstall_multiple_protocol_interfaces_", "calculate_crc32_", "copy_mem_", "set_mem_",
    "create_event_ex_">>

Services ==
  <<"RaiseTPL", "RestoreTPL", "AllocatePages", "FreePages", "GetMemoryMap",
    "AllocatePool", "FreePool", "CreateEvent", "SetTimer", "WaitForEvent",
    "SignalEvent", "CloseEvent", "CheckEvent", "InstallProtocolInterface",
    "ReinstallProtocolInterface", "UninstallProtocolInterface", "HandleProtocol",
    "Reserved", "RegisterProtocolNotify", "LocateHandle", "LocateDevicePath",
    "InstallConfigurationTable", "LoadImage", "StartImage", "Exit", "UnloadImage",
    "ExitBootServices", "GetNextMonotonicCount", "Stall", "SetWatchdogTimer",
    "ConnectController", "DisconnectController", "OpenProtocol", "CloseProtocol",
    "OpenProtocolInformation", "ProtocolsPerHandle", "LocateHandleBuffer",
    "LocateProtocol", "InstallMultipleProtocolInterfaces",
    "UninstallMultipleProtocolInterfaces", "CalculateCrc32", "CopyMem", "SetMem",
    "CreateEventEx">>

\* A call through `field` enters `service`.  It is a guard of the method: with the
\* field elsewhere the method is never taken.
Enters(field, service) ==
  \E i \in DOMAIN Fields : Fields[i] = field /\ Services[i] = service

=============================================================================
